---------------------------- MODULE CommitProofs ----------------------------
(***************************************************************************)
(* Proof that commit and recovery are atomic and always recoverable, for   *)
(* every plan that is covered (CommitConstants), any number of operations  *)
(* and any number of faults.                                               *)
(*                                                                         *)
(* First come the types, the operators of the model, and what the process  *)
(* knows of its journal, its schedule and the catalog; where the model     *)
(* follows a schedule to its end, the proofs argue by the least operation  *)
(* (NatLemmas).                                                            *)
(*                                                                         *)
(* The rest of the invariant speaks of Left, the listings of a target's    *)
(* directory that the faults still to come can leave, and of all journals  *)
(* and catalogs that they can bring back.  Every step is shown to be of    *)
(* one of a few shapes that change one target (Shape, Turned); then each   *)
(* part of the invariant is shown to be kept by a case analysis over these *)
(* shapes instead of over the actions.                                     *)
(*                                                                         *)
(* From the invariant follows besides that what somebody else put at a     *)
(* target is never deleted, that commit and recovery implement             *)
(* AtomicDeploy, and, with what is known of every private name (Sweeping), *)
(* that the journal goes last.                                             *)
(***************************************************************************)
EXTENDS Commit, NatLemmas

-----------------------------------------------------------------------------
\* Types.

\* Where the process is: applying the plan (apply_targets), ...
Mutating == {"serial", "link", "move", "place"}
\* ... on its way to the commit point and past it, ...
Steps == Mutating \cup {"publish", "exchange", "unstage", "finish"}
\* ... or anywhere.
Pcs == Steps \cup {"down", "dark", "rollback", "back", "forward", "clean", "unjournal"}
\* How far it is with one operation.
Points == {"", "staged", "recorded", "check", "rename", "moved", "place", "placed", "unplace",
           "delete", "new", "leaf", "created"}
\* The names of one target, the journal and the catalog.
Listing == [Names -> Objects]
Journals == [Ops -> Record]
Catalogs == [cur : {"prev", "next"}, stage : {"none", "next", "prev"}]

\* The plan is one that verify_missing_ancestor_coverage accepts.
PlanOK == plan \in Seq(Operation) /\ Len(plan) > 0 /\ \A o \in Ops : Covered(plan, o)

\* A target is on disk in a state that its directory has had since its last sync.
TargetType ==
  /\ fs \in [Ops -> Listing] /\ disk \in [Ops -> SUBSET Listing]
  /\ \A o \in Ops : fs[o] \in disk[o]

\* So are the journal and the catalog.
StoreType ==
  /\ jrn \in jdur /\ \A j \in jdur : j \in Journals \cup {NoJournal}
  /\ cat \in cdur /\ \A c \in cdur : c \in Catalogs
  /\ mem \in Journals \cup {NoMem}

\* The process and the faults still to come.
ControlType ==
  /\ pc \in Pcs /\ idx \in 0 .. N + 1 /\ at \in Points
  /\ raced \subseteq Ops /\ err \in {"", "error", "keep", "failed"}
  /\ kills \in Nat /\ cuts \in Nat /\ ioErrs \in Nat /\ edits \in Nat /\ took \subseteq Ops

-----------------------------------------------------------------------------
\* The operations of a plan.
LEMMA PlanFacts ==
  ASSUME PlanOK
  PROVE  /\ N \in Nat /\ N > 0 /\ Ops = 1 .. N
         /\ \A o \in Ops : /\ plan[o].kind \in Kinds /\ plan[o].seen \in {"none", "prior"}
                           /\ plan[o].in \in Nat /\ plan[o].namesake \in BOOLEAN
         /\ NoJournal \notin Journals
<1>1. N \in Nat /\ N > 0 /\ Ops = 1 .. N
  BY DEF PlanOK, N, Ops
<1>2. \A o \in Ops : plan[o] \in Operation
  BY DEF PlanOK, N, Ops
<1>3. NoJournal \notin Journals
  <2>1. DOMAIN NoJournal = {}
    BY DEF NoJournal
  <2>2. \A j \in Journals : DOMAIN j = Ops /\ 1 \in Ops
    BY <1>1 DEF Journals
  <2> QED BY <2>1, <2>2
<1> QED BY <1>1, <1>2, <1>3 DEF Operation

\* No step changes the plan ...
LEMMA PlanStays ==
  ASSUME [Next]_vars
  PROVE  plan' = plan
BY DEF Next, Begin, Work, Recover, Environment, SerialStep, FinishStep, UndoStep, vars, Kill,
   IoError, PowerLoss,
   Edit, AssertAbsent, SerialStage, SerialRecord, SerialIntent, CheckSource, MoveAside,
   SerialIdentify, Place,
   Placed, Unplace, Link, StageFiles, PinSources, IdentifyBackups, VerifyApplied, StageCatalog,
   ExchangeCatalog,
   UnstageCatalog, SaveCatalog, RemoveJournal, FinishRefuses, QuarantineBackup, DeleteBackup,
   FinishNext,
   FinishDone, UndoSkip, UndoRefuses, UndoDone, QuarantineNew, CheckCreated, QuarantineLeaf,
   DeleteCreated,
   RestoreBackup, RollbackDone, RecoverRolledBack, CleanCatalog

\* ... or anything that is derived from it alone.
LEMMA PlanFixed ==
  ASSUME plan' = plan
  PROVE  /\ N' = N /\ Ops' = Ops /\ Journals' = Journals
         /\ PlanOK => PlanOK'
         /\ \A K : Of(K)' = Of(K)
         /\ Serial' = Serial /\ Files' = Files /\ Phased' = Phased /\ Backed' = Backed
         /\ \A o : Goal(o)' = Goal(o)
<1>2. N' = N /\ Ops' = Ops
  BY DEF N, Ops
<1>3. Journals' = Journals
  BY <1>2 DEF Journals
<1>4. PlanOK => PlanOK'
  BY <1>2 DEF PlanOK
<1>5. \A K : Of(K)' = Of(K)
  BY <1>2 DEF Of
<1>6. Serial' = Serial /\ Files' = Files /\ Phased' = Phased /\ Backed' = Backed
  BY <1>5 DEF Serial, Files, Phased, Backed
<1>7. \A o : Goal(o)' = Goal(o)
  BY DEF Goal
<1> QED BY <1>2, <1>3, <1>4, <1>5, <1>6, <1>7

\* The schedules are sets of operations.
LEMMA OpSets ==
  /\ Serial \subseteq Ops /\ Files \subseteq Phased /\ Phased \subseteq Ops
        /\ Backed \subseteq Phased
  /\ \A K : Of(K) \subseteq Ops
  /\ ToFinish \subseteq Ops
BY DEF Serial, Files, Phased, Backed, Of, ToFinish

\* After gives the next operation of a schedule, or the end (by the least number).
LEMMA AfterFacts ==
  ASSUME PlanOK, NEW S \in SUBSET Ops, NEW o \in 0 .. N
  PROVE  /\ After(S, o) \in S \cup {N + 1} /\ After(S, o) > o /\ After(S, o) \in 1 .. N + 1
         /\ \A q \in S : q > o => After(S, o) <= q
<1>0. N \in Nat /\ o \in Nat /\ \A q \in S : q \in 1 .. N /\ q \in Nat
  BY PlanFacts
<1> DEFINE C == {p \in S : p > o}
<1>1. CASE C = {}
  <2>1. After(S, o) = N + 1
    BY <1>1 DEF After
  <2> QED BY <1>0, <1>1, <2>1
<1>2. CASE C # {}
  <2>1. C \in SUBSET Nat
    BY <1>0
  <2>2. PICK m \in C : \A k \in C : m <= k
    BY <1>2, <2>1, Least
  <2>3. \E p \in S : p > o /\ \A q \in S : q > o => p <= q
    BY <2>2
  <2>4. After(S, o) = CHOOSE p \in S : p > o /\ \A q \in S : q > o => p <= q
    BY <1>2 DEF After
  <2>5. After(S, o) \in S /\ After(S, o) > o /\ \A q \in S : q > o => After(S, o) <= q
    BY <2>3, <2>4
  <2> QED BY <2>5, <1>0
<1> QED BY <1>1, <1>2

\* The same for each of the schedules.
LEMMA AfterTypes ==
  ASSUME PlanOK
  PROVE  /\ \A K : \A o \in 0 .. N : After(Of(K), o) \in Of(K) \cup {N + 1}
               /\ After(Of(K), o) \in 0 .. N + 1
         /\ \A o \in 0 .. N : After(Serial, o) \in Serial \cup {N + 1}
               /\ After(Serial, o) \in 0 .. N + 1
         /\ \A o \in 0 .. N : After(Files, o) \in Files \cup {N + 1}
               /\ After(Files, o) \in 0 .. N + 1
         /\ \A o \in 0 .. N : After(Backed, o) \in Backed \cup {N + 1}
               /\ After(Backed, o) \in 0 .. N + 1
         /\ \A o \in 0 .. N : After(ToFinish, o) \in ToFinish \cup {N + 1}
               /\ After(ToFinish, o) \in 0 .. N + 1
         /\ \A o \in 0 .. N : After(Ops, o) \in Ops \cup {N + 1} /\ After(Ops, o) \in 0 .. N + 1
<1>1. 1 .. N + 1 \subseteq 0 .. N + 1
  BY PlanFacts
<1> QED BY <1>1, OpSets, AfterFacts

\* A rename moves one name of a target and leaves the others.
LEMMA MoveFacts ==
  ASSUME NEW f \in Listing, NEW x \in Names, NEW y \in Names, x # y
  PROVE  /\ Move(f, x, y) \in Listing
         /\ Move(f, x, y)[y] = f[x] /\ Move(f, x, y)[x] = "none"
         /\ \A n \in Names \ {x, y} : Move(f, x, y)[n] = f[n]
BY DEF Move, Listing, Names, Objects

\* unlinkat removes one name.
LEMMA UnlinkFacts ==
  ASSUME NEW f \in Listing, NEW x \in Names
  PROVE  /\ Unlink(f, x) \in Listing /\ Unlink(f, x)[x] = "none"
         /\ \A n \in Names \ {x} : Unlink(f, x)[n] = f[n]
BY DEF Unlink, Listing, Names, Objects

\* Writing one name leaves the others.
LEMMA SetFacts ==
  ASSUME NEW f \in Listing, NEW x \in Names, NEW v \in Objects
  PROVE  /\ [f EXCEPT ![x] = v] \in Listing /\ [f EXCEPT ![x] = v][x] = v
         /\ \A n \in Names \ {x} : [f EXCEPT ![x] = v][n] = f[n]
BY DEF Listing, Names, Objects

\* A change that is not synced adds a state that a loss of power may leave.
LEMMA PutFacts ==
  ASSUME TargetType, NEW o \in Ops, NEW f \in Listing, Put(o, f), Ops' = Ops
  PROVE  /\ TargetType'
         /\ fs'[o] = f /\ disk'[o] = disk[o] \cup {f}
         /\ \A q \in Ops \ {o} : fs'[q] = fs[q] /\ disk'[q] = disk[q]
BY DEF TargetType, Put

\* A change that is synced is the only one left.
LEMMA PutSyncedFacts ==
  ASSUME TargetType, NEW o \in Ops, NEW f \in Listing, PutSynced(o, f), Ops' = Ops
  PROVE  /\ TargetType'
         /\ fs'[o] = f /\ disk'[o] = {f}
         /\ \A q \in Ops \ {o} : fs'[q] = fs[q] /\ disk'[q] = disk[q]
BY DEF TargetType, PutSynced

\* sync_unique_parents changes no name.
LEMMA SyncFacts ==
  ASSUME TargetType, NEW S, SyncTargets(S), Ops' = Ops
  PROVE  /\ TargetType' /\ fs' = fs
         /\ \A q \in Ops : disk'[q] = IF q \in S THEN {fs[q]} ELSE disk[q]
BY DEF TargetType, SyncTargets

\* What staging a record makes of a journal (stage_created_identity and the others).
LEMMA JournalFacts ==
  ASSUME NEW m \in Journals, NEW S, NEW b \in {"intent", "identified"}
  PROVE  /\ Created(m, S) \in Journals /\ Backup(m, S, b) \in Journals
         /\ \A o \in Ops : /\ Created(m, S)[o].created <=> (m[o].created \/ o \in S)
                           /\ Created(m, S)[o].backup = m[o].backup
                           /\ Backup(m, S, b)[o].created <=> m[o].created
                           /\ Backup(m, S, b)[o].backup = IF o \in S THEN b ELSE m[o].backup
BY DEF Created, Backup, Journals, Record

\* The journal that publish_journal writes first has no records.
LEMMA BlankFacts ==
  [o \in Ops |-> Blank] \in Journals /\ Blank.created = FALSE /\ Blank.backup = "none"
BY DEF Blank, Journals, Record
-----------------------------------------------------------------------------
\* If some backup is not the pinned object, there is a first one.
LEMMA WrongFirst ==
  ASSUME PlanOK, NEW wrong, wrong = {o \in Backed : fs[o]["bak"] # "prior"}, wrong # {}
  PROVE  After(wrong, 0) \in wrong /\ After(wrong, 0) \in Ops
<1>1. wrong \in SUBSET Ops /\ 0 \in 0 .. N
  BY OpSets, PlanFacts
<1>2. PICK p \in wrong : p \in 1 .. N /\ N \in Nat /\ p > 0
  BY <1>1, PlanFacts
<1>3. After(wrong, 0) <= p /\ After(wrong, 0) \in wrong \cup {N + 1}
  BY <1>1, <1>2, AfterFacts
<1> QED BY <1>1, <1>2, <1>3

\* Every step keeps the types of the targets.
LEMMA TargetTypeStep ==
  ASSUME PlanOK, TargetType, ControlType, [Next]_vars
  PROVE  TargetType'
<1>0. Ops' = Ops
  BY PlanStays, PlanFixed
<1>1. ASSUME UNCHANGED target PROVE TargetType'
  BY <1>0, <1>1 DEF target, TargetType
<1>2. ASSUME NEW S, SyncTargets(S) PROVE TargetType'
  BY <1>0, <1>2, SyncFacts
<1>3. ASSUME NEW o \in Ops, NEW f \in Listing, Put(o, f) \/ PutSynced(o, f) PROVE TargetType'
  BY <1>0, <1>3, PutFacts, PutSyncedFacts
<1>4. ASSUME NEW o \in Ops, NEW f \in Listing, NEW A, Settle(o, f, A) PROVE TargetType'
  BY <1>3, <1>4 DEF Settle
<1>5. ASSUME NEW o \in Ops, NEW x \in Names, NEW y \in Names, x # y
      PROVE  Move(fs[o], x, y) \in Listing
  BY <1>5, MoveFacts DEF TargetType
<1>6. ASSUME NEW o \in Ops, NEW x \in Names, NEW v \in Objects
      PROVE  Unlink(fs[o], x) \in Listing /\ [fs[o] EXCEPT ![x] = v] \in Listing
  BY UnlinkFacts, SetFacts DEF TargetType
<1>7. "leaf" \in Names /\ "new" \in Names /\ "bak" \in Names /\ "delc" \in Names /\ "delb" \in Names
      /\ "next" \in Objects /\ "none" \in Objects /\ "foreign" \in Objects
  BY DEF Names, Objects
<1>11. CASE Begin \/ Recover \/ Kill \/ IoError \/ FinishDone \/ RollbackDone \/ RecoverRolledBack
            \/ CleanCatalog \/ RemoveJournal \/ StageCatalog \/ ExchangeCatalog \/ UnstageCatalog
                  \/ StageFiles
  BY <1>1, <1>11 DEF Begin, Recover, Kill, IoError, FinishDone, RollbackDone, RecoverRolledBack,
     CleanCatalog,
     RemoveJournal, StageCatalog, ExchangeCatalog, UnstageCatalog, SaveCatalog, StageFiles
<1>12. CASE PinSources \/ VerifyApplied
  BY <1>2, <1>12 DEF PinSources, VerifyApplied
<1>13. CASE IdentifyBackups
  <2>1. ASSUME NEW o \in Ops, RestoreRaced(o),
               disk' = [q \in Ops |-> IF q \in Backed THEN {fs'[q]} ELSE disk[q]], o \in Backed
        PROVE  TargetType'
    <3>1. \A q \in Ops : fs'[q] \in Listing
      BY <2>1, <1>5, <1>7 DEF RestoreRaced, TargetType
    <3>2. fs' \in [Ops -> Listing] /\ \A q \in Ops : q # o => fs'[q] = fs[q]
      BY <2>1, <3>1 DEF RestoreRaced, TargetType
    <3> QED BY <1>0, <2>1, <3>1, <3>2 DEF TargetType
  <2> QED BY <2>1, <1>1, <1>2, <1>13, WrongFirst, OpSets DEF IdentifyBackups
<1>14. ASSUME NEW o \in Ops,
              AssertAbsent(o) \/ SerialIntent(o) \/ CheckSource(o) \/ FinishRefuses(o)
                 \/ UndoSkip(o)
              \/ UndoRefuses(o) \/ CheckCreated(o)
       PROVE  TargetType'
  BY <1>1, <1>14 DEF AssertAbsent, SerialIntent, CheckSource, FinishRefuses, UndoSkip, UndoRefuses,
     CheckCreated
<1>15. ASSUME NEW o \in Ops, SerialRecord(o) \/ FinishNext(o) \/ UndoDone(o) PROVE TargetType'
  BY <1>2, <1>15 DEF SerialRecord, FinishNext, UndoDone
<1>16. ASSUME NEW o \in Ops, SerialStage(o) \/ MoveAside(o) \/ Place(o) \/ Placed(o) \/ Unplace(o)
                \/ Link(o)
       PROVE  TargetType'
  BY <1>1, <1>2, <1>3, <1>5, <1>6, <1>7, <1>16 DEF SerialStage, MoveAside, Place, Placed, Unplace,
     Link
<1>17. ASSUME NEW o \in Ops, QuarantineBackup(o) \/ DeleteBackup(o) \/ QuarantineNew(o)
                \/ QuarantineLeaf(o)
                             \/ RestoreBackup(o)
       PROVE  TargetType'
  BY <1>1, <1>4, <1>5, <1>6, <1>7, <1>17 DEF QuarantineBackup, DeleteBackup, QuarantineNew,
     QuarantineLeaf,
     RestoreBackup
<1>18. ASSUME NEW o \in Ops, DeleteCreated(o) PROVE TargetType'
  BY <1>1, <1>3, <1>4, <1>5, <1>6, <1>7, <1>18 DEF DeleteCreated
<1>19. ASSUME NEW o \in Ops, SerialIdentify(o) PROVE TargetType'
  <2>1. ASSUME RestoreRaced(o), disk' = [disk EXCEPT ![o] = {fs'[o]}] PROVE TargetType'
    <3>1. \A q \in Ops : fs'[q] \in Listing
      BY <2>1, <1>5, <1>7 DEF RestoreRaced, TargetType
    <3>2. fs' \in [Ops -> Listing] /\ \A q \in Ops : q # o => fs'[q] = fs[q]
      BY <2>1, <3>1 DEF RestoreRaced, TargetType
    <3> QED BY <1>0, <2>1, <3>1, <3>2 DEF TargetType
  <2> QED BY <2>1, <1>2, <1>19 DEF SerialIdentify
<1>20. ASSUME NEW o \in Ops, Edit(o) PROVE TargetType'
  BY <1>3, <1>6, <1>7, <1>20 DEF Edit
<1>21. CASE PowerLoss
  <2>1. NoNames \in Listing
    BY <1>7 DEF NoNames, Listing
  <2>2. PICK f \in [Ops -> UNION {disk[o] : o \in Ops}] :
           /\ \A o \in Ops : f[o] \in disk[o]
           /\ fs' = [o \in Ops |-> IF Drowned(f, o) THEN NoNames ELSE f[o]]
           /\ disk' = [o \in Ops |-> {fs'[o]}]
    BY <1>21 DEF PowerLoss
  <2>3. \A o \in Ops : fs'[o] \in Listing
    BY <2>1, <2>2 DEF TargetType
  <2> QED BY <1>0, <2>2, <2>3 DEF TargetType
<1>22. CASE UNCHANGED vars
  BY <1>1, <1>22 DEF vars, target
<1> QED
  BY <1>11, <1>12, <1>13, <1>14, <1>15, <1>16, <1>17, <1>18, <1>19, <1>20, <1>21, <1>22
     DEF Next, Work, Environment, SerialStep, FinishStep, UndoStep

-----------------------------------------------------------------------------
\* What a process has done to the journal.
Controlled ==
  /\ pc \notin {"down", "dark"} => jrn # NoJournal /\ mem # NoMem
  /\ pc = "dark" => cuts > 0
  /\ pc \in Steps => mem = jrn /\ jdur = {jrn}
  /\ pc \in {"back", "forward", "clean"} => mem = jrn
  /\ pc = "rollback" => \A j \in jdur : j # NoJournal /\ \A o \in Ops :
       (j[o].created => mem[o].created) /\ (j[o].backup # "none" => mem[o].backup # "none")
  /\ cuts > 0 /\ pc # "dark" /\ NoJournal \in jdur => jrn = NoJournal

\* Every step keeps the types of the process and of the faults.
LEMMA ControlTypeStep ==
  ASSUME PlanOK, TargetType, ControlType, [Next]_vars
  PROVE  ControlType'
<1>0. N' = N /\ Ops' = Ops
  BY PlanStays, PlanFixed
<1>n. N \in Nat /\ N > 0 /\ \A o \in Ops : o \in 0 .. N /\ o \in 0 .. N + 1 /\ o - 1 \in 0 .. N + 1
  BY PlanFacts
<1>n2. 0 \in 0 .. N /\ 0 \in 0 .. N + 1 /\ N \in 0 .. N + 1 /\ N + 1 \in 0 .. N + 1
  BY <1>n
<1>a. "down" \in Pcs /\ "dark" \in Pcs /\ "" \in Points /\ "rollback" \in Pcs
  BY DEF Pcs, Points
<1>d. \A k \in Nat : k > 0 => k - 1 \in Nat
  OBVIOUS
<1>1. ASSUME NEW p \in Pcs, NEW i \in 0 .. N + 1, NEW x \in Points, Goto(p, i, x) PROVE ControlType'
  BY <1>0, <1>1 DEF Goto, ControlType, budget
<1>2. Exit => ControlType'
  BY <1>0, <1>a, <1>n2 DEF Exit, Gone, ControlType, budget
<1>3. Killed => ControlType'
  BY <1>0, <1>a, <1>d, <1>n2 DEF Killed, Gone, ControlType
<1>4. Die => ControlType'
  BY <1>0, <1>3, <1>a, <1>n2 DEF Die, Gone, ControlType, budget
<1>5. ASSUME NEW c \in {"error", "keep"}, NEW r \in SUBSET Ops, Rollback(c, r), UNCHANGED budget
      PROVE  ControlType'
  BY <1>0, <1>5, <1>a, <1>n2 DEF Rollback, ControlType, budget
<1>6. (Fails("error") \/ Fails("keep")) => ControlType'
  BY <1>5 DEF Fails, ControlType
<1>7. FailsIo => ControlType'
  BY <1>0, <1>a, <1>d, <1>n2 DEF FailsIo, Rollback, ControlType
<1>8. ASSUME NEW m, NEW p \in Pcs, NEW i \in 0 .. N + 1, NEW x \in Points, SaveJournal(m, p, i, x)
      PROVE  ControlType'
  BY <1>8, <1>1, <1>4, <1>7 DEF SaveJournal
<1>9. ASSUME NEW o \in Ops, UndoFails(o) PROVE ControlType'
  BY <1>9, <1>0, <1>2, <1>n, <1>a DEF UndoFails, ControlType, budget
<1>10. ASSUME NEW o \in Ops, NEW f, NEW p \in Pcs, NEW i \in 0 .. N + 1, NEW x \in Points,
              Settle(o, f, Goto(p, i, x) /\ UNCHANGED mem) PROVE ControlType'
  BY <1>10, <1>1, <1>4 DEF Settle
<1>11. ASSUME NEW o \in Ops, RestoreRaced(o), UNCHANGED budget PROVE ControlType'
  BY <1>11, <1>5 DEF RestoreRaced, ControlType
<1>p. pc \in Pcs /\ {"serial", "link", "move", "place", "publish", "exchange", "unstage", "finish",
         "back",
         "forward", "clean", "unjournal"} \subseteq Pcs
      /\ {"staged", "recorded", "check", "rename", "moved", "place", "placed", "unplace",
           "delete", "new", "leaf", "created"} \subseteq Points
  BY DEF ControlType, Pcs, Points, Steps, Mutating
<1>21. ASSUME NEW o \in Ops, SerialStep(o) PROVE ControlType'
  BY <1>21, <1>1, <1>6, <1>8, <1>11, <1>n, <1>n2, <1>a, <1>p, AfterTypes
     DEF SerialStep, AssertAbsent, SerialStage,
     SerialRecord, SerialIntent, CheckSource, MoveAside, SerialIdentify, Place, Placed, Unplace,
     Link
<1>22. ASSUME NEW o \in Ops, FinishStep(o) PROVE ControlType'
  BY <1>22, <1>1, <1>2, <1>10, <1>n, <1>n2, <1>a, <1>p, AfterTypes DEF FinishStep, FinishRefuses,
     QuarantineBackup, DeleteBackup, FinishNext
<1>23. ASSUME NEW o \in Ops, UndoStep(o) PROVE ControlType'
  BY <1>23, <1>1, <1>9, <1>10, <1>n, <1>n2, <1>a, <1>p DEF UndoStep, UndoSkip, UndoRefuses,
     UndoDone,
     QuarantineNew, CheckCreated, QuarantineLeaf, DeleteCreated, RestoreBackup
<1>24. CASE StageFiles \/ PinSources \/ VerifyApplied
  BY <1>24, <1>1, <1>6, <1>8, <1>n2, <1>a, <1>p, AfterTypes
     DEF StageFiles, PinSources, VerifyApplied
<1>25. CASE IdentifyBackups
  BY <1>25, <1>1, <1>8, <1>11, <1>n2, <1>a, <1>p, AfterTypes, WrongFirst DEF IdentifyBackups
<1>26. CASE StageCatalog \/ ExchangeCatalog \/ CleanCatalog
  BY <1>26, <1>1, <1>4, <1>n2, <1>a, <1>p DEF StageCatalog, ExchangeCatalog, SaveCatalog,
     CleanCatalog
<1>26b. CASE UnstageCatalog
  <2>1. After(Of(Kinds \ {"assert-exact"}), 0) \in 0 .. N + 1
    BY <1>n2, AfterTypes
  <2> QED BY <1>26b, <2>1, <1>1, <1>4, <1>a, <1>p DEF UnstageCatalog, SaveCatalog
<1>27. CASE FinishDone \/ RollbackDone \/ RecoverRolledBack \/ RemoveJournal \/ Begin \/ Recover
  BY <1>27, <1>1, <1>2, <1>4, <1>n2, <1>a, <1>p, AfterTypes
     DEF FinishDone, RollbackDone, RecoverRolledBack, RemoveJournal, Begin, Recover
<1>28. CASE Kill \/ IoError
  BY <1>28, <1>3, <1>7 DEF Kill, IoError
<1>29. CASE PowerLoss
  BY <1>29, <1>0, <1>a, <1>d, <1>n2 DEF PowerLoss, Gone, ControlType
<1>30. ASSUME NEW o \in Ops, Edit(o) PROVE ControlType'
  BY <1>30, <1>0, <1>d DEF Edit, local, ControlType, Below
<1>31. CASE UNCHANGED vars
  BY <1>31, <1>0 DEF vars, ControlType
<1> QED BY <1>21, <1>22, <1>23, <1>24, <1>25, <1>26, <1>26b, <1>27, <1>28, <1>29, <1>30, <1>31
     DEF Next, Work, Environment

-----------------------------------------------------------------------------
\* The journal n has every record that m has.
Grows(m, n) ==
  \A o \in Ops : (m[o].created => n[o].created) /\ (m[o].backup # "none" => n[o].backup # "none")

\* The process is gone, and why.
Dead ==
  /\ mem' = NoMem /\ idx' = 0 /\ at' = "" /\ raced' = {} /\ err' = ""
  /\ (pc' = "down" /\ kills > 0) \/ (pc' = "dark" /\ cuts > 0)
  /\ UNCHANGED <<cuts, edits, took>> /\ kills' \in {kills, kills - 1}

\* The outcomes of replace_journal.
Saved(m, p, i, x) ==
  /\ jrn' \in {jrn, m} /\ jdur' \subseteq {jrn, m} /\ jrn' \in jdur'
  /\ \/ /\ pc' = p /\ jrn' = m /\ jdur' = {m} /\ mem' = m /\ idx' = i /\ at' = x
        /\ UNCHANGED <<raced, err, budget>>
     \/ /\ pc' = "rollback" /\ mem' = m /\ idx' = N /\ at' = "" /\ err' = "error" /\ raced' = raced
        /\ UNCHANGED <<kills, cuts, edits, took>>
     \/ Dead

\* A process that stops between a call and its fsync was killed, or power was lost.
LEMMA DieFacts == Die => Dead
BY DEF Die, Killed, Gone, Dead, budget

\* What replace_journal leaves, whichever way it ends.
LEMMA SaveFacts ==
  ASSUME jdur = {jrn}, NEW m, NEW p, NEW i, NEW x, SaveJournal(m, p, i, x)
  PROVE  Saved(m, p, i, x)
<1>1. CASE jrn' = m /\ jdur' = {m} /\ mem' = m /\ Goto(p, i, x)
  BY <1>1 DEF Saved, Goto
<1>2. CASE jrn' = m /\ jdur' = jdur \cup {m} /\ Die
  BY <1>2, DieFacts DEF Saved
<1>3. CASE FailsIo /\ mem' = m /\ (UNCHANGED journal \/ (jrn' = m /\ jdur' = jdur \cup {m}))
  BY <1>3 DEF Saved, FailsIo, Rollback, journal
<1> QED BY <1>1, <1>2, <1>3 DEF SaveJournal

\* replace_journal keeps the journal's part of the invariant.
LEMMA SaveControlled ==
  ASSUME PlanOK, StoreType, Controlled, pc \in Steps, NEW m \in Journals, Grows(mem, m),
         NEW p \in Steps, NEW i, NEW x, SaveJournal(m, p, i, x), plan' = plan, UNCHANGED catalog
  PROVE  StoreType' /\ Controlled' /\ Saved(m, p, i, x)
<1>1. Journals' = Journals /\ Ops' = Ops
  BY PlanFixed
<1>2. mem = jrn /\ jdur = {jrn} /\ mem # NoMem
  BY DEF Controlled, Steps, Mutating
<1>3. mem \in Journals /\ NoJournal \notin Journals
  BY <1>2, PlanFacts DEF StoreType
<1>s. Saved(m, p, i, x)
  BY <1>2, SaveFacts
<1>4. StoreType'
  BY <1>1, <1>2, <1>3, <1>s DEF StoreType, catalog, Saved, Dead
<1> SUFFICES Controlled'
  BY <1>4, <1>s
<1>5. p \notin {"dark", "down", "rollback", "back", "forward", "clean"}
  BY DEF Steps, Mutating
<1>6. cuts' = cuts /\ jdur' \subseteq Journals /\ jrn' \in Journals /\ NoJournal \notin jdur'
  BY <1>2, <1>3, <1>s DEF Saved, Dead, budget
<1>7. CASE pc' = p /\ jrn' = m /\ jdur' = {m} /\ mem' = m
  BY <1>3, <1>5, <1>6, <1>7 DEF Controlled, NoMem
<1>8. CASE pc' = "rollback" /\ mem' = m
  <2>1. \A j \in jdur' : Grows(j, m)
    BY <1>2, <1>s DEF Grows, Saved
  <2> QED BY <1>1, <1>3, <1>6, <1>8, <2>1 DEF Controlled, Grows, Steps, Mutating, NoMem
<1>9. CASE pc' = "down" \/ (pc' = "dark" /\ cuts > 0)
  BY <1>6, <1>9 DEF Controlled, Steps, Mutating
<1> QED BY <1>s, <1>7, <1>8, <1>9 DEF Saved, Dead

-----------------------------------------------------------------------------
\* Deaths of the process and edits do not come with losses of power.
Apart == cuts = 0 \/ (kills = 0 /\ edits = 0)

\* While power may be lost, nobody kills the process or edits a target.
LEMMA ApartFacts ==
  ASSUME ControlType, Apart
  PROVE  cuts > 0 => ~(kills > 0) /\ ~(edits > 0) /\ cuts # 0
<1>1. kills \in Nat /\ cuts \in Nat /\ edits \in Nat
  BY DEF ControlType
<1> QED BY <1>1 DEF Apart

\* Every step keeps the journal's part: the process never loses the journal that
\* it works under.
LEMMA ControlledStep ==
  ASSUME PlanOK, StoreType, ControlType, Apart, Controlled, [Next]_vars
  PROVE  StoreType' /\ Controlled'
<1> DEFINE Goal2 == StoreType' /\ Controlled'
<1>0. plan' = plan /\ Journals' = Journals /\ Ops' = Ops /\ NoJournal \notin Journals
         /\ NoMem = NoJournal
  BY PlanStays, PlanFixed, PlanFacts DEF NoMem
<1>m. pc \notin {"down", "dark"} => mem \in Journals
  BY <1>0 DEF StoreType, Controlled
<1>p. Steps \cap {"down", "dark", "rollback", "back", "forward", "clean", "unjournal"} = {}
  BY DEF Steps, Mutating
<1>1. ASSUME NEW p \in Pcs, NEW i, NEW x, Goto(p, i, x), UNCHANGED <<journal, catalog, mem>>,
             pc \notin {"down", "dark"}, p \notin {"down", "dark"},
             p = pc \/ (pc \in Steps /\ p \in Steps) \/ p = "unjournal"
             \/ (p = "clean" /\ pc \in {"back", "forward"})
      PROVE  Goal2
  <2>1. StoreType'
    BY <1>0, <1>1 DEF StoreType, journal, catalog
  <2>2. pc' = p /\ cuts' = cuts /\ mem' = mem /\ jrn' = jrn /\ jdur' = jdur
    BY <1>1 DEF Goto, budget, journal
  <2>3. Controlled'
    BY <1>0, <1>1, <1>p, <2>2 DEF Controlled
  <2> QED BY <2>1, <2>3
<1>2. ASSUME NEW c, NEW r, Rollback(c, r), mem' \in Journals, Grows(mem, mem'), pc \in Steps,
             cuts' = cuts,
             UNCHANGED <<journal, catalog>>
      PROVE  Goal2
  <2>1. StoreType'
    BY <1>0, <1>2 DEF StoreType, journal, catalog
  <2>2. pc' = "rollback" /\ jrn' = jrn /\ jdur' = jdur /\ mem = jrn /\ jdur = {jrn}
           /\ jrn # NoJournal
    BY <1>2, <1>p DEF Rollback, journal, Controlled
  <2>3. Controlled'
    BY <1>0, <1>2, <1>p, <2>2 DEF Controlled, Grows
  <2> QED BY <2>1, <2>3
<1>3. ASSUME Dead \/ Exit, UNCHANGED <<journal, catalog>>, pc \notin {"down", "dark"} PROVE Goal2
  <2>1. pc' = "down" \/ (pc' = "dark" /\ cuts > 0)
    BY <1>3 DEF Dead, Exit, Gone
  <2>2. cuts' = cuts /\ mem' = NoMem
    BY <1>3 DEF Dead, Exit, Gone, budget
  <2>3. StoreType'
    BY <1>0, <1>3, <2>2 DEF StoreType, journal, catalog
  <2>4. Controlled'
    BY <1>3, <1>p, <2>1, <2>2 DEF Controlled, journal
  <2> QED BY <2>3, <2>4
<1>4. ASSUME Fails("error") \/ Fails("keep") \/ FailsIo, UNCHANGED <<mem, journal, catalog>>,
             pc \in Steps
      PROVE  Goal2
  <2>1. mem' \in Journals /\ Grows(mem, mem')
    BY <1>4, <1>m, <1>p DEF Grows
  <2> QED BY <1>2, <1>4, <2>1 DEF Fails, FailsIo, budget
<1>5. ASSUME NEW S, NEW b \in {"intent", "identified"}, pc \in Steps
      PROVE  /\ Created(mem, S) \in Journals /\ Grows(mem, Created(mem, S))
             /\ Backup(mem, S, b) \in Journals /\ Grows(mem, Backup(mem, S, b))
  <2>1. mem \in Journals
    BY <1>5, <1>m, <1>p
  <2>2. \A o \in Ops : mem[o].created \in BOOLEAN
    BY <2>1 DEF Journals, Record
  <2>3. /\ Created(mem, S) \in Journals /\ Backup(mem, S, b) \in Journals
        /\ \A o \in Ops : /\ Created(mem, S)[o].created <=> (mem[o].created \/ o \in S)
                          /\ Created(mem, S)[o].backup = mem[o].backup
                          /\ Backup(mem, S, b)[o].created <=> mem[o].created
                          /\ Backup(mem, S, b)[o].backup = IF o \in S THEN b ELSE mem[o].backup
    BY <2>1, JournalFacts
  <2> QED BY <2>3 DEF Grows
<1>6. {"serial", "link", "move", "place", "publish", "exchange", "unstage",
         "finish"} \subseteq Steps
      /\ Steps \subseteq Pcs /\ {"rollback", "back", "forward", "clean", "unjournal"} \subseteq Pcs
      /\ pc \in Pcs
  BY DEF Steps, Mutating, Pcs, ControlType
<1>7. ASSUME NEW o \in Ops, UndoFails(o), UNCHANGED <<journal, catalog>>,
             pc \in {"rollback", "back"}
      PROVE  Goal2
  <2>1. CASE pc = "rollback" /\ UNCHANGED <<pc, mem, raced, budget>>
    BY <1>0, <1>7, <2>1, <1>p DEF StoreType, Controlled, journal, catalog, budget
  <2> QED BY <1>3, <1>7, <2>1 DEF UndoFails
<1>8. ASSUME NEW o \in Ops, NEW f, NEW p \in Pcs, NEW i, NEW x,
             Settle(o, f, Goto(p, i, x) /\ UNCHANGED mem), UNCHANGED <<journal, catalog>>,
             pc \notin {"down", "dark"}, p = pc
      PROVE Goal2
  BY <1>1, <1>3, <1>8, DieFacts DEF Settle
<1> SUFFICES Goal2
  OBVIOUS
<1> HIDE DEF Goal2
<1>11. ASSUME NEW o \in Ops, AssertAbsent(o) \/ SerialStage(o) \/ CheckSource(o) \/ MoveAside(o)
                \/ Place(o)
                             \/ Placed(o) \/ Unplace(o) \/ Link(o)
       PROVE  Goal2
  BY <1>11, <1>1, <1>4, <1>6, <1>p DEF AssertAbsent, SerialStage, CheckSource, MoveAside, Place,
     Placed, Unplace, Link
<1>12. ASSUME NEW o \in Ops, SerialRecord(o) PROVE Goal2
  BY <1>12, <1>5, <1>6, <1>0, SaveControlled DEF SerialRecord, Goal2
<1>13. ASSUME NEW o \in Ops, SerialIntent(o) PROVE Goal2
  <2>1. CASE SaveJournal(Backup(mem, {o}, "intent"), "serial", o, "check")
    BY <1>13, <2>1, <1>5, <1>6, <1>0, SaveControlled DEF SerialIntent, Goal2
  <2> QED BY <1>13, <2>1, <1>1, <1>4, <1>6, <1>p DEF SerialIntent
<1>14. ASSUME NEW o \in Ops, SerialIdentify(o) PROVE Goal2
  <2>1. CASE SaveJournal(Backup(mem, {o}, "identified"), "serial", o, "place")
    BY <1>14, <2>1, <1>5, <1>6, <1>0, SaveControlled DEF SerialIdentify, Goal2
  <2>2. CASE RestoreRaced(o) /\ UNCHANGED <<journal, mem, budget>>
    <3>1. mem' \in Journals /\ Grows(mem, mem')
      BY <1>14, <2>2, <1>m DEF SerialIdentify, Grows
    <3> QED BY <1>14, <2>2, <3>1, <1>2, <1>6 DEF SerialIdentify, RestoreRaced, budget
  <2> QED BY <1>14, <2>1, <2>2 DEF SerialIdentify
<1>15. CASE StageFiles
  <2>1. CASE SaveJournal(Created(mem, Files), "link", After(Files, 0), "")
    BY <1>15, <2>1, <1>5, <1>6, <1>0, SaveControlled DEF StageFiles, Goal2
  <2> QED BY <1>15, <2>1, <1>1, <1>4, <1>6, <1>p DEF StageFiles
<1>16. CASE PinSources
  <2>1. CASE SaveJournal(Backup(mem, Backed, "intent"), "move", After(Backed, 0), "check")
    BY <1>16, <2>1, <1>5, <1>6, <1>0, SaveControlled DEF PinSources, Goal2
  <2>2. ASSUME NEW S, mem' = Backup(mem, S, "intent"), Fails("error"), UNCHANGED journal PROVE Goal2
    BY <1>16, <2>2, <1>2, <1>5, <1>6 DEF PinSources, Fails, budget
  <2> QED BY <1>16, <2>1, <2>2, <1>1, <1>6, <1>p DEF PinSources
<1>17. CASE IdentifyBackups
  <2>1. CASE SaveJournal(Backup(mem, Backed, "identified"), "place", After(Files, 0), "place")
    BY <1>17, <2>1, <1>5, <1>6, <1>0, SaveControlled DEF IdentifyBackups, Goal2
  <2>2. ASSUME NEW S, NEW o, mem' = Backup(mem, S, "identified"), RestoreRaced(o),
               UNCHANGED <<journal, budget>>
        PROVE  Goal2
    BY <1>17, <2>2, <1>2, <1>5, <1>6 DEF IdentifyBackups, RestoreRaced, budget
  <2> QED BY <1>17, <2>1, <2>2, <1>1, <1>6, <1>p DEF IdentifyBackups
<1>18. CASE VerifyApplied
  BY <1>18, <1>1, <1>4, <1>6, <1>p DEF VerifyApplied
<1>19. ASSUME NEW c \in Catalogs, NEW p \in Steps, NEW i, SaveCatalog(c, p, i), pc \in Steps
       PROVE  Goal2
  <2>1. jrn' = jrn /\ jdur' = jdur /\ cat' = c /\ cat' \in cdur' /\ cdur' \subseteq cdur \cup {c}
    BY <1>19 DEF SaveCatalog, journal
  <2>2. CASE Goto(p, i, "") /\ mem' = mem
    <3>1. pc' = p /\ cuts' = cuts
      BY <2>2 DEF Goto, budget
    <3> QED BY <1>0, <1>19, <1>p, <2>1, <2>2, <3>1 DEF StoreType, Controlled, Goal2
  <2>3. CASE Dead
    <3>1. (pc' = "down" \/ (pc' = "dark" /\ cuts > 0)) /\ cuts' = cuts /\ mem' = NoMem
      BY <2>3 DEF Dead
    <3> QED BY <1>0, <1>19, <1>p, <2>1, <3>1 DEF StoreType, Controlled, Goal2
  <2> QED BY <1>19, <2>2, <2>3, DieFacts DEF SaveCatalog
<1>20. CASE StageCatalog \/ ExchangeCatalog \/ UnstageCatalog
  <2>1. {CatAt("prev", "next"), CatAt("next", "prev"), CatAt("next", "none")} \subseteq Catalogs
    BY DEF CatAt, Catalogs
  <2> QED BY <1>20, <1>19, <1>6, <2>1 DEF StageCatalog, ExchangeCatalog, UnstageCatalog
<1>21. CASE RemoveJournal
  <2>1. jrn' = NoJournal /\ NoJournal \in jdur' /\ jdur' \subseteq jdur \cup {NoJournal}
           /\ UNCHANGED catalog
    BY <1>21 DEF RemoveJournal
  <2>2. (pc' = "down" \/ (pc' = "dark" /\ cuts > 0)) /\ cuts' = cuts /\ mem' = NoMem
    BY <1>21, DieFacts DEF RemoveJournal, Exit, Gone, budget, Dead
  <2>3. StoreType'
    BY <1>0, <2>1, <2>2 DEF StoreType, catalog
  <2>4. Controlled'
    BY <2>1, <2>2, <1>p DEF Controlled
  <2> QED BY <2>3, <2>4 DEF Goal2
<1>22. ASSUME NEW o \in Ops, FinishStep(o) PROVE Goal2
  BY <1>22, <1>1, <1>3, <1>6, <1>8 DEF FinishStep, FinishRefuses, QuarantineBackup, DeleteBackup,
     FinishNext
<1>23. ASSUME NEW o \in Ops, UndoStep(o) PROVE Goal2
  BY <1>23, <1>1, <1>6, <1>7, <1>8 DEF UndoStep, UndoSkip, UndoRefuses, UndoDone, Undoing,
     QuarantineNew, CheckCreated, QuarantineLeaf, DeleteCreated, RestoreBackup
<1>24. CASE FinishDone \/ RollbackDone \/ RecoverRolledBack
  BY <1>24, <1>1, <1>3, <1>6 DEF FinishDone, RollbackDone, RecoverRolledBack
<1>25. CASE CleanCatalog
  <2>1. CASE UNCHANGED <<catalog, mem>> /\ Goto("unjournal", 0, "")
    BY <1>25, <2>1, <1>1, <1>6 DEF CleanCatalog
  <2>2. ASSUME cat' = CatAt(cat.cur, "none"), cdur' \in {{cat'}, cdur \cup {cat'}},
               (Goto("unjournal", 0, "") /\ UNCHANGED mem) \/ Die
        PROVE  Goal2
    <3>1. cat' \in Catalogs /\ cat' \in cdur' /\ cdur' \subseteq cdur \cup {cat'}
      BY <2>2 DEF CatAt, Catalogs, StoreType
    <3>2. jrn' = jrn /\ jdur' = jdur
      BY <1>25 DEF CleanCatalog, journal
    <3>3. mem' \in {mem, NoMem} /\ cuts' = cuts
          /\ ((pc' = "unjournal" /\ mem' = mem) \/ pc' = "down" \/ (pc' = "dark" /\ cuts > 0))
      BY <2>2, DieFacts DEF Goto, budget, Dead
    <3>4. StoreType'
      BY <1>0, <3>1, <3>2, <3>3 DEF StoreType
    <3>5. Controlled'
      BY <1>0, <1>p, <1>25, <3>2, <3>3 DEF Controlled, CleanCatalog
    <3> QED BY <3>4, <3>5 DEF Goal2
  <2> QED BY <1>25, <2>1, <2>2 DEF CleanCatalog
<1>26. CASE Begin
  <2> DEFINE m == [o \in Ops |-> Blank]
  <2>1. m \in Journals
    BY BlankFacts
  <2> HIDE DEF m
  <2>2. jrn' = m /\ UNCHANGED catalog
    BY <1>26 DEF Begin, m
  <2>3. \/ jdur' = {m} /\ mem' = m /\ pc' = "serial" /\ cuts' = cuts
        \/ /\ jdur' = jdur \cup {m} /\ mem' = NoMem /\ cuts' = cuts
           /\ (pc' = "down" /\ kills > 0) \/ (pc' = "dark" /\ cuts > 0)
    BY <1>26, DieFacts DEF Begin, Goto, budget, Dead, m
  <2>4. StoreType'
    BY <1>0, <2>1, <2>2, <2>3 DEF StoreType, catalog
  <2>5. cuts > 0 => ~(kills > 0)
    BY ApartFacts
  <2>6. m # NoJournal /\ "serial" \in Steps
    BY <1>0, <1>6, <2>1
  <2>7. CASE jdur' = {m} /\ mem' = m /\ pc' = "serial" /\ cuts' = cuts
    <3>1. Controlled'
      BY <1>0, <2>2, <2>6, <2>7 DEF Controlled
    <3> QED BY <2>4, <3>1 DEF Goal2
  <2>8. CASE mem' = NoMem /\ cuts' = cuts
                /\ ((pc' = "down" /\ kills > 0) \/ (pc' = "dark" /\ cuts > 0))
    <3>1. Controlled'
      BY <1>p, <2>5, <2>8 DEF Controlled
    <3> QED BY <2>4, <3>1 DEF Goal2
  <2> QED BY <2>3, <2>7, <2>8
<1>27. CASE Recover
  <2>1. UNCHANGED <<journal, catalog>> /\ mem' = jrn /\ jrn # NoJournal
           /\ pc' \in {"back", "forward"}
        /\ cuts' = cuts /\ pc = "down"
    BY <1>27 DEF Recover, Goto, budget
  <2> QED BY <1>0, <1>p, <2>1 DEF StoreType, Controlled, journal, catalog, Goal2
<1>28. CASE Kill
  <2>1. Dead
    BY <1>28 DEF Kill, Killed, Gone, Dead
  <2> QED BY <1>28, <2>1, <1>3 DEF Kill
<1>29. CASE IoError
  BY <1>29, <1>4, <1>6 DEF IoError
<1>30. CASE PowerLoss
  <2>1. /\ jrn' \in jdur /\ jdur' = {jrn'} /\ cat' \in cdur /\ cdur' = {cat'}
        /\ pc' = "down" /\ mem' = NoMem
    BY <1>30 DEF PowerLoss, Gone
  <2> QED BY <1>0, <1>p, <2>1 DEF StoreType, Controlled, Goal2
<1>31. ASSUME NEW o \in Ops, Edit(o) PROVE Goal2
  <2>1. UNCHANGED <<jrn, jdur, cat, cdur, mem, pc, cuts>>
    BY <1>31 DEF Edit, journal, catalog, local
  <2> QED BY <1>0, <2>1 DEF StoreType, Controlled, Goal2
<1>32. CASE UNCHANGED vars
  BY <1>0, <1>32 DEF vars, StoreType, Controlled, Goal2
<1> QED
  BY <1>11, <1>12, <1>13, <1>14, <1>15, <1>16, <1>17, <1>18, <1>20, <1>21, <1>22, <1>23, <1>24,
     <1>25, <1>26,
     <1>27, <1>28, <1>29, <1>30, <1>31, <1>32 DEF Next, Work, Environment, SerialStep, Goal2
\* What a step spends of the faults.
Spent ==
  /\ kills' = kills \/ (kills > 0 /\ kills' = kills - 1)
  /\ edits' = edits \/ (edits > 0 /\ edits' = edits - 1)
  /\ ioErrs' = ioErrs \/ (ioErrs > 0 /\ ioErrs' = ioErrs - 1)
  /\ cuts' = cuts \/ (PowerLoss /\ cuts > 0 /\ cuts' = cuts - 1)
  /\ took' = took \/ \E o \in Ops : Edit(o)

\* Every step spends at most one fault of each kind.
LEMMA Spending ==
  ASSUME [Next]_vars
  PROVE  Spent
<1>2. (\E p, i, x : Goto(p, i, x)) \/ Exit \/ Die \/ Killed \/ FailsIo \/ (\E c : Fails(c))
         \/ UNCHANGED budget => Spent
  BY DEF Spent, Goto, Exit, Die, Killed, FailsIo, Fails, budget
<1>3. (\E m, p, i, x : SaveJournal(m, p, i, x)) => Spent
  BY <1>2 DEF SaveJournal
<1>4. (\E o : UndoFails(o)) => Spent
  BY <1>2 DEF UndoFails
<1>5. (\E o, f, p, i, x : Settle(o, f, Goto(p, i, x) /\ UNCHANGED mem)) => Spent
  BY <1>2 DEF Settle
<1>6. PowerLoss \/ (\E o \in Ops : Edit(o)) \/ UNCHANGED vars => Spent
  BY DEF Spent, PowerLoss, Edit, vars
<1>7. ASSUME NEW o \in Ops, SerialStep(o) PROVE Spent
  BY <1>7, <1>2, <1>3 DEF SerialStep, AssertAbsent, SerialStage, SerialRecord, SerialIntent,
     CheckSource, MoveAside,
     SerialIdentify, Place, Placed, Unplace, Link
<1>8. ASSUME NEW o \in Ops, FinishStep(o) \/ UndoStep(o) PROVE Spent
  BY <1>8, <1>2, <1>4, <1>5 DEF FinishStep, UndoStep, FinishRefuses, QuarantineBackup,
     DeleteBackup, FinishNext,
     UndoSkip, UndoRefuses, UndoDone, QuarantineNew, CheckCreated, QuarantineLeaf, DeleteCreated,
     RestoreBackup
<1>9. StageFiles \/ PinSources \/ IdentifyBackups \/ VerifyApplied => Spent
  BY <1>2, <1>3 DEF StageFiles, PinSources, IdentifyBackups, VerifyApplied
<1>10. StageCatalog \/ ExchangeCatalog \/ UnstageCatalog \/ FinishDone \/ RollbackDone
          \/ RecoverRolledBack
       \/ CleanCatalog \/ RemoveJournal \/ Begin \/ Recover \/ Kill \/ IoError => Spent
  BY <1>2 DEF StageCatalog, ExchangeCatalog, UnstageCatalog, SaveCatalog, FinishDone, RollbackDone,
     RecoverRolledBack, CleanCatalog, RemoveJournal, Begin, Recover, Kill, IoError
<1> QED BY <1>6, <1>7, <1>8, <1>9, <1>10 DEF Next, Work, Environment

\* The faults stay apart.
LEMMA ApartStep ==
  ASSUME ControlType, Apart, [Next]_vars
  PROVE  Apart'
<1>1. kills \in Nat /\ cuts \in Nat /\ edits \in Nat
  BY DEF ControlType
<1> QED BY <1>1, Spending DEF Apart, Spent

\* What pin_target sees of a target below a missing directory.
LEMMA ViewFacts ==
  ASSUME NEW o
  PROVE  /\ Reached(o) => View(o) = fs[o]
         /\ ~Reached(o) => /\ View(o)["leaf"] \in {"none", "foreign"}
                           /\ \A n \in Private : View(o)[n] = "none"
BY DEF View, NoNames, Names, Private

\* When rollback_incomplete_inner quarantines, deletes and restores.
LEMMA UndoFacts ==
  ASSUME NEW o, plan[o].seen \in {"none", "prior"}
  PROVE  /\ Undo(o) = "quarantine-new" =>
              /\ plan[o].kind \in Placing /\ mem[o].created /\ Reached(o)
              /\ fs[o]["delc"] = "none" /\ fs[o]["new"] = "next"
         /\ Undo(o) = "quarantine-leaf" =>
              /\ plan[o].kind \in Placing /\ mem[o].created /\ Reached(o)
              /\ fs[o]["delc"] = "none" /\ fs[o]["new"] = "none" /\ fs[o]["leaf"] = "next"
         /\ Undo(o) = "delete" =>
              plan[o].kind \in Placing /\ mem[o].created /\ Reached(o) /\ fs[o]["delc"] = "next"
         /\ Undo(o) = "restore" =>
              /\ plan[o].seen = "prior" /\ Reached(o)
              /\ fs[o]["bak"] = "prior" /\ fs[o]["leaf"] = "none"
              /\ plan[o].kind \in Placing => fs[o]["delc"] = "none" /\ fs[o]["new"] = "none"
<1>1. {"leaf"} \cup Private = Names /\ {"new", "bak", "delc", "delb"} = Private
  BY DEF Names, Private
<1>2. CASE Reached(o)
  <2>1. View(o) = fs[o]
    BY <1>2, ViewFacts
  <2> QED BY <1>2, <2>1 DEF Undo, UndoPlacing, UndoRemove
<1>3. CASE ~Reached(o)
  <2>1. /\ View(o)["leaf"] \in {"none", "foreign"}
        /\ View(o)["new"] = "none" /\ View(o)["bak"] = "none" /\ View(o)["delc"] = "none"
    BY <1>1, <1>3, ViewFacts
  <2>2. Undo(o) \in {"done", "fail"}
    BY <2>1 DEF Undo, UndoPlacing, UndoRemove
  <2> QED BY <2>2
<1> QED BY <1>2, <1>3

\* When it finds nothing left to undo.
LEMMA UndoDoneFacts ==
  ASSUME NEW o, plan[o].seen \in {"none", "prior"}, Undo(o) = "done"
  PROVE  /\ pc = "back" => Bound(o)
         /\ plan[o].kind \in Placing => View(o)["delc"] = "none" /\ View(o)["new"] = "none"
         /\ plan[o].kind \in Placing \cup {"remove"} =>
              /\ View(o)["bak"] = "none"
              /\ plan[o].seen = "prior" => View(o)["leaf"] = "prior"
                    \/ (o \in raced /\ View(o)["leaf"] = "foreign")
         /\ plan[o].kind \in Placing /\ plan[o].seen = "none"
               => ~(mem[o].created /\ View(o)["leaf"] = "next")
         /\ plan[o].kind = "remove" /\ plan[o].seen = "none" => View(o)["leaf"] = "none"
         /\ plan[o].kind \notin Placing \cup {"remove"} => View(o)["leaf"] = plan[o].seen
BY DEF Undo, UndoPlacing, UndoRemove, Placing, Canonical

-----------------------------------------------------------------------------
\* Where the process is in its schedule, and what the journal says by then.
SerialAt ==
  pc = "serial" =>
    /\ idx \in Serial \cup {N + 1}
    /\ at # "" => idx \in Of(Canonical) /\ at \notin {"delete", "new", "leaf", "created"}
    /\ at \notin {"", "staged"} => mem[idx].created
    /\ at \in {"check", "rename", "moved"} => mem[idx].backup # "none"
\* The phased schedule is at a file, at a replaced target, or at its end.
PhasedAt ==
  /\ pc = "link" => idx \in Files \cup {N + 1} /\ at = ""
  /\ pc = "move" => idx \in Backed \cup {N + 1} /\ at \in {"check", "rename"}
  /\ pc = "place" => idx \in Files \cup {N + 1} /\ at \in {"place", "placed", "unplace"}
  /\ pc \notin Mutating \cup {"finish", "forward", "rollback", "back"} => at = ""
\* finish_incomplete is at an operation that it has to finish.
FinishAt ==
  pc \in {"finish", "forward"} =>
    idx \in ToFinish \cup {N + 1} /\ at \in {"", "delete"} /\ (at # "" => idx \in ToFinish)
\* A rollback is at an operation; in quarantine is only what was created.
UndoAt ==
  pc \in {"rollback", "back"} =>
    idx \in 0 .. N /\ at \in {"", "created", "new", "leaf"}
       /\ (at # "" => idx \in Ops /\ mem[idx].created)
\* The phases record identities and intents for all of their targets at once.
Recorded ==
  /\ pc \in {"link", "move", "place"} => \A o \in Files : mem[o].created
  /\ pc \in {"move", "place"} => \A o \in Backed : mem[o].backup # "none"
  /\ pc = "place" => \A o \in Backed : mem[o].backup = "identified"

\* The part of the invariant that is about the schedule.
Scheduled == SerialAt /\ PhasedAt /\ FinishAt /\ UndoAt /\ Recorded

\* Every step keeps the schedule.
LEMMA ScheduledStep ==
  ASSUME PlanOK, StoreType, ControlType, Controlled, Scheduled, [Next]_vars
  PROVE  Scheduled'
<1>0. /\ plan' = plan /\ N' = N /\ Ops' = Ops /\ Serial' = Serial /\ Files' = Files
            /\ Backed' = Backed
      /\ \A K : Of(K)' = Of(K)
  BY PlanStays, PlanFixed
<1>n. N \in Nat /\ N > 0 /\ N \in 0 .. N /\ 0 \in 0 .. N /\ \A o \in Ops : o \in 0 .. N
         /\ o - 1 \in 0 .. N /\ o # N + 1
  BY PlanFacts
<1>f. pc' = pc => ToFinish' = ToFinish
  BY <1>0 DEF ToFinish
<1>1. ASSUME pc' \in {"down", "dark", "publish", "exchange", "unstage", "clean", "unjournal"},
             at' = ""
      PROVE  Scheduled'
  BY <1>1 DEF Scheduled, SerialAt, PhasedAt, FinishAt, UndoAt, Recorded, Mutating
<1>2. ASSUME pc' = "rollback", idx' = N, at' = "" PROVE Scheduled'
  BY <1>0, <1>2, <1>n DEF Scheduled, SerialAt, PhasedAt, FinishAt, UndoAt, Recorded, Mutating
<1>3. Exit \/ Die \/ Killed \/ Dead => Scheduled'
  BY <1>1 DEF Exit, Die, Killed, Gone, Dead
<1>4. (\E c : Fails(c)) \/ FailsIo \/ (\E c, r : Rollback(c, r)) => Scheduled'
  BY <1>2 DEF Fails, FailsIo, Rollback
<1>5. ASSUME NEW m, NEW p, NEW i, NEW x, SaveJournal(m, p, i, x),
             pc' = p /\ mem' = m /\ idx' = i /\ at' = x => Scheduled'
      PROVE  Scheduled'
  BY <1>3, <1>4, <1>5 DEF SaveJournal, Goto
<1>m. pc \notin {"down", "dark"} => mem \in Journals
  BY PlanFacts DEF StoreType, Controlled, NoMem
<1>7. ASSUME pc' = "serial", idx' \in Serial \cup {N + 1}, at' = "" PROVE Scheduled'
  BY <1>0, <1>7 DEF Scheduled, SerialAt, PhasedAt, FinishAt, UndoAt, Recorded, Mutating
<1>8. ASSUME pc' = "serial", idx' \in Of(Canonical), idx' \in Serial,
             at' \in {"staged", "recorded", "check", "rename", "moved", "place", "placed",
                "unplace"},
             at' # "staged" => mem'[idx'].created,
             at' \in {"check", "rename", "moved"} => mem'[idx'].backup # "none"
      PROVE  Scheduled'
  BY <1>0, <1>8 DEF Scheduled, SerialAt, PhasedAt, FinishAt, UndoAt, Recorded, Mutating
<1>9. ASSUME NEW o \in Ops, pc = "serial", idx = o, plan[o].kind \in Canonical \/ at # ""
      PROVE  o \in Of(Canonical) /\ o \in Serial
  BY <1>9 DEF Scheduled, SerialAt, Of, Serial
<1>10. ASSUME mem' = mem, pc' = pc, pc \in {"link", "move", "place"},
              pc = "link" => idx' \in Files \cup {N + 1} /\ at' = "",
              pc = "move" => idx' \in Backed \cup {N + 1} /\ at' \in {"check", "rename"},
              pc = "place" => idx' \in Files \cup {N + 1} /\ at' \in {"place", "placed", "unplace"}
       PROVE  Scheduled'
  BY <1>0, <1>10 DEF Scheduled, SerialAt, PhasedAt, FinishAt, UndoAt, Recorded, Mutating
<1>11. ASSUME pc' = pc, pc \in {"finish", "forward"}, idx' \in ToFinish \cup {N + 1},
              at' \in {"", "delete"},
              at' # "" => idx' \in ToFinish
       PROVE  Scheduled'
  BY <1>0, <1>11, <1>f DEF Scheduled, SerialAt, PhasedAt, FinishAt, UndoAt, Recorded, Mutating
<1>12. ASSUME mem' = mem, pc' = pc, pc \in {"rollback", "back"}, idx' \in 0 .. N,
              at' \in {"", "created", "new", "leaf"},
              at' # "" => idx' \in Ops /\ mem[idx'].created
       PROVE  Scheduled'
  BY <1>0, <1>12 DEF Scheduled, SerialAt, PhasedAt, FinishAt, UndoAt, Recorded, Mutating
<1>s. Scheduled
  OBVIOUS
<1>21. ASSUME NEW o \in Ops, AssertAbsent(o) PROVE Scheduled'
  BY <1>21, <1>4, <1>7, <1>n, AfterTypes DEF AssertAbsent, Goto
<1>22. ASSUME NEW o \in Ops, SerialStage(o) PROVE Scheduled'
  BY <1>22, <1>4, <1>8, <1>9 DEF SerialStage, Goto
<1>23. ASSUME NEW o \in Ops, SerialRecord(o) PROVE Scheduled'
  <2>1. o \in Of(Canonical) /\ o \in Serial /\ mem \in Journals
    BY <1>23, <1>9, <1>m DEF SerialRecord
  <2>2. Created(mem, {o})[o].created
    BY <2>1, JournalFacts
  <2> QED BY <1>23, <1>5, <1>8, <2>1, <2>2 DEF SerialRecord
<1>24. ASSUME NEW o \in Ops, SerialIntent(o) PROVE Scheduled'
  <2>1. o \in Of(Canonical) /\ o \in Serial /\ mem \in Journals /\ mem[o].created
    BY <1>24, <1>9, <1>m DEF SerialIntent, Scheduled, SerialAt
  <2>2. Backup(mem, {o}, "intent")[o].created /\ Backup(mem, {o}, "intent")[o].backup = "intent"
    BY <2>1, JournalFacts
  <2>3. CASE SaveJournal(Backup(mem, {o}, "intent"), "serial", o, "check")
    BY <2>3, <1>5, <1>8, <2>1, <2>2
  <2> QED BY <1>24, <2>1, <2>3, <1>4, <1>8 DEF SerialIntent, Goto
<1>25. ASSUME NEW o \in Ops, CheckSource(o) PROVE Scheduled'
  <2>1. CASE pc = "serial"
    <3>1. o \in Of(Canonical) /\ o \in Serial /\ mem[o].created /\ mem[o].backup # "none"
      BY <1>25, <2>1, <1>9 DEF CheckSource, Scheduled, SerialAt
    <3> QED BY <1>25, <2>1, <3>1, <1>4, <1>8 DEF CheckSource, Goto
  <2>2. CASE pc = "move"
    BY <1>25, <2>2, <1>4, <1>10, <1>s DEF CheckSource, Goto, Scheduled, PhasedAt
  <2> QED BY <1>25, <2>1, <2>2 DEF CheckSource
<1>26. ASSUME NEW o \in Ops, MoveAside(o) PROVE Scheduled'
  <2>1. CASE pc = "serial"
    <3>1. o \in Of(Canonical) /\ o \in Serial /\ mem[o].created /\ mem[o].backup # "none"
      BY <1>26, <2>1, <1>9 DEF MoveAside, Scheduled, SerialAt
    <3> QED BY <1>26, <2>1, <3>1, <1>4, <1>8 DEF MoveAside, Goto
  <2>2. CASE pc = "move"
    BY <1>26, <2>2, <1>4, <1>10, <1>n, AfterTypes DEF MoveAside, Goto
  <2> QED BY <1>26, <2>1, <2>2 DEF MoveAside
<1>27. ASSUME NEW o \in Ops, SerialIdentify(o) PROVE Scheduled'
  <2>1. o \in Of(Canonical) /\ o \in Serial /\ mem \in Journals /\ mem[o].created
    BY <1>27, <1>9, <1>m DEF SerialIdentify, Scheduled, SerialAt
  <2>2. Backup(mem, {o}, "identified")[o].created
    BY <2>1, JournalFacts
  <2>3. CASE SaveJournal(Backup(mem, {o}, "identified"), "serial", o, "place")
    BY <2>3, <1>5, <1>8, <2>1, <2>2
  <2> QED BY <1>27, <2>3, <1>4 DEF SerialIdentify, RestoreRaced
<1>28. ASSUME NEW o \in Ops, Place(o) PROVE Scheduled'
  <2>1. CASE pc = "serial"
    <3>1. o \in Of(Canonical) /\ o \in Serial /\ mem[o].created
      BY <1>28, <2>1, <1>9 DEF Place, Scheduled, SerialAt
    <3> QED BY <1>28, <2>1, <3>1, <1>4, <1>8 DEF Place, Goto
  <2>2. CASE pc = "place"
    BY <1>28, <2>2, <1>4, <1>10 DEF Place, Goto, Scheduled, PhasedAt
  <2> QED BY <1>28, <2>1, <2>2 DEF Place
<1>29. ASSUME NEW o \in Ops, Placed(o) PROVE Scheduled'
  <2>1. CASE pc = "serial"
    <3>1. o \in Of(Canonical) /\ o \in Serial /\ mem[o].created
      BY <1>29, <2>1, <1>9 DEF Placed, Scheduled, SerialAt
    <3> QED BY <1>29, <2>1, <3>1, <1>4, <1>7, <1>8, <1>n, AfterTypes DEF Placed, Goto
  <2>2. CASE pc = "place"
    <3>1. o \in Files
      BY <1>29, <2>2, <1>n DEF Placed, Scheduled, PhasedAt
    <3> QED BY <1>29, <2>2, <3>1, <1>4, <1>10, <1>n, AfterTypes DEF Placed, Goto
  <2> QED BY <1>29, <2>1, <2>2 DEF Placed
<1>30. ASSUME NEW o \in Ops, Unplace(o) PROVE Scheduled'
  BY <1>30, <1>4 DEF Unplace
<1>31. ASSUME NEW o \in Ops, Link(o) PROVE Scheduled'
  BY <1>31, <1>4, <1>10, <1>n, AfterTypes DEF Link, Goto
<1>32. CASE StageFiles
  <2>1. pc = "serial" /\ mem \in Journals
    BY <1>32, <1>m DEF StageFiles
  <2>2. ASSUME pc' = "link", idx' \in Files \cup {N + 1}, at' = "", \A o \in Files : mem'[o].created
        PROVE  Scheduled'
    BY <1>0, <2>2 DEF Scheduled, SerialAt, PhasedAt, FinishAt, UndoAt, Recorded, Mutating
  <2>3. \A o \in Files : Created(mem, Files)[o].created
    BY <2>1, JournalFacts, OpSets
  <2>4. CASE SaveJournal(Created(mem, Files), "link", After(Files, 0), "")
    BY <2>4, <1>5, <2>2, <2>3, <1>n, AfterTypes
  <2> QED BY <1>32, <2>2, <2>4, <1>4 DEF StageFiles, Goto
<1>33. CASE PinSources
  <2>1. pc = "link" /\ mem \in Journals /\ \A o \in Files : mem[o].created
    BY <1>33, <1>m DEF PinSources, Scheduled, Recorded
  <2>2. ASSUME pc' = "move", idx' \in Backed \cup {N + 1}, at' = "check",
               \A o \in Files : mem'[o].created,
                  \A o \in Backed : mem'[o].backup # "none" PROVE Scheduled'
    BY <1>0, <2>2 DEF Scheduled, SerialAt, PhasedAt, FinishAt, UndoAt, Recorded, Mutating
  <2>3. /\ \A o \in Files : Backup(mem, Backed, "intent")[o].created
        /\ \A o \in Backed : Backup(mem, Backed, "intent")[o].backup # "none"
    BY <2>1, JournalFacts, OpSets
  <2>4. CASE SaveJournal(Backup(mem, Backed, "intent"), "move", After(Backed, 0), "check")
    BY <2>4, <1>5, <2>2, <2>3, <1>n, AfterTypes
  <2> QED BY <1>33, <2>1, <2>2, <2>4, <1>4 DEF PinSources, Goto
<1>34. CASE IdentifyBackups
  <2>1. pc = "move" /\ mem \in Journals /\ \A o \in Files : mem[o].created
    BY <1>34, <1>m DEF IdentifyBackups, Scheduled, Recorded
  <2>2. ASSUME pc' = "place", idx' \in Files \cup {N + 1}, at' = "place",
               \A o \in Files : mem'[o].created,
                  \A o \in Backed : mem'[o].backup = "identified" PROVE Scheduled'
    BY <1>0, <2>2 DEF Scheduled, SerialAt, PhasedAt, FinishAt, UndoAt, Recorded, Mutating
  <2>3. /\ \A o \in Files : Backup(mem, Backed, "identified")[o].created
        /\ \A o \in Backed : Backup(mem, Backed, "identified")[o].backup = "identified"
    BY <2>1, JournalFacts, OpSets
  <2>4. CASE SaveJournal(Backup(mem, Backed, "identified"), "place", After(Files, 0), "place")
    BY <2>4, <1>5, <2>2, <2>3, <1>n, AfterTypes
  <2> QED BY <1>34, <2>1, <2>2, <2>4, <1>4, <1>n, AfterTypes DEF IdentifyBackups, RestoreRaced, Goto
<1>35. CASE VerifyApplied
  BY <1>35, <1>1, <1>4 DEF VerifyApplied, Goto
<1>36. CASE StageCatalog \/ ExchangeCatalog \/ RemoveJournal \/ RollbackDone \/ RecoverRolledBack
               \/ CleanCatalog
            \/ FinishDone
  BY <1>36, <1>1, <1>3 DEF StageCatalog, ExchangeCatalog, SaveCatalog, RemoveJournal, RollbackDone,
     RecoverRolledBack, CleanCatalog, FinishDone, Goto
<1>37. CASE UnstageCatalog
  <2> DEFINE K == Kinds \ {"assert-exact"}
  <2>1. ASSUME pc' = "finish", idx' = After(Of(K), 0), at' = "" PROVE Scheduled'
    <3>1. ToFinish' = Of(K)
      BY <1>0, <2>1 DEF ToFinish
    <3>2. idx' \in Of(K) \cup {N + 1}
      BY <2>1, <1>n, AfterTypes
    <3> QED BY <1>0, <2>1, <3>1, <3>2 DEF Scheduled, SerialAt, PhasedAt, FinishAt, UndoAt,
         Recorded, Mutating
  <2> QED BY <1>37, <1>3, <2>1 DEF UnstageCatalog, SaveCatalog, Goto
<1>38. ASSUME NEW o \in Ops, FinishStep(o) PROVE Scheduled'
  <2>1. pc \in {"finish", "forward"} /\ idx = o
    BY <1>38 DEF FinishStep, FinishRefuses, QuarantineBackup, DeleteBackup, FinishNext
  <2>2. o \in ToFinish
    BY <2>1, <1>n DEF Scheduled, FinishAt
  <2> QED BY <1>38, <2>1, <2>2, <1>3, <1>11, <1>n, AfterTypes
      DEF FinishStep, FinishRefuses, QuarantineBackup, DeleteBackup, FinishNext, Settle, Goto
<1>39. ASSUME NEW o \in Ops, UndoStep(o) PROVE Scheduled'
  <2>1. pc \in {"rollback", "back"} /\ idx = o /\ plan[o].seen \in {"none", "prior"}
    BY <1>39, PlanFacts DEF UndoStep, UndoSkip, UndoRefuses, UndoDone, QuarantineNew, CheckCreated,
       QuarantineLeaf,
       DeleteCreated, RestoreBackup, Undoing
  <2>2. UndoFails(o) => Scheduled'
    BY <2>1, <1>3, <1>12, <1>n DEF UndoFails
  <2>3. at # "" => mem[o].created
    BY <2>1 DEF Scheduled, UndoAt
  <2>4. Undo(o) \in {"quarantine-new", "quarantine-leaf"} => mem[o].created
    BY <2>1, UndoFacts
  <2>5. CASE UndoSkip(o) \/ UndoDone(o) \/ RestoreBackup(o)
    BY <2>1, <2>5, <1>3, <1>12, <1>n DEF UndoSkip, UndoDone, RestoreBackup, Settle, Goto
  <2>6. CASE UndoRefuses(o)
    BY <2>2, <2>6 DEF UndoRefuses
  <2>7. CASE QuarantineNew(o) \/ CheckCreated(o)
    BY <2>1, <2>4, <2>7, <1>3, <1>12, <1>n DEF QuarantineNew, CheckCreated, Undoing, Settle, Goto
  <2>8. CASE QuarantineLeaf(o)
    BY <2>1, <2>2, <2>3, <2>8, <1>3, <1>12, <1>n DEF QuarantineLeaf, Settle, Goto
  <2>9. CASE DeleteCreated(o)
    <3>1. \A rest \in {o, o - 1} : Goto(pc, rest, "") /\ mem' = mem => Scheduled'
      BY <2>1, <1>12, <1>n DEF Goto
    <3> QED BY <2>2, <2>9, <3>1, <1>3 DEF DeleteCreated, Settle
  <2> QED BY <1>39, <2>5, <2>6, <2>7, <2>8, <2>9 DEF UndoStep
<1>40. CASE Begin
  BY <1>40, <1>3, <1>7, <1>n, AfterTypes DEF Begin, Goto
<1>41. CASE Recover
  <2>1. CASE pc' = "back" /\ idx' = N /\ at' = ""
    BY <1>0, <2>1, <1>n DEF Scheduled, SerialAt, PhasedAt, FinishAt, UndoAt, Recorded, Mutating
  <2>2. CASE pc' = "forward" /\ idx' = After(Ops, 0) /\ at' = ""
    <3>1. ToFinish' = Ops
      BY <1>0, <2>2 DEF ToFinish
    <3> QED BY <1>0, <2>2, <3>1, <1>n, AfterTypes DEF Scheduled, SerialAt, PhasedAt, FinishAt,
         UndoAt, Recorded, Mutating
  <2> QED BY <1>41, <2>1, <2>2 DEF Recover, Goto
<1>42. CASE Kill \/ IoError \/ PowerLoss
  BY <1>42, <1>1, <1>3, <1>4 DEF Kill, IoError, PowerLoss, Gone
<1>43. ASSUME UNCHANGED local PROVE Scheduled'
  BY <1>0, <1>43, <1>f DEF Scheduled, SerialAt, PhasedAt, FinishAt, UndoAt, Recorded, local
<1>44. CASE (\E o \in Ops : Edit(o)) \/ UNCHANGED vars
  BY <1>43, <1>44 DEF Edit, vars, local
<1> QED
  BY <1>21, <1>22, <1>23, <1>24, <1>25, <1>26, <1>27, <1>28, <1>29, <1>30, <1>31, <1>32, <1>33,
     <1>34, <1>35, <1>36,
     <1>37, <1>38, <1>39, <1>40, <1>41, <1>42, <1>44 DEF Next, Work, Environment, SerialStep

-----------------------------------------------------------------------------
\* The catalogs that the faults still to come can leave.
LeftCat == IF cuts = 0 THEN {cat} ELSE cdur

\* What the catalog is while the process is at p.
CatFor(p, c) ==
  /\ p \in Mutating \cup {"publish", "rollback"} => c = CatAt("prev", "none")
  /\ p = "exchange" => c = CatAt("prev", "next")
  /\ p = "unstage" => c = CatAt("next", "prev")
  /\ p = "finish" => c = CatAt("next", "none")
  /\ p = "back" => c.cur = "prev"
  /\ p = "forward" => c.cur = "next"
  /\ p = "unjournal" => c.stage = "none"

\* A journal remains, whatever the faults still to come bring back.
Journaled == IF cuts = 0 THEN jrn # NoJournal ELSE NoJournal \notin jdur

\* The catalog is settled unless the machine is dark, is the one the process
\* believes in, and is staged only under a journal.
Selected ==
  /\ pc # "dark" => LeftCat = {cat}
  /\ CatFor(pc, cat)
  /\ \A c \in LeftCat : c.stage # "none" => Journaled

\* The fields of a catalog.
LEMMA CatFields ==
  \A c, s : CatAt(c, s).cur = c /\ CatAt(c, s).stage = s
BY DEF CatAt

\* Every step keeps the catalog's part of the invariant.
LEMMA SelectedStep ==
  ASSUME PlanOK, StoreType, ControlType, Apart, Controlled, Scheduled, Selected, [Next]_vars
  PROVE  Selected'
<1>c. cuts \in Nat /\ (cuts > 0 => ~(kills > 0) /\ cuts # 0) /\ (cuts # 0 => cuts > 0)
  <2>1. cuts \in Nat
    BY DEF ControlType
  <2> QED BY <2>1, ApartFacts
<1>p. /\ pc \in Mutating => pc \in Steps
      /\ {"serial", "link", "move", "place"} = Mutating
      /\ {"publish", "exchange", "unstage", "finish"} \subseteq Steps
  BY DEF Steps, Mutating
<1>1. ASSUME UNCHANGED catalog, cuts' = cuts, pc # "dark", CatFor(pc', cat), Journaled => Journaled'
      PROVE  Selected'
  <2>1. LeftCat' = LeftCat /\ cat' = cat /\ LeftCat = {cat}
    BY <1>1 DEF LeftCat, catalog, Selected
  <2> QED BY <1>1, <2>1 DEF Selected
<1>2. UNCHANGED journal /\ cuts' = cuts => (Journaled => Journaled')
  BY DEF journal, Journaled
<1>3. ASSUME UNCHANGED <<journal, catalog>>, cuts' = cuts, pc # "dark", CatFor(pc', cat)
      PROVE  Selected'
  BY <1>1, <1>2, <1>3
<1>4. CatFor("down", cat) /\ CatFor("dark", cat) /\ CatFor("clean", cat) /\ CatFor(pc, cat)
  BY DEF CatFor, Mutating, Selected
<1>5. pc \in Mutating => CatFor("rollback", cat)
         /\ \A p \in Mutating \cup {"publish"} : CatFor(p, cat)
  BY DEF CatFor, Mutating, Selected
<1>6. pc \in {"rollback", "finish"} => CatFor("unjournal", cat)
  BY CatFields DEF CatFor, Mutating, Selected
<1>7. ASSUME Dead \/ Exit, UNCHANGED <<journal, catalog>>, pc \notin {"down", "dark"}
      PROVE  Selected'
  BY <1>3, <1>4, <1>7 DEF Dead, Exit, Gone, budget
<1>8. ASSUME Fails("error") \/ Fails("keep") \/ FailsIo
               \/ (\E c, r : Rollback(c, r) /\ UNCHANGED budget),
             UNCHANGED <<journal, catalog>>, pc \in Mutating PROVE Selected'
  BY <1>3, <1>5, <1>8 DEF Fails, FailsIo, Rollback, budget, Mutating
<1>9. ASSUME NEW p, NEW i, NEW x, Goto(p, i, x), UNCHANGED <<journal, catalog>>, pc # "dark",
             CatFor(p, cat)
      PROVE  Selected'
  BY <1>3, <1>9 DEF Goto, budget
<1>10. ASSUME NEW m \in Journals, NEW p \in Mutating, NEW i, NEW x, SaveJournal(m, p, i, x),
              pc \in Mutating,
              UNCHANGED catalog
       PROVE  Selected'
  <2>1. jdur = {jrn} /\ jrn # NoJournal /\ m # NoJournal
    BY <1>10, PlanFacts DEF Controlled, Steps, Mutating
  <2>2. Saved(m, p, i, x)
    BY <1>10, <2>1, SaveFacts
  <2>3. Journaled'
    BY <2>1, <2>2 DEF Saved, Journaled
  <2>4. cuts' = cuts /\ pc # "dark"
    BY <1>10, <2>2 DEF Saved, Dead, budget, Mutating
  <2>5. CatFor(pc', cat)
    BY <1>4, <1>5, <1>10, <2>2 DEF Saved, Dead
  <2> QED BY <1>1, <1>10, <2>3, <2>4, <2>5
<1>11. ASSUME NEW c, NEW p, NEW i, SaveCatalog(c, p, i), pc \in Steps, CatFor(p, c),
              CatFor("down", c), CatFor("dark", c)
       PROVE  Selected'
  <2>1. jdur = {jrn} /\ jrn # NoJournal /\ pc # "dark" /\ LeftCat = {cat}
    BY <1>11 DEF Controlled, Steps, Mutating, Selected
  <2>2. jrn' = jrn /\ jdur' = jdur /\ cat' = c
    BY <1>11 DEF SaveCatalog, journal
  <2>3. Journaled'
    BY <2>1, <2>2 DEF Journaled
  <2>4. CASE cdur' = {c} /\ Goto(p, i, "")
    BY <1>11, <2>2, <2>3, <2>4 DEF Selected, LeftCat, Goto
  <2>5. CASE Die
    <3>1. Dead
      BY <2>5, DieFacts
    <3>2. pc' # "dark" => cuts' = 0
      BY <1>c, <3>1 DEF Dead
    <3> QED BY <1>11, <2>2, <2>3, <3>1, <3>2 DEF Selected, LeftCat, Dead
  <2> QED BY <1>11, <2>4, <2>5 DEF SaveCatalog
<1>12. ASSUME NEW o \in Ops, NEW f, NEW i, NEW x, Settle(o, f, Goto(pc, i, x) /\ UNCHANGED mem),
              UNCHANGED <<journal, catalog>>, pc \notin {"down", "dark"}
       PROVE  Selected'
  BY <1>4, <1>7, <1>9, <1>12, DieFacts DEF Settle
<1>13. ASSUME NEW o \in Ops, UndoFails(o), UNCHANGED <<journal, catalog>>,
              pc \in {"rollback", "back"}
       PROVE  Selected'
  BY <1>3, <1>4, <1>7, <1>13 DEF UndoFails, budget
<1>m. pc \in Mutating => mem \in Journals
  BY PlanFacts DEF StoreType, Controlled, NoMem, Mutating
<1>14. ASSUME NEW S, NEW b \in {"intent", "identified"}, pc \in Mutating
       PROVE  Created(mem, S) \in Journals /\ Backup(mem, S, b) \in Journals
  BY <1>14, <1>m, JournalFacts
<1>15. "dark" \notin Mutating /\ "down" \notin Mutating
  BY DEF Mutating
<1>21. ASSUME NEW o \in Ops, AssertAbsent(o) \/ SerialStage(o) \/ CheckSource(o) \/ MoveAside(o)
                \/ Place(o)
                             \/ Placed(o) \/ Unplace(o) \/ Link(o)
       PROVE  Selected'
  BY <1>21, <1>5, <1>8, <1>9, <1>p, <1>15
     DEF AssertAbsent, SerialStage, CheckSource, MoveAside, Place, Placed, Unplace, Link
<1>22. ASSUME NEW o \in Ops, SerialRecord(o) PROVE Selected'
  BY <1>22, <1>10, <1>14, <1>p DEF SerialRecord
<1>23. ASSUME NEW o \in Ops, SerialIntent(o) PROVE Selected'
  BY <1>23, <1>5, <1>8, <1>9, <1>10, <1>14, <1>p DEF SerialIntent
<1>24. ASSUME NEW o \in Ops, SerialIdentify(o) PROVE Selected'
  BY <1>24, <1>8, <1>10, <1>14, <1>p DEF SerialIdentify, RestoreRaced
<1>25. CASE StageFiles
  BY <1>25, <1>5, <1>8, <1>9, <1>10, <1>14, <1>p DEF StageFiles
<1>26. CASE PinSources
  BY <1>26, <1>5, <1>8, <1>9, <1>10, <1>14, <1>p DEF PinSources
<1>27. CASE IdentifyBackups
  BY <1>27, <1>5, <1>8, <1>9, <1>10, <1>14, <1>p DEF IdentifyBackups, RestoreRaced
<1>28. CASE VerifyApplied
  BY <1>28, <1>5, <1>8, <1>9, <1>p DEF VerifyApplied
<1>29. CASE StageCatalog \/ ExchangeCatalog \/ UnstageCatalog
  <2>1. /\ CatFor("exchange", CatAt("prev", "next")) /\ CatFor("unstage", CatAt("next", "prev"))
        /\ CatFor("finish", CatAt("next", "none")) /\ \A c : CatFor("down", c) /\ CatFor("dark", c)
    BY DEF CatFor, Mutating
  <2> QED BY <1>29, <1>11, <1>p, <2>1 DEF StageCatalog, ExchangeCatalog, UnstageCatalog
<1>30. CASE RemoveJournal
  <2>1. LeftCat = {cat} /\ cat.stage = "none" /\ pc # "dark"
    BY <1>30 DEF RemoveJournal, Selected, CatFor
  <2>2. UNCHANGED catalog /\ cuts' = cuts /\ pc' \in {"down", "dark"}
    BY <1>30, DieFacts DEF RemoveJournal, Exit, Gone, Dead, budget
  <2>3. LeftCat' = {cat} /\ cat' = cat
    BY <2>1, <2>2 DEF LeftCat, catalog
  <2> QED BY <1>4, <2>1, <2>2, <2>3 DEF Selected
<1>31. ASSUME NEW o \in Ops, FinishStep(o) PROVE Selected'
  BY <1>31, <1>4, <1>7, <1>9, <1>12 DEF FinishStep, FinishRefuses, QuarantineBackup, DeleteBackup,
     FinishNext
<1>32. ASSUME NEW o \in Ops, UndoStep(o) PROVE Selected'
  BY <1>32, <1>4, <1>9, <1>12, <1>13 DEF UndoStep, UndoSkip, UndoRefuses, UndoDone, Undoing,
     QuarantineNew, CheckCreated, QuarantineLeaf, DeleteCreated, RestoreBackup
<1>33. CASE FinishDone \/ RollbackDone \/ RecoverRolledBack
  BY <1>33, <1>4, <1>6, <1>7, <1>9 DEF FinishDone, RollbackDone, RecoverRolledBack
<1>34. CASE CleanCatalog
  <2>0. jrn' = jrn /\ jdur' = jdur /\ pc = "clean"
    BY <1>34 DEF CleanCatalog, journal
  <2>1. CASE cat.stage = "none" /\ Goto("unjournal", 0, "") /\ UNCHANGED <<catalog, mem>>
    <3>1. CatFor("unjournal", cat)
      BY <2>1 DEF CatFor, Mutating
    <3> QED BY <1>34, <2>0, <2>1, <3>1, <1>9 DEF journal
  <2>2. ASSUME cat' = CatAt(cat.cur, "none"), cdur' = {cat'}, Goto("unjournal", 0, "")
        PROVE  Selected'
    <3>1. LeftCat' = {cat'} /\ cat'.stage = "none" /\ pc' = "unjournal"
      BY <2>2, CatFields DEF LeftCat, Goto
    <3> QED BY <3>1 DEF Selected, CatFor, Mutating
  <2>3. ASSUME cat' = CatAt(cat.cur, "none"), cdur' = cdur \cup {cat'}, Die PROVE Selected'
    <3>1. Dead /\ cat'.stage = "none" /\ cuts' = cuts
      BY <2>3, DieFacts, CatFields DEF Dead
    <3>2. pc' # "dark" => cuts' = 0
      BY <1>c, <3>1 DEF Dead
    <3>3. \A c \in LeftCat' : c \in LeftCat \/ c = cat'
      BY <2>3, <3>1 DEF LeftCat
    <3>4. Journaled' = Journaled
      BY <2>0, <3>1 DEF Journaled
    <3> QED BY <3>1, <3>2, <3>3, <3>4 DEF Selected, CatFor, Mutating, LeftCat, Dead
  <2> QED BY <1>34, <2>1, <2>2, <2>3 DEF CleanCatalog
<1>35. CASE Begin
  <2>1. LeftCat = {cat} /\ cat = CatAt("prev", "none") /\ UNCHANGED catalog
    BY <1>35 DEF Begin, Selected
  <2>2. cuts' = cuts /\ pc' \in {"serial", "down", "dark"}
    BY <1>35, DieFacts DEF Begin, Goto, budget, Dead
  <2>3. LeftCat' = {cat} /\ cat' = cat /\ cat.stage = "none"
    BY <2>1, <2>2, CatFields DEF LeftCat, catalog
  <2>4. CatFor(pc', cat)
    BY <2>1, <2>2 DEF CatFor, Mutating
  <2> QED BY <2>3, <2>4 DEF Selected
<1>36. CASE Recover
  <2>1. CatFor(pc', cat)
    BY <1>36 DEF Recover, Goto, CatFor, Mutating
  <2> QED BY <1>36, <2>1, <1>3 DEF Recover, Goto, budget
<1>37. CASE Kill
  BY <1>37, <1>7 DEF Kill, Killed, Gone, Dead
<1>38. CASE IoError
  BY <1>38, <1>8, <1>p DEF IoError
<1>39. CASE PowerLoss
  <2>1. cat' \in LeftCat /\ LeftCat' = {cat'} /\ pc' = "down" /\ jrn' \in jdur /\ jdur' = {jrn'}
           /\ cuts # 0
    BY <1>39, <1>c DEF PowerLoss, Gone, LeftCat
  <2>2. Journaled => Journaled'
    BY <2>1 DEF Journaled
  <2> QED BY <2>1, <2>2 DEF Selected, CatFor, Mutating
<1>40. ASSUME UNCHANGED <<journal, catalog, cuts, pc>> PROVE Selected'
  BY <1>40 DEF Selected, LeftCat, journal, catalog, Journaled
<1>41. CASE (\E o \in Ops : Edit(o)) \/ UNCHANGED vars
  BY <1>40, <1>41 DEF Edit, vars, local, journal, catalog
<1> QED
  BY <1>21, <1>22, <1>23, <1>24, <1>25, <1>26, <1>27, <1>28, <1>29, <1>30, <1>31, <1>32, <1>33,
     <1>34, <1>35, <1>36,
     <1>37, <1>38, <1>39, <1>41 DEF Next, Work, Environment, SerialStep

-----------------------------------------------------------------------------
\* The listings of a target's directory that the faults still to come can leave.
Left(o) == IF cuts = 0 THEN {fs[o]} ELSE disk[o]

\* A step that changes no name.
Still ==
  /\ fs' = fs /\ cuts' = cuts /\ took' = took
  /\ \A o \in Ops : Left(o)' \subseteq Left(o) /\ fs[o] \in Left(o)'

\* A step that makes f of o's names, and syncs no more than other targets.
Changed(o, f) ==
  /\ f \in Listing /\ fs'[o] = f /\ cuts' = cuts
  /\ Left(o)' \subseteq Left(o) \cup {f} /\ f \in Left(o)'
  /\ \A q \in Ops \ {o} : fs'[q] = fs[q] /\ Left(q)' \subseteq Left(q) /\ fs[q] \in Left(q)'
\* The change of o's names is synced, or the machine is dark.
Fresh(o) == Left(o)' = {fs'[o]} \/ pc' = "dark"

\* The kinds of change.  A staging entry gets its name (SerialStage, Link), ...
Stages(o) ==
  /\ (SerialStage(o) /\ fs[o]["leaf"] = plan[o].seen) \/ Link(o)
  /\ Bound(o) /\ took' = took /\ Changed(o, [fs[o] EXCEPT !["new"] = "next"])
\* ... one name is renamed to another, ...
Moves(o, x, y) == took' = took /\ Changed(o, Move(fs[o], x, y))
\* ... a backup that is not the pinned object ...
Raced(o) ==
  /\ pc \in {"serial", "move"} /\ fs[o]["bak"] # "prior"
  /\ SerialIdentify(o) \/ (IdentifyBackups /\ o \in Backed)
\* ... or the prior object goes back to the leaf, ...
Restores(o) ==
  /\ Unplace(o) \/ Raced(o) \/ RestoreBackup(o)
  /\ fs[o]["leaf"] = "none" /\ Moves(o, "bak", "leaf") /\ Fresh(o)
\* ... what the transaction created is unlinked from quarantine, ...
Deletes(o) ==
  /\ DeleteCreated(o) /\ fs[o]["delc"] = "next" /\ Emptied(o) /\ Fresh(o)
  /\ took' = took /\ Changed(o, Unlink(fs[o], "delc"))
\* ... what it did not create is put back from there, ...
PutsBack(o) ==
  DeleteCreated(o) /\ fs[o]["delc"] # "next" /\ fs[o]["leaf"] = "none" /\ Fresh(o)
     /\ Moves(o, "delc", "leaf")
\* ... a backup is unlinked, ...
Forgets(o) ==
  DeleteBackup(o) /\ Fresh(o) /\ took' = took /\ Changed(o, Unlink(fs[o], "delb"))
\* ... or somebody else changes the leaf.
Edits(o) ==
  /\ Edit(o) /\ cuts = 0 /\ edits > 0 /\ Fresh(o)
  /\ \E v \in {"none", "foreign"} : Changed(o, [fs[o] EXCEPT !["leaf"] = v])

\* Whatever a step does to the targets.
Shape ==
  \/ Still \/ PowerLoss
  \/ \E o \in Ops :
       \/ Stages(o) \/ Restores(o) \/ Deletes(o) \/ PutsBack(o) \/ Forgets(o) \/ Edits(o)
       \/ MoveAside(o) /\ fs[o]["leaf"] # "none" /\ Moves(o, "leaf", "bak")
       \/ Place(o) /\ fs[o]["leaf"] = "none" /\ Moves(o, "new", "leaf")
       \/ Placed(o) /\ fs[o]["leaf"] \notin {"none", "next"} /\ Moves(o, "leaf", "new") /\ Fresh(o)
       \/ QuarantineBackup(o) /\ Moves(o, "bak", "delb") /\ Fresh(o)
       \/ QuarantineNew(o) /\ Moves(o, "new", "delc") /\ Fresh(o)
       \/ QuarantineLeaf(o) /\ fs[o]["leaf"] # "none" /\ Moves(o, "leaf", "delc") /\ Fresh(o)

-----------------------------------------------------------------------------
\* What is there now is among what may be left.
LEMMA LeftNow ==
  ASSUME TargetType, NEW o \in Ops
  PROVE  fs[o] \in Left(o) /\ Left(o) \subseteq Listing /\ fs[o] \in Listing
BY DEF TargetType, Left

\* A change that is not synced adds one listing to what may be left.
LEMMA LeftPut ==
  ASSUME TargetType, NEW o \in Ops, NEW f \in Listing, Put(o, f), cuts' = cuts, Ops' = Ops
  PROVE  Changed(o, f)
<1>1. /\ fs'[o] = f /\ disk'[o] = disk[o] \cup {f}
      /\ \A q \in Ops \ {o} : fs'[q] = fs[q] /\ disk'[q] = disk[q]
  BY PutFacts
<1> QED BY <1>1 DEF Changed, Left, TargetType

\* A change that is synced is all that may be left.
LEMMA LeftPutSynced ==
  ASSUME TargetType, NEW o \in Ops, NEW f \in Listing, PutSynced(o, f), cuts' = cuts, Ops' = Ops
  PROVE  Changed(o, f) /\ Left(o)' = {fs'[o]}
<1>1. /\ fs'[o] = f /\ disk'[o] = {f}
      /\ \A q \in Ops \ {o} : fs'[q] = fs[q] /\ disk'[q] = disk[q]
  BY PutSyncedFacts
<1> QED BY <1>1 DEF Changed, Left, TargetType

\* A change with its fsync is Fresh whether or not the process survives it.
LEMMA LeftSettle ==
  ASSUME TargetType, ControlType, Apart, NEW o \in Ops, NEW f \in Listing, NEW A, Settle(o, f, A),
         cuts' = cuts, Ops' = Ops
  PROVE  Changed(o, f) /\ Fresh(o)
<1>1. CASE PutSynced(o, f)
  BY <1>1, LeftPutSynced DEF Fresh
<1>2. CASE Put(o, f) /\ Die
  <2>1. Changed(o, f)
    BY <1>2, LeftPut
  <2>2. pc' # "dark" => cuts = 0
    <3>1. Dead
      BY <1>2, DieFacts
    <3>2. cuts \in Nat
      BY DEF ControlType
    <3>3. pc' # "dark" => ~(cuts > 0)
      BY <3>1, ApartFacts DEF Dead
    <3> QED BY <3>2, <3>3
  <2> QED BY <2>1, <2>2 DEF Fresh, Left
<1> QED BY <1>1, <1>2 DEF Settle

\* A sync takes away from what may be left, and never what is there now.
LEMMA LeftSync ==
  ASSUME TargetType, NEW S, SyncTargets(S), cuts' = cuts, took' = took, Ops' = Ops
  PROVE  Still /\ \A o \in S \cap Ops : Left(o)' = {fs[o]}
<1>1. fs' = fs /\ \A q \in Ops : disk'[q] = IF q \in S THEN {fs[q]} ELSE disk[q]
  BY SyncFacts
<1>2. \A q \in Ops : fs[q] \in disk[q] /\ fs'[q] = fs[q]
  BY <1>1 DEF TargetType
<1> QED BY <1>1, <1>2 DEF Still, Left

\* A step that leaves the targets alone is Still.
LEMMA LeftSame ==
  ASSUME TargetType, UNCHANGED target, cuts' = cuts, took' = took
  PROVE  Still /\ \A o \in Ops : Left(o)' = Left(o)
<1>1. fs' = fs /\ disk' = disk /\ \A q \in Ops : fs[q] \in disk[q]
  BY DEF target, TargetType
<1> QED BY <1>1 DEF Still, Left

\* Every step is of one of these shapes: one target is changed at a time.
LEMMA Shapes ==
  ASSUME PlanOK, TargetType, ControlType, Apart, [Next]_vars
  PROVE  Shape
<1>0. Ops' = Ops /\ plan' = plan
  BY PlanStays, PlanFixed
<1>b. Spent
  BY Spending
<1>s. SUFFICES ASSUME ~PowerLoss PROVE Shape
  BY DEF Shape
<1>c. cuts' = cuts
  BY <1>b, <1>s DEF Spent
<1>t. (\A o \in Ops : ~Edit(o)) => took' = took
  BY <1>b DEF Spent
<1>1. ASSUME UNCHANGED target, \A o \in Ops : ~Edit(o) PROVE Shape
  BY <1>1, <1>c, <1>t, LeftSame DEF Shape
<1>2. ASSUME NEW S, SyncTargets(S), \A o \in Ops : ~Edit(o) PROVE Shape
  BY <1>0, <1>2, <1>c, <1>t, LeftSync DEF Shape
<1>n. "leaf" \in Names /\ "new" \in Names /\ "bak" \in Names /\ "delc" \in Names /\ "delb" \in Names
      /\ "next" \in Objects /\ "none" \in Objects /\ "foreign" \in Objects
  BY DEF Names, Objects
<1>5. ASSUME NEW o \in Ops, NEW x \in Names, NEW y \in Names, x # y
      PROVE  Move(fs[o], x, y) \in Listing
  BY <1>5, MoveFacts DEF TargetType
<1>6. ASSUME NEW o \in Ops, NEW x \in Names, NEW v \in Objects
      PROVE  Unlink(fs[o], x) \in Listing /\ [fs[o] EXCEPT ![x] = v] \in Listing
  BY UnlinkFacts, SetFacts DEF TargetType
<1>3. ASSUME NEW o \in Ops, NEW f \in Listing, Put(o, f) PROVE Changed(o, f)
  BY <1>0, <1>c, <1>3, LeftPut
<1>4. ASSUME NEW o \in Ops, NEW f \in Listing, PutSynced(o, f) PROVE Changed(o, f) /\ Fresh(o)
  BY <1>0, <1>c, <1>4, LeftPutSynced DEF Fresh
<1>7. ASSUME NEW o \in Ops, NEW f \in Listing, NEW A, Settle(o, f, A)
      PROVE  Changed(o, f) /\ Fresh(o)
  BY <1>0, <1>c, <1>7, LeftSettle
<1>8. ASSUME NEW o \in Ops, Edit(o) PROVE Shape
  <2>1. PICK v \in {"none", "foreign"} : Put(o, [fs[o] EXCEPT !["leaf"] = v])
    BY <1>8 DEF Edit
  <2>2. Changed(o, [fs[o] EXCEPT !["leaf"] = v])
    BY <2>1, <1>3, <1>6, <1>n
  <2>3. cuts = 0 /\ edits > 0
    <3>1. cuts \in Nat /\ edits > 0
      BY <1>8 DEF Edit, ControlType
    <3> QED BY <3>1, ApartFacts
  <2>4. Fresh(o)
    BY <1>c, <2>3 DEF Fresh, Left
  <2> QED BY <1>8, <2>2, <2>3, <2>4 DEF Shape, Edits
<1> SUFFICES ASSUME \A o \in Ops : ~Edit(o) PROVE Shape
  BY <1>8
<1>10. took' = took
  BY <1>t
<1>11. CASE Begin \/ Recover \/ Kill \/ IoError \/ FinishDone \/ RollbackDone \/ RecoverRolledBack
            \/ CleanCatalog \/ RemoveJournal \/ StageCatalog \/ ExchangeCatalog \/ UnstageCatalog
                  \/ StageFiles
  BY <1>1, <1>11 DEF Begin, Recover, Kill, IoError, FinishDone, RollbackDone, RecoverRolledBack,
     CleanCatalog,
     RemoveJournal, StageCatalog, ExchangeCatalog, UnstageCatalog, SaveCatalog, StageFiles
<1>12. CASE PinSources \/ VerifyApplied
  BY <1>2, <1>12 DEF PinSources, VerifyApplied
<1>13. CASE IdentifyBackups
  <2>1. ASSUME NEW o \in Backed, RestoreRaced(o), fs[o]["bak"] # "prior",
               disk' = [q \in Ops |-> IF q \in Backed THEN {fs'[q]} ELSE disk[q]]
        PROVE  Shape
    <3>0. o \in Ops
      BY OpSets
    <3>1. CASE fs[o]["leaf"] = "none" /\ fs' = [fs EXCEPT ![o] = Move(fs[o], "bak", "leaf")]
      <4>1. Move(fs[o], "bak", "leaf") \in Listing
        BY <3>0, <1>5, <1>n
      <4>2. fs'[o] = Move(fs[o], "bak", "leaf") /\ (\A q \in Ops \ {o} : fs'[q] = fs[q])
            /\ \A q \in Ops : fs[q] \in disk[q]
        BY <3>0, <3>1 DEF TargetType
      <4>3. \A q \in Ops : disk'[q] = IF q \in Backed THEN {fs'[q]} ELSE disk[q]
        BY <2>1
      <4>4. Changed(o, Move(fs[o], "bak", "leaf")) /\ Fresh(o)
        BY <1>c, <2>1, <3>0, <4>1, <4>2, <4>3 DEF Changed, Fresh, Left
      <4>5. Raced(o)
        BY <1>13, <2>1 DEF Raced, IdentifyBackups
      <4> QED BY <1>10, <3>0, <3>1, <4>4, <4>5 DEF Shape, Restores, Moves
    <3>2. CASE UNCHANGED fs
      BY <1>c, <1>10, <2>1, <3>2 DEF Shape, Still, Left, TargetType
    <3> QED BY <2>1, <3>1, <3>2 DEF RestoreRaced
  <2> QED BY <2>1, <1>1, <1>2, <1>13, WrongFirst DEF IdentifyBackups
<1>14. ASSUME NEW o \in Ops,
              AssertAbsent(o) \/ SerialIntent(o) \/ CheckSource(o) \/ FinishRefuses(o)
                 \/ UndoSkip(o)
              \/ UndoRefuses(o) \/ CheckCreated(o)
       PROVE  Shape
  BY <1>1, <1>14 DEF AssertAbsent, SerialIntent, CheckSource, FinishRefuses, UndoSkip, UndoRefuses,
     CheckCreated
<1>15. ASSUME NEW o \in Ops, SerialRecord(o) \/ FinishNext(o) \/ UndoDone(o) PROVE Shape
  BY <1>2, <1>15 DEF SerialRecord, FinishNext, UndoDone
<1>16. ASSUME NEW o \in Ops, SerialStage(o) \/ Link(o) PROVE Shape
  <2>1. CASE Bound(o) /\ (Link(o) \/ fs[o]["leaf"] = plan[o].seen)
                /\ Put(o, [fs[o] EXCEPT !["new"] = "next"])
    BY <1>3, <1>6, <1>10, <1>16, <1>n, <2>1 DEF Shape, Stages
  <2> QED BY <1>1, <1>16, <2>1 DEF SerialStage, Link
<1>17. ASSUME NEW o \in Ops, MoveAside(o) PROVE Shape
  <2>1. CASE fs[o]["leaf"] # "none" /\ Put(o, Move(fs[o], "leaf", "bak"))
    BY <1>3, <1>5, <1>10, <1>17, <1>n, <2>1 DEF Shape, Moves
  <2> QED BY <1>1, <1>17, <2>1 DEF MoveAside
<1>18. ASSUME NEW o \in Ops, Place(o) PROVE Shape
  <2>1. CASE fs[o]["leaf"] = "none" /\ Put(o, Move(fs[o], "new", "leaf"))
    BY <1>3, <1>5, <1>10, <1>18, <1>n, <2>1 DEF Shape, Moves
  <2> QED BY <1>1, <1>18, <2>1 DEF Place
<1>19. ASSUME NEW o \in Ops, Placed(o) PROVE Shape
  <2>1. CASE fs[o]["leaf"] \notin {"none", "next"} /\ PutSynced(o, Move(fs[o], "leaf", "new"))
    BY <1>4, <1>5, <1>10, <1>19, <1>n, <2>1 DEF Shape, Moves
  <2> QED BY <1>1, <1>2, <1>19, <2>1 DEF Placed
<1>20. ASSUME NEW o \in Ops, Unplace(o) PROVE Shape
  <2>1. CASE fs[o]["leaf"] = "none" /\ PutSynced(o, Move(fs[o], "bak", "leaf"))
    BY <1>4, <1>5, <1>10, <1>20, <1>n, <2>1 DEF Shape, Moves, Restores
  <2> QED BY <1>1, <1>20, <2>1 DEF Unplace
<1>21. ASSUME NEW o \in Ops, SerialIdentify(o) PROVE Shape
  <2>1. ASSUME RestoreRaced(o), disk' = [disk EXCEPT ![o] = {fs'[o]}], fs[o]["bak"] # "prior"
        PROVE  Shape
    <3>1. CASE fs[o]["leaf"] = "none" /\ fs' = [fs EXCEPT ![o] = Move(fs[o], "bak", "leaf")]
      <4>1. Move(fs[o], "bak", "leaf") \in Listing
        BY <1>5, <1>n
      <4>2. fs'[o] = Move(fs[o], "bak", "leaf") /\ (\A q \in Ops \ {o} : fs'[q] = fs[q])
            /\ \A q \in Ops : fs[q] \in disk[q]
        BY <3>1 DEF TargetType
      <4>3. disk'[o] = {fs'[o]} /\ \A q \in Ops \ {o} : disk'[q] = disk[q]
        BY <2>1 DEF TargetType
      <4>4. Changed(o, Move(fs[o], "bak", "leaf")) /\ Fresh(o)
        BY <1>c, <4>1, <4>2, <4>3 DEF Changed, Fresh, Left
      <4>5. Raced(o)
        BY <1>21, <2>1 DEF Raced, SerialIdentify
      <4> QED BY <1>10, <3>1, <4>4, <4>5 DEF Shape, Restores, Moves
    <3>2. CASE UNCHANGED fs
      <4>1. disk'[o] = {fs'[o]} /\ \A q \in Ops \ {o} : disk'[q] = disk[q]
        BY <2>1 DEF TargetType
      <4> QED BY <1>c, <1>10, <3>2, <4>1 DEF Shape, Still, Left, TargetType
    <3> QED BY <2>1, <3>1, <3>2 DEF RestoreRaced
  <2> QED BY <2>1, <1>2, <1>21 DEF SerialIdentify
<1>22. ASSUME NEW o \in Ops, QuarantineBackup(o) \/ QuarantineNew(o) \/ QuarantineLeaf(o)
       PROVE  Shape
  BY <1>1, <1>5, <1>7, <1>10, <1>22, <1>n DEF QuarantineBackup, QuarantineNew, QuarantineLeaf,
     Shape, Moves
<1>23. ASSUME NEW o \in Ops, DeleteBackup(o) PROVE Shape
  BY <1>6, <1>7, <1>10, <1>23, <1>n DEF DeleteBackup, Shape, Forgets
<1>24. ASSUME NEW o \in Ops, RestoreBackup(o) PROVE Shape
  <2>1. fs[o]["leaf"] = "none"
    <3>1. plan[o].seen \in {"none", "prior"}
      BY PlanFacts
    <3>2. Undo(o) = "restore"
      BY <1>24 DEF RestoreBackup, Undoing
    <3> QED BY <3>1, <3>2, UndoFacts
  <2>2. Changed(o, Move(fs[o], "bak", "leaf")) /\ Fresh(o)
    <3>1. Move(fs[o], "bak", "leaf") \in Listing
      BY <1>5, <1>n
    <3> QED BY <1>7, <1>24, <3>1 DEF RestoreBackup
  <2> QED BY <1>10, <1>24, <2>1, <2>2 DEF Shape, Restores, Moves
<1>25. ASSUME NEW o \in Ops, DeleteCreated(o) PROVE Shape
  <2>1. ASSUME NEW A, Settle(o, Unlink(fs[o], "delc"), A), fs[o]["delc"] = "next", Emptied(o)
        PROVE  Shape
    BY <1>6, <1>7, <1>10, <1>25, <1>n, <2>1 DEF Shape, Deletes
  <2>2. CASE fs[o]["delc"] # "next" /\ fs[o]["leaf"] = "none"
                /\ PutSynced(o, Move(fs[o], "delc", "leaf"))
    BY <1>4, <1>5, <1>10, <1>25, <1>n, <2>2 DEF Shape, PutsBack, Moves
  <2> QED BY <1>1, <1>25, <2>1, <2>2 DEF DeleteCreated
<1>26. CASE UNCHANGED vars
  BY <1>1, <1>26 DEF vars, target
<1> QED
  BY <1>11, <1>12, <1>13, <1>14, <1>15, <1>16, <1>17, <1>18, <1>19, <1>20, <1>21, <1>22, <1>23,
     <1>24, <1>25, <1>26, <1>s
     DEF Next, Work, Environment, SerialStep, FinishStep, UndoStep

-----------------------------------------------------------------------------
\* All that the process and the store rely on.
Base ==
  /\ PlanOK /\ TargetType /\ StoreType /\ ControlType
  /\ Apart /\ Controlled /\ Scheduled /\ Selected

\* Every step keeps the base.
LEMMA BaseStep ==
  ASSUME Base, [Next]_vars
  PROVE  Base'
<1>1. PlanOK'
  BY PlanStays, PlanFixed DEF Base
<1>2. TargetType' /\ ControlType' /\ StoreType' /\ Controlled' /\ Scheduled' /\ Apart'
  BY TargetTypeStep, ControlTypeStep, ControlledStep, ScheduledStep, ApartStep DEF Base
<1>3. Selected'
  BY SelectedStep DEF Base
<1> QED BY <1>1, <1>2, <1>3 DEF Base

\* A target in a directory that the plan creates.
Nested(o) == plan[o].in \in Ops
\* Its directory's operation.
Dir(o) == plan[o].in

\* What verify_missing_ancestor_coverage gives: a directory of the plan is
\* created, before its targets, and is not itself in one.
LEMMA NestedFacts ==
  ASSUME PlanOK, NEW o \in Ops
  PROVE  /\ Nested(o) => /\ Dir(o) \in Ops /\ Dir(o) < o /\ Dir(o) # o /\ plan[o].seen = "none"
                         /\ plan[Dir(o)].kind = "dir" /\ plan[Dir(o)].seen = "none"
                               /\ ~Nested(Dir(o))
                         /\ Reached(Dir(o))
         /\ plan[o].seen = "prior" => Reached(o) /\ ~Nested(o)
         /\ ~Reached(o) /\ ~Nested(o) => plan[o].seen = "none"
               /\ plan[o].kind \in {"remove", "assert-absent"}
         /\ Bound(o) /\ pc \notin {"back", "forward"}
               /\ plan[o].kind \notin {"remove", "assert-absent"} => Reached(o)
<1>1. /\ N \in Nat /\ Ops = 1 .. N /\ Len(plan) = N /\ o \in Ops /\ plan[o].in \in Nat
      /\ 0 \notin Ops /\ plan[o].seen \in {"none", "prior"}
  BY PlanFacts DEF N
<1>2. Covered(plan, o)
  BY DEF PlanOK
<1>3. Nested(o) => /\ plan[o].in \in Ops /\ plan[o].in < o /\ plan[o].in # 0
         /\ ~(plan[o].in > Len(plan))
  BY <1>1, <1>2 DEF Nested, Covered
<1>4. Nested(o) => /\ Dir(o) \in Ops /\ Dir(o) < o /\ Dir(o) # o /\ plan[o].seen = "none"
                   /\ plan[Dir(o)].kind = "dir" /\ plan[Dir(o)].seen = "none" /\ plan[Dir(o)].in = 0
  BY <1>1, <1>2, <1>3 DEF Covered, Dir
<1>5. ~Nested(o) /\ plan[o].in # 0 => plan[o].in > Len(plan)
  BY <1>1 DEF Nested
<1>6. plan[o].seen = "prior" => plan[o].in = 0
  BY <1>2 DEF Covered
<1>7. ~Reached(o) /\ ~Nested(o) => plan[o].seen = "none"
         /\ plan[o].kind \in {"remove", "assert-absent"}
  BY <1>2, <1>5 DEF Covered, Reached
<1>8. Bound(o) /\ pc \notin {"back", "forward"} /\ Nested(o) => Reached(o)
  BY DEF Bound, Nested
<1> QED BY <1>1, <1>4, <1>6, <1>7, <1>8 DEF Reached, Nested

-----------------------------------------------------------------------------
\* A step that changes the names of o alone, and what they become.
Alone(o) ==
  /\ cuts' = cuts /\ fs'[o] \in Listing
  /\ Left(o)' \subseteq Left(o) \cup {fs'[o]} /\ fs'[o] \in Left(o)'
  /\ \A q \in Ops \ {o} : fs'[q] = fs[q] /\ Left(q)' \subseteq Left(q) /\ fs[q] \in Left(q)'

\* The five names of o after a step.
Becomes(o, l, n, b, c, d) ==
  /\ fs'[o]["leaf"] = l /\ fs'[o]["new"] = n /\ fs'[o]["bak"] = b
  /\ fs'[o]["delc"] = c /\ fs'[o]["delb"] = d

\* The same kinds of change with what the code has checked before each: the
\* staging entry is named while the mutation is at o, ...
TurnStage(o) ==
  /\ pc \in {"serial", "link"} /\ idx = o /\ plan[o].kind \in Placing /\ Reached(o)
  /\ plan[o].kind \in Canonical => pc = "serial" /\ fs[o]["leaf"] = plan[o].seen
  /\ plan[o].kind = "file" => mem[o].created
  /\ pc = "serial" => at = "" /\ pc' = "serial" /\ idx' = o /\ at' = "staged"
  /\ pc = "link" => pc' = "link" /\ idx' = After(Files, o)
  /\ Becomes(o, fs[o]["leaf"], "next", fs[o]["bak"], fs[o]["delc"], fs[o]["delb"])
\* ... the leaf goes to its backup name under a recorded intent, ...
TurnAside(o) ==
  /\ pc \in {"serial", "move"} /\ idx = o /\ at = "rename" /\ fs[o]["leaf"] # "none"
  /\ plan[o].seen = "prior" /\ mem[o].backup # "none"
  /\ pc = "serial" => pc' = "serial" /\ idx' = o /\ at' = "moved"
  /\ pc = "move" => pc' = "move" /\ idx' = After(Backed, o)
  /\ plan[o].kind \in Canonical => pc = "serial"
  /\ Becomes(o, "none", fs[o]["new"], fs[o]["leaf"], fs[o]["delc"], fs[o]["delb"])
\* ... the created entry goes to an empty leaf, ...
TurnPlace(o) ==
  /\ pc \in {"serial", "place"} /\ idx = o /\ fs[o]["leaf"] = "none"
  /\ plan[o].kind \in Placing /\ mem[o].created
  /\ Becomes(o, fs[o]["new"], "none", fs[o]["bak"], fs[o]["delc"], fs[o]["delb"])
\* ... what took the leaf meanwhile goes to the staging name, ...
TurnDisplace(o) ==
  /\ pc \in {"serial", "place"} /\ idx = o /\ at = "placed" /\ fs[o]["leaf"] \notin {"none", "next"}
  /\ plan[o].kind \in Placing /\ mem[o].created /\ Fresh(o)
  /\ Becomes(o, "none", fs[o]["leaf"], fs[o]["bak"], fs[o]["delc"], fs[o]["delb"])
\* ... the backup goes back to an empty leaf, ...
TurnRestore(o) ==
  /\ pc \in Mutating \cup {"rollback", "back"} /\ fs[o]["leaf"] = "none" /\ Fresh(o)
  /\ pc' \notin Mutating
  /\ pc \in {"rollback", "back"} => idx = o /\ plan[o].seen = "prior"
  /\ Becomes(o, fs[o]["bak"], fs[o]["new"], "none", fs[o]["delc"], fs[o]["delb"])
\* ... the created entry is unlinked, ...
TurnDelete(o) ==
  /\ pc \in {"rollback", "back"} /\ idx = o /\ fs[o]["delc"] = "next" /\ Emptied(o) /\ Fresh(o)
  /\ Becomes(o, fs[o]["leaf"], fs[o]["new"], fs[o]["bak"], "none", fs[o]["delb"])
\* ... something else is put back, ...
TurnPutBack(o) ==
  /\ pc \in {"rollback", "back"} /\ idx = o /\ fs[o]["leaf"] = "none" /\ fs[o]["delc"] # "next"
        /\ Fresh(o)
  /\ Becomes(o, fs[o]["delc"], fs[o]["new"], fs[o]["bak"], "none", fs[o]["delb"])
\* ... the quarantined backup is unlinked, ...
TurnForget(o) ==
  /\ pc \in {"finish", "forward"} /\ idx = o /\ Fresh(o)
  /\ Becomes(o, fs[o]["leaf"], fs[o]["new"], fs[o]["bak"], fs[o]["delc"], "none")
\* ... the backup is quarantined, ...
TurnShelve(o) ==
  /\ pc \in {"finish", "forward"} /\ idx = o /\ fs[o]["bak"] = "prior" /\ fs[o]["delb"] = "none"
        /\ Fresh(o)
  /\ Becomes(o, fs[o]["leaf"], fs[o]["new"], "none", fs[o]["delc"], fs[o]["bak"])
\* ... the staging entry is quarantined, ...
TurnNew(o) ==
  /\ pc \in {"rollback", "back"} /\ idx = o /\ fs[o]["new"] = "next" /\ fs[o]["delc"] = "none"
  /\ mem[o].created /\ Fresh(o)
  /\ Becomes(o, fs[o]["leaf"], "none", fs[o]["bak"], "next", fs[o]["delb"])
\* ... the created leaf is quarantined, ...
TurnLeaf(o) ==
  /\ pc \in {"rollback", "back"} /\ idx = o /\ at = "created" /\ fs[o]["leaf"] # "none"
  /\ mem[o].created /\ Fresh(o)
  /\ Becomes(o, "none", fs[o]["new"], fs[o]["bak"], fs[o]["leaf"], fs[o]["delb"])
\* ... or somebody else changes the leaf.
TurnEdit(o) ==
  /\ Edit(o) /\ cuts = 0 /\ Reached(o) /\ Emptied(o) /\ o \in took' /\ took \subseteq took'
        /\ Fresh(o)
  /\ UNCHANGED <<local, journal, catalog>>
  /\ \E v \in {"none", "foreign"} :
       Becomes(o, v, fs[o]["new"], fs[o]["bak"], fs[o]["delc"], fs[o]["delb"])

\* One of these.
Turned(o) ==
  \/ /\ took' = took
     /\ \/ TurnStage(o) \/ TurnAside(o) \/ TurnPlace(o) \/ TurnDisplace(o) \/ TurnRestore(o)
        \/ TurnDelete(o) \/ TurnPutBack(o) \/ TurnForget(o) \/ TurnShelve(o) \/ TurnNew(o)
              \/ TurnLeaf(o)
  \/ TurnEdit(o)

\* The journals that may come back are ones that validate_journal accepts; with
\* a selected next catalog, ones that can be rolled forward.
LegalAll(j) == \A o \in Ops : LegalRecord(o, j[o])
\* A journal that validate_roll_forward_journal accepts.
Completes(j) == \A o \in Ops : CompleteRecord(o, j[o])

\* With the next catalog selected, or about to be, every journal that may come
\* back is complete; every one is legal.
Accepted ==
  /\ \A j \in jdur \cup {mem} : j # NoJournal => LegalAll(j)
  /\ \A c \in LeftCat : c.cur = "next" => \A j \in jdur : j # NoJournal => Completes(j)
  /\ pc \in {"publish", "exchange"} => Completes(jrn)

\* A rename changes two names.
LEMMA ChangedFacts ==
  ASSUME TargetType, NEW o \in Ops
  PROVE  /\ \A f : Changed(o, f) => Alone(o) /\ fs'[o] = f
         /\ \A x, y \in Names : x # y /\ Moves(o, x, y) =>
              /\ Alone(o) /\ took' = took /\ fs'[o][y] = fs[o][x] /\ fs'[o][x] = "none"
              /\ \A n \in Names \ {x, y} : fs'[o][n] = fs[o][n]
<1>1. \A f : Changed(o, f) => Alone(o) /\ fs'[o] = f
  BY DEF Changed, Alone
<1>2. fs[o] \in Listing
  BY DEF TargetType
<1> QED BY <1>1, <1>2, MoveFacts DEF Moves

\* Every step leaves the targets alone, loses power, or is a turn of one target.
LEMMA Turns ==
  ASSUME Base, Accepted, [Next]_vars
  PROVE  Still \/ PowerLoss \/ \E o \in Ops : Alone(o) /\ Turned(o)
<1>1. Shape
  BY Shapes DEF Base
<1>2. PlanOK /\ TargetType /\ ControlType /\ StoreType /\ Controlled /\ Scheduled
  BY DEF Base
<1>n. Names = {"leaf", "new", "bak", "delc", "delb"}
  BY DEF Names
<1>f. \A o \in Ops : fs[o] \in Listing
  BY <1>2 DEF TargetType
<1>k. \A o \in Ops : plan[o].kind \in Kinds /\ plan[o].seen \in {"none", "prior"} /\ o # N + 1
  BY <1>2, PlanFacts
<1>m. pc \notin {"down", "dark"} => mem # NoMem /\ LegalAll(mem)
  BY <1>2 DEF Controlled, Accepted, NoMem
<1>3. ASSUME NEW o \in Ops, Stages(o) PROVE Alone(o) /\ Turned(o)
  <2>1. Changed(o, [fs[o] EXCEPT !["new"] = "next"]) /\ took' = took /\ Bound(o)
    BY <1>3 DEF Stages
  <2>2. Alone(o) /\ Becomes(o, fs[o]["leaf"], "next", fs[o]["bak"], fs[o]["delc"], fs[o]["delb"])
    <3> DEFINE f == [fs[o] EXCEPT !["new"] = "next"]
    <3>1. f["new"] = "next" /\ \A n \in Names \ {"new"} : f[n] = fs[o][n]
      BY <1>f, <1>n DEF Listing
    <3>2. Alone(o) /\ fs'[o] = f
      BY <1>2, <2>1, ChangedFacts
    <3> QED BY <1>n, <3>1, <3>2 DEF Becomes
  <2>3. CASE SerialStage(o) /\ fs[o]["leaf"] = plan[o].seen
    <3>1. pc = "serial" /\ idx = o /\ plan[o].kind \in Canonical /\ fs[o]["leaf"] = plan[o].seen
      BY <2>3 DEF SerialStage
    <3>2. Reached(o) /\ plan[o].kind \in Placing /\ plan[o].kind # "file"
      BY <2>1, <3>1, NestedFacts, <1>2 DEF Canonical, Placing
    <3>3. at = "" /\ pc' = "serial" /\ idx' = o /\ at' = "staged"
      BY <2>1, <2>3 DEF SerialStage, Goto
    <3> QED BY <2>1, <2>2, <3>1, <3>2, <3>3 DEF Turned, TurnStage
  <2>4. CASE Link(o)
    <3>1. pc = "link" /\ idx = o
      BY <2>4 DEF Link
    <3>2. o \in Files /\ mem[o].created
      BY <1>2, <1>k, <3>1 DEF Scheduled, PhasedAt, Recorded
    <3>3. Reached(o) /\ plan[o].kind = "file" /\ plan[o].kind \in Placing
             /\ plan[o].kind \notin Canonical
      BY <2>1, <3>1, <3>2, NestedFacts, <1>2 DEF Files, Of, Canonical, Placing
    <3>4. pc' = "link" /\ idx' = After(Files, o)
      BY <2>1, <2>4 DEF Link, Goto
    <3> QED BY <2>1, <2>2, <3>1, <3>2, <3>3, <3>4 DEF Turned, TurnStage
  <2> QED BY <1>3, <2>3, <2>4 DEF Stages
<1>4. ASSUME NEW o \in Ops, MoveAside(o), fs[o]["leaf"] # "none", Moves(o, "leaf", "bak")
      PROVE  Alone(o) /\ Turned(o)
  <2>1. Alone(o) /\ took' = took
           /\ Becomes(o, "none", fs[o]["new"], fs[o]["leaf"], fs[o]["delc"], fs[o]["delb"])
    BY <1>2, <1>4, <1>n, ChangedFacts DEF Becomes
  <2>2. pc \in {"serial", "move"} /\ idx = o /\ at = "rename"
    BY <1>4 DEF MoveAside
  <2>3. CASE pc = "serial"
    <3>1. mem[o].backup # "none"
      BY <1>2, <2>2, <2>3 DEF Scheduled, SerialAt
    <3>2. plan[o].seen = "prior"
      BY <1>m, <2>2, <2>3, <3>1 DEF LegalAll, LegalRecord
    <3>3. pc' = "serial" /\ idx' = o /\ at' = "moved"
      BY <1>4, <2>3 DEF MoveAside, Goto
    <3> QED BY <1>4, <2>1, <2>2, <2>3, <3>1, <3>2, <3>3 DEF Turned, TurnAside
  <2>4. CASE pc = "move"
    <3>1. o \in Backed /\ mem[o].backup # "none"
      BY <1>2, <1>k, <2>2, <2>4 DEF Scheduled, PhasedAt, Recorded
    <3>2. plan[o].seen = "prior" /\ plan[o].kind \notin Canonical
      BY <3>1 DEF Backed, Phased, Of, Canonical
    <3>3. pc' = "move" /\ idx' = After(Backed, o)
      BY <1>4, <2>4 DEF MoveAside, Goto
    <3>4. pc # "serial"
      BY <2>4
    <3> QED BY <1>4, <2>1, <2>2, <3>1, <3>2, <3>3, <3>4 DEF Turned, TurnAside
  <2> QED BY <2>2, <2>3, <2>4
<1>5. ASSUME NEW o \in Ops, pc \in {"serial", "place"}, idx = o, at # ""
      PROVE  plan[o].kind \in Placing /\ (at # "staged" => mem[o].created)
  <2>1. CASE pc = "serial"
    BY <1>2, <1>5, <2>1 DEF Scheduled, SerialAt, Of, Placing
  <2>2. CASE pc = "place"
    <3>1. o \in Files /\ mem[o].created
      BY <1>2, <1>5, <2>2, <1>k DEF Scheduled, PhasedAt, Recorded
    <3> QED BY <3>1 DEF Files, Of, Placing
  <2> QED BY <1>5, <2>1, <2>2
<1>6. ASSUME NEW o \in Ops, Place(o), fs[o]["leaf"] = "none", Moves(o, "new", "leaf")
      PROVE  Alone(o) /\ Turned(o)
  <2>1. Alone(o) /\ took' = took
           /\ Becomes(o, fs[o]["new"], "none", fs[o]["bak"], fs[o]["delc"], fs[o]["delb"])
    BY <1>2, <1>6, <1>n, ChangedFacts DEF Becomes
  <2>2. pc \in {"serial", "place"} /\ idx = o /\ at = "place"
    BY <1>6 DEF Place
  <2> QED BY <1>5, <1>6, <2>1, <2>2 DEF Turned, TurnPlace
<1>7. ASSUME NEW o \in Ops, Placed(o), fs[o]["leaf"] \notin {"none", "next"},
             Moves(o, "leaf", "new"), Fresh(o)
      PROVE  Alone(o) /\ Turned(o)
  <2>1. Alone(o) /\ took' = took
           /\ Becomes(o, "none", fs[o]["leaf"], fs[o]["bak"], fs[o]["delc"], fs[o]["delb"])
    BY <1>2, <1>7, <1>n, ChangedFacts DEF Becomes
  <2>2. pc \in {"serial", "place"} /\ idx = o /\ at = "placed"
    BY <1>7 DEF Placed
  <2> QED BY <1>5, <1>7, <2>1, <2>2 DEF Turned, TurnDisplace
<1>8. ASSUME NEW o \in Ops, Restores(o) PROVE Alone(o) /\ Turned(o)
  <2>1. Alone(o) /\ took' = took
           /\ Becomes(o, fs[o]["bak"], fs[o]["new"], "none", fs[o]["delc"], fs[o]["delb"])
    BY <1>2, <1>8, <1>n, ChangedFacts DEF Becomes, Restores
  <2>2. fs[o]["leaf"] = "none" /\ Fresh(o)
    BY <1>8 DEF Restores
  <2>3. CASE Unplace(o)
    <3>1. pc \in Mutating /\ pc' = "rollback"
      BY <2>3 DEF Unplace, Mutating, Fails, Rollback
    <3> QED BY <2>1, <2>2, <3>1 DEF Turned, TurnRestore, Mutating
  <2>4. CASE Raced(o)
    <3>1. pc \in Mutating /\ fs[o]["bak"] # "prior"
      BY <2>4 DEF Raced, Mutating
    <3>2. CASE SerialIdentify(o)
      BY <2>1, <2>2, <3>1, <3>2 DEF Turned, TurnRestore, Mutating, SerialIdentify, RestoreRaced,
         Rollback
    <3>3. CASE IdentifyBackups /\ o \in Backed
      <4>1. {q \in Backed : fs[q]["bak"] # "prior"} # {}
        BY <3>1, <3>3
      <4>2. pc' = "rollback"
        BY <3>3, <4>1 DEF IdentifyBackups, RestoreRaced, Rollback
      <4> QED BY <2>1, <2>2, <3>1, <4>2 DEF Turned, TurnRestore, Mutating
    <3> QED BY <2>4, <3>2, <3>3 DEF Raced
  <2>5. CASE RestoreBackup(o)
    <3>1. pc \in {"rollback", "back"} /\ idx = o /\ plan[o].seen = "prior"
      <4>1. pc \in {"rollback", "back"} /\ idx = o /\ Undo(o) = "restore"
        BY <2>5 DEF RestoreBackup, Undoing
      <4> QED BY <1>k, <4>1, UndoFacts
    <3>2. pc' \in {pc, "down", "dark"}
      BY <2>5, DieFacts DEF RestoreBackup, Settle, Goto, Dead
    <3> QED BY <2>1, <2>2, <3>1, <3>2 DEF Turned, TurnRestore, Mutating
  <2> QED BY <1>8, <2>3, <2>4, <2>5 DEF Restores
<1>9. ASSUME NEW o \in Ops, Deletes(o) PROVE Alone(o) /\ Turned(o)
  <2>1. Alone(o) /\ took' = took
           /\ Becomes(o, fs[o]["leaf"], fs[o]["new"], fs[o]["bak"], "none", fs[o]["delb"])
    BY <1>2, <1>9, <1>f, <1>n, ChangedFacts, UnlinkFacts DEF Becomes, Deletes
  <2>2. fs[o]["delc"] = "next" /\ Emptied(o) /\ Fresh(o) /\ pc \in {"rollback", "back"} /\ idx = o
    BY <1>9 DEF Deletes, DeleteCreated, Undoing
  <2> QED BY <2>1, <2>2 DEF Turned, TurnDelete
<1>10. ASSUME NEW o \in Ops, PutsBack(o) PROVE Alone(o) /\ Turned(o)
  <2>1. Alone(o) /\ took' = took
           /\ Becomes(o, fs[o]["delc"], fs[o]["new"], fs[o]["bak"], "none", fs[o]["delb"])
    BY <1>2, <1>10, <1>n, ChangedFacts DEF Becomes, PutsBack
  <2>2. fs[o]["delc"] # "next" /\ fs[o]["leaf"] = "none" /\ Fresh(o) /\ pc \in {"rollback", "back"}
           /\ idx = o
    BY <1>10 DEF PutsBack, DeleteCreated, Undoing
  <2> QED BY <2>1, <2>2 DEF Turned, TurnPutBack
<1>11. ASSUME NEW o \in Ops, Forgets(o) PROVE Alone(o) /\ Turned(o)
  <2>1. Alone(o) /\ took' = took
           /\ Becomes(o, fs[o]["leaf"], fs[o]["new"], fs[o]["bak"], fs[o]["delc"], "none")
    BY <1>2, <1>11, <1>f, <1>n, ChangedFacts, UnlinkFacts DEF Becomes, Forgets
  <2>2. Fresh(o) /\ pc \in {"finish", "forward"} /\ idx = o
    BY <1>11 DEF Forgets, DeleteBackup
  <2> QED BY <2>1, <2>2 DEF Turned, TurnForget
<1>12. ASSUME NEW o \in Ops, QuarantineBackup(o), Moves(o, "bak", "delb"), Fresh(o)
       PROVE  Alone(o) /\ Turned(o)
  <2>1. Alone(o) /\ took' = took
           /\ Becomes(o, fs[o]["leaf"], fs[o]["new"], "none", fs[o]["delc"], fs[o]["bak"])
    BY <1>2, <1>12, <1>n, ChangedFacts DEF Becomes
  <2> QED BY <1>12, <2>1 DEF Turned, TurnShelve, QuarantineBackup
<1>13. ASSUME NEW o \in Ops, QuarantineNew(o), Moves(o, "new", "delc"), Fresh(o)
       PROVE  Alone(o) /\ Turned(o)
  <2>1. Alone(o) /\ took' = took
           /\ Becomes(o, fs[o]["leaf"], "none", fs[o]["bak"], fs[o]["new"], fs[o]["delb"])
    BY <1>2, <1>13, <1>n, ChangedFacts DEF Becomes
  <2>2. Undo(o) = "quarantine-new" /\ pc \in {"rollback", "back"} /\ idx = o
    BY <1>13 DEF QuarantineNew, Undoing
  <2>3. fs[o]["new"] = "next" /\ fs[o]["delc"] = "none" /\ mem[o].created
    BY <1>k, <2>2, UndoFacts
  <2> QED BY <1>13, <2>1, <2>2, <2>3 DEF Turned, TurnNew
<1>14. ASSUME NEW o \in Ops, QuarantineLeaf(o), fs[o]["leaf"] # "none", Moves(o, "leaf", "delc"),
              Fresh(o)
       PROVE  Alone(o) /\ Turned(o)
  <2>1. Alone(o) /\ took' = took
           /\ Becomes(o, "none", fs[o]["new"], fs[o]["bak"], fs[o]["leaf"], fs[o]["delb"])
    BY <1>2, <1>14, <1>n, ChangedFacts DEF Becomes
  <2>2. pc \in {"rollback", "back"} /\ idx = o /\ at = "created"
    BY <1>14 DEF QuarantineLeaf
  <2>3. mem[o].created
    BY <1>2, <2>2 DEF Scheduled, UndoAt
  <2> QED BY <1>14, <2>1, <2>2, <2>3 DEF Turned, TurnLeaf
<1>15. ASSUME NEW o \in Ops, Edits(o) PROVE Alone(o) /\ Turned(o)
  <2>1. PICK v \in {"none", "foreign"} : Changed(o, [fs[o] EXCEPT !["leaf"] = v])
    BY <1>15 DEF Edits
  <2>2. Alone(o) /\ Becomes(o, v, fs[o]["new"], fs[o]["bak"], fs[o]["delc"], fs[o]["delb"])
    <3> DEFINE f == [fs[o] EXCEPT !["leaf"] = v]
    <3>1. f["leaf"] = v /\ \A n \in Names \ {"leaf"} : f[n] = fs[o][n]
      BY <1>f, <1>n DEF Listing
    <3>2. Alone(o) /\ fs'[o] = f
      BY <1>2, <2>1, ChangedFacts
    <3> QED BY <1>n, <3>1, <3>2 DEF Becomes
  <2>3. Reached(o) /\ Emptied(o) /\ o \in took' /\ took \subseteq took'
           /\ UNCHANGED <<local, journal, catalog>>
    BY <1>15 DEF Edits, Edit
  <2>4. Edit(o) /\ cuts = 0 /\ Fresh(o)
    BY <1>15 DEF Edits
  <2> QED BY <2>2, <2>3, <2>4 DEF Turned, TurnEdit
<1> QED
  BY <1>1, <1>3, <1>4, <1>6, <1>7, <1>8, <1>9, <1>10, <1>11, <1>12, <1>13, <1>14, <1>15 DEF Shape
-----------------------------------------------------------------------------
\* The inductive invariant, in parts.

\* The object that a private name stands for is known to every journal that may
\* come back.
CoveredBy(o, f, j) ==
  /\ f["bak"] # "none" => j # NoJournal /\ j[o].backup # "none"
  /\ plan[o].kind = "file" /\ f["new"] # "none" => j # NoJournal /\ j[o].created
\* That holds for every listing and every journal that may be left.
Covering == \A o \in Ops : \A f \in Left(o), j \in jdur : CoveredBy(o, f, j)

\* Which names of a target can be in use together.
NamedWell(o, f) ==
  /\ plan[o].seen = "none" => f["bak"] = "none" /\ f["delb"] = "none"
  /\ f["bak"] # "next"
  /\ f["delb"] # "none" => f["bak"] = "none"
  /\ plan[o].kind \in Canonical => ~(f["leaf"] = "next" /\ f["new"] = "next")
\* That holds for every listing that may be left.
Named == \A o \in Ops : \A f \in Left(o) : NamedWell(o, f)

\* Where nobody else changed a target there is only what was seen and made.
Mine ==
  /\ cuts > 0 => took = {}
  /\ \A o \in Ops \ took : \A f \in Left(o), n \in Names :
       f[n] # "foreign" /\ (f[n] = "prior" => plan[o].seen = "prior")

\* The next catalog is not selected yet, or may turn out not to be.
SomePrev == \E c \in LeftCat : c.cur = "prev"

\* The prior object is at its leaf or its backup name while recovery may still
\* have to roll back.
Preserving ==
  SomePrev => \A o \in Ops \ took : plan[o].seen = "prior"
     => \A f \in Left(o) : "prior" \in {f["leaf"], f["bak"]}
\* A leaf that the transaction placed has its identity in every journal that may
\* come back.
CreatedFirst ==
  SomePrev => \A o \in Ops : \A f \in Left(o), j \in jdur : f["leaf"] = "next" => j # NoJournal
     /\ j[o].created

\* What the process compared before it acts on it.
Compared ==
  /\ at \in {"rename", "placed", "created", "leaf"} => idx \in Ops
  /\ at = "rename" => fs[idx]["leaf"] # "next" /\ (idx \notin took => fs[idx]["leaf"] = "prior")
  /\ at = "placed" /\ idx \notin took /\ plan[idx].seen = "prior" => fs[idx]["bak"] = "prior"
  /\ at = "created" => fs[idx]["delc"] = "none" /\ (idx \notin took => fs[idx]["leaf"] = "next")
  /\ at \in {"created", "leaf"} => fs[idx]["new"] = "none"
  /\ at = "leaf" => fs[idx]["leaf"] # "next" /\ (idx \notin took => fs[idx]["leaf"] = "none")

\* The mutation keeps its journal ahead of its targets.
Ahead(o) == o > idx \/ (o = idx /\ at \in {"", "staged", "recorded"})
\* While the plan is being applied nothing is in quarantine, and a canonical
\* target's backup is identified before anything else happens to it.
Applying ==
  pc \in Mutating =>
    /\ \A o \in Ops : /\ fs[o]["leaf"] = "next" => mem[o].created
                      /\ fs[o]["delc"] = "none" /\ fs[o]["delb"] = "none"
    /\ \A o \in Of(Canonical) :
         /\ fs[o]["bak"] # "none" /\ ~(pc = "serial" /\ idx = o /\ at = "moved")
               => mem[o].backup = "identified"
         /\ pc = "serial" /\ Ahead(o) => mem[o].backup = "none"

\* What is in a directory of the plan is there only as long as the directory is.
Housed ==
  \A o \in Ops : Nested(o) =>
    /\ fs[o] # NoNames => "next" \in {fs[Dir(o)]["leaf"], fs[Dir(o)]["delc"]}
    /\ \A f \in Left(o), g \in Left(Dir(o)) : f # NoNames => g["new"] # "next"
    /\ pc # "dark" /\ fs[o] = NoNames => Left(o) = {NoNames}

\* What is not on disk: backups are, before what replaces them is placed.
Synced ==
  /\ pc # "dark" => \A o \in Ops : fs[o]["bak"] = "none" => \A f \in Left(o) : f["bak"] = "none"
  /\ pc \in Mutating => \A o \in Of(Canonical) :
       fs[o]["leaf"] = "next" /\ ~(pc = "serial" /\ idx = o) => Left(o) = {fs[o]}
  /\ pc = "place" => \A o \in Backed : plan[o].kind = "remove" => Left(o) = {fs[o]}

\* Nothing of the transaction is left at o, and the leaf is as it was.
Tidy(o) == \A f \in Left(o) : f["bak"] = "none" /\ (plan[o].kind = "file" => f["new"] = "none")
\* The leaf is not the transaction's and, where nobody else was, as it was seen.
Reverted(o) == \A f \in Left(o) : f["leaf"] # "next" /\ (o \notin took => f["leaf"] = plan[o].seen)

\* o goes with its directory, which is in quarantine.
Pending(o) == Nested(o) /\ Dir(o) <= idx /\ fs[Dir(o)]["delc"] = "next"

\* A rollback has reverted what it has behind it, or will with its directory.
Undone ==
  /\ pc = "rollback" => \A o \in Ops : fs[o]["delc"] # "none" => mem[o].created
  /\ pc = "back" \/ (pc = "rollback" /\ err = "error") =>
       \A o \in Ops : o > idx => (Tidy(o) /\ Reverted(o)) \/ Pending(o)
\* finish_incomplete has removed the backups that it has behind it.
Finished ==
  pc \in {"finish", "forward"} =>
    /\ \A o \in ToFinish : o < idx => Tidy(o)
    /\ at = "delete" => Tidy(idx)
\* Before the journal goes, everything is finished or undone.
Done == pc \in {"clean", "unjournal"} => \A o \in Ops : Tidy(o) /\ (cat.cur = "prev" => Reverted(o))

\* The targets are what the plan makes of them by the time the catalog may say so ...
Deployed == pc \in {"publish", "exchange"} \/ \E c \in LeftCat : c.cur = "next"
\* The targets are what the plan makes of them, on disk as well.
Verified == Deployed => \A o \in Ops \ took : \A f \in Left(o) : f["leaf"] = Goal(o)

\* ... and what they were by the time that the journal may be gone.
Closed == ~Journaled /\ SomePrev => \A o \in Ops : Reverted(o)

-----------------------------------------------------------------------------
\* No journal that may come back has lost a record.
Keeps == \A j \in jdur' : \E i \in jdur : i = NoJournal \/ (j # NoJournal /\ Grows(i, j))

\* Only remove_journal takes records away.
LEMMA JournalKept ==
  ASSUME Base, [Next]_vars, ~RemoveJournal
  PROVE  Keeps
<1>0. PlanOK /\ StoreType /\ Controlled /\ ControlType
  BY DEF Base
<1>1. ASSUME jdur' \subseteq jdur PROVE Keeps
  BY <1>1 DEF Keeps, Grows
<1>2. ASSUME NoJournal \in jdur PROVE Keeps
  BY <1>2 DEF Keeps
<1>3. ASSUME NEW m \in Journals, NEW p, NEW i, NEW x, SaveJournal(m, p, i, x), pc \in Mutating,
             Grows(mem, m)
      PROVE  Keeps
  <2>1. jdur = {jrn} /\ mem = jrn /\ m # NoJournal
    BY <1>0, <1>3, PlanFacts DEF Controlled, Steps
  <2>2. jdur' \subseteq {jrn, m}
    BY <1>3, <2>1, SaveFacts DEF Saved
  <2>3. jrn # NoJournal /\ Grows(mem, mem)
    BY <1>0, <1>3 DEF Controlled, Mutating, Grows
  <2> QED BY <1>3, <2>1, <2>2, <2>3 DEF Keeps
<1>4. ASSUME NEW S, NEW b \in {"intent", "identified"}, pc \in Mutating
      PROVE  /\ Created(mem, S) \in Journals /\ Grows(mem, Created(mem, S))
             /\ Backup(mem, S, b) \in Journals /\ Grows(mem, Backup(mem, S, b))
  <2>1. mem \in Journals
    BY <1>0, <1>4, PlanFacts DEF StoreType, Controlled, NoMem, Mutating
  <2>2. /\ Created(mem, S) \in Journals /\ Backup(mem, S, b) \in Journals
        /\ \A o \in Ops : /\ Created(mem, S)[o].created <=> (mem[o].created \/ o \in S)
                          /\ Created(mem, S)[o].backup = mem[o].backup
                          /\ Backup(mem, S, b)[o].created <=> mem[o].created
                          /\ Backup(mem, S, b)[o].backup = IF o \in S THEN b ELSE mem[o].backup
    BY <2>1, JournalFacts
  <2> QED BY <2>2 DEF Grows
<1>5. UNCHANGED journal => Keeps
  BY <1>1 DEF journal
<1>p. {"serial", "link", "move", "place"} = Mutating
  BY DEF Mutating
<1>11. ASSUME NEW o \in Ops, SerialStep(o) PROVE Keeps
  <2>1. CASE SerialRecord(o)
    BY <2>1, <1>3, <1>4, <1>p DEF SerialRecord
  <2>2. CASE SerialIntent(o)
    BY <2>2, <1>3, <1>4, <1>5, <1>p DEF SerialIntent
  <2>3. CASE SerialIdentify(o)
    BY <2>3, <1>3, <1>4, <1>5, <1>p DEF SerialIdentify
  <2> QED BY <1>11, <1>5, <2>1, <2>2, <2>3
       DEF SerialStep, AssertAbsent, SerialStage, CheckSource, MoveAside, Place, Placed, Unplace,
       Link
<1>12. CASE StageFiles
  BY <1>12, <1>3, <1>4, <1>5, <1>p DEF StageFiles
<1>13. CASE PinSources
  BY <1>13, <1>3, <1>4, <1>5, <1>p DEF PinSources
<1>14. CASE IdentifyBackups
  BY <1>14, <1>3, <1>4, <1>5, <1>p DEF IdentifyBackups
<1>15. CASE Begin
  BY <1>0, <1>15, <1>2 DEF Begin, StoreType
<1>16. CASE PowerLoss
  BY <1>16, <1>1 DEF PowerLoss
<1>17. ASSUME NEW o \in Ops, FinishStep(o) \/ UndoStep(o) \/ Edit(o) PROVE UNCHANGED journal
  BY <1>17 DEF FinishStep, UndoStep, Edit, FinishRefuses, QuarantineBackup, DeleteBackup,
     FinishNext, UndoSkip,
     UndoRefuses, UndoDone, QuarantineNew, CheckCreated, QuarantineLeaf, DeleteCreated,
     RestoreBackup
<1>18. VerifyApplied \/ StageCatalog \/ ExchangeCatalog \/ UnstageCatalog \/ FinishDone
          \/ RollbackDone
       \/ RecoverRolledBack \/ CleanCatalog \/ Recover \/ Kill \/ IoError \/ UNCHANGED vars
             => UNCHANGED journal
  BY DEF VerifyApplied, StageCatalog, ExchangeCatalog, UnstageCatalog, SaveCatalog, FinishDone,
     RollbackDone,
     RecoverRolledBack, CleanCatalog, Recover, Kill, IoError, vars, journal
<1> QED BY <1>5, <1>11, <1>12, <1>13, <1>14, <1>15, <1>16, <1>17, <1>18 DEF Next, Work, Environment

\* Which catalog is selected where the process is.
LEMMA PrevNow ==
  ASSUME Base
  PROVE  /\ pc \in Mutating \cup {"publish", "exchange", "rollback", "back"} => SomePrev
               /\ cat.cur = "prev"
         /\ pc \in {"unstage", "finish", "forward"} => ~SomePrev /\ cat.cur = "next"
         /\ cat.cur = "prev" => SomePrev
         /\ cat \in LeftCat /\ \A c \in LeftCat : c.cur \in {"prev", "next"}
         /\ SomePrev /\ pc # "dark" => cat.cur = "prev" /\ ~(\E c \in LeftCat : c.cur = "next")
<1>1. cat \in LeftCat /\ \A c \in LeftCat : c.cur \in {"prev", "next"}
  BY DEF Base, StoreType, LeftCat, Catalogs
<1>2. pc # "dark" => LeftCat = {cat}
  BY DEF Base, Selected
<1>3. /\ pc \in Mutating \cup {"publish", "exchange", "rollback", "back"} => cat.cur = "prev"
            /\ pc # "dark"
      /\ pc \in {"unstage", "finish", "forward"} => cat.cur = "next" /\ pc # "dark"
  BY CatFields DEF Base, Selected, CatFor, Mutating
<1> QED BY <1>1, <1>2, <1>3 DEF SomePrev

\* Which steps change the catalog, and to what.
LEMMA CatalogKept ==
  ASSUME Base, [Next]_vars
  PROVE  \/ cuts' = cuts /\ UNCHANGED catalog
         \/ LeftCat' \subseteq LeftCat
         \/ /\ cuts' = cuts /\ UNCHANGED <<target, journal, took>>
                  /\ LeftCat' \subseteq LeftCat \cup {cat'}
            /\ cuts = 0 => LeftCat' = {cat'}
            /\ \/ pc \in {"publish", "clean"} /\ cat'.cur = cat.cur
               \/ pc \in {"exchange", "unstage"} /\ cat'.cur = "next"
<1> DEFINE Saves ==
  /\ cuts' = cuts /\ UNCHANGED <<target, journal, took>> /\ LeftCat' \subseteq LeftCat \cup {cat'}
  /\ cuts = 0 => LeftCat' = {cat'}
<1>1. ASSUME NEW c, NEW p, NEW i, SaveCatalog(c, p, i)
      PROVE  Saves /\ cat' = c
  <2>1. cuts' = cuts /\ took' = took
    BY <1>1, DieFacts DEF SaveCatalog, Goto, Dead, budget
  <2> QED BY <1>1, <2>1 DEF SaveCatalog, LeftCat
<1>2. CASE StageCatalog \/ ExchangeCatalog \/ UnstageCatalog
  <2>1. CatAt("prev", "next").cur = "prev" /\ CatAt("next", "prev").cur = "next"
           /\ CatAt("next", "none").cur = "next"
    BY CatFields
  <2>2. pc = "publish" => cat.cur = "prev"
    BY PrevNow
  <2> QED BY <1>1, <1>2, <2>1, <2>2 DEF StageCatalog, ExchangeCatalog, UnstageCatalog
<1>3. CASE CleanCatalog
  <2>1. cuts' = cuts /\ took' = took
    BY <1>3, DieFacts DEF CleanCatalog, Goto, Dead, budget
  <2>2. CASE UNCHANGED catalog
    BY <2>1, <2>2
  <2>3. CASE cat' = CatAt(cat.cur, "none") /\ cdur' \in {{cat'}, cdur \cup {cat'}}
    <3>1. cat'.cur = cat.cur
      BY <2>3, CatFields
    <3>2. UNCHANGED <<target, journal>> /\ pc = "clean"
      BY <1>3 DEF CleanCatalog
    <3> QED BY <2>1, <2>3, <3>1, <3>2 DEF LeftCat
  <2> QED BY <1>3, <2>2, <2>3 DEF CleanCatalog
<1>4. CASE PowerLoss
  <2>1. cuts \in Nat /\ cuts > 0
    BY <1>4 DEF PowerLoss, Base, ControlType
  <2>2. LeftCat' = {cat'} /\ cat' \in cdur
    BY <1>4 DEF PowerLoss, LeftCat
  <2>3. cuts # 0
    BY <2>1
  <2> QED BY <2>2, <2>3 DEF LeftCat
<1>5. ~PowerLoss => cuts' = cuts
  BY Spending DEF Spent
<1>6. ASSUME NEW o \in Ops, SerialStep(o) PROVE UNCHANGED catalog
  BY <1>6 DEF SerialStep, AssertAbsent, SerialStage, SerialRecord, SerialIntent, CheckSource,
     MoveAside,
     SerialIdentify, Place, Placed, Unplace, Link
<1>7. ASSUME NEW o \in Ops, FinishStep(o) \/ UndoStep(o) \/ Edit(o) PROVE UNCHANGED catalog
  BY <1>7 DEF FinishStep, UndoStep, Edit, FinishRefuses, QuarantineBackup, DeleteBackup,
     FinishNext, UndoSkip,
     UndoRefuses, UndoDone, QuarantineNew, CheckCreated, QuarantineLeaf, DeleteCreated,
     RestoreBackup
<1>8. StageFiles \/ PinSources \/ IdentifyBackups \/ VerifyApplied \/ FinishDone \/ RollbackDone
       \/ RecoverRolledBack \/ RemoveJournal \/ Begin \/ Recover \/ Kill \/ IoError
             \/ UNCHANGED vars => UNCHANGED catalog
  BY DEF StageFiles, PinSources, IdentifyBackups, VerifyApplied, FinishDone, RollbackDone,
     RecoverRolledBack, RemoveJournal, Begin, Recover, Kill, IoError, vars, catalog
<1> QED BY <1>2, <1>3, <1>4, <1>5, <1>6, <1>7, <1>8 DEF Next, Work, Environment

\* Once the next catalog is selected for good it stays selected.
LEMMA PrevKept ==
  ASSUME Base, [Next]_vars
  PROVE  SomePrev' => SomePrev
<1>1. CASE cuts' = cuts /\ UNCHANGED catalog
  BY <1>1 DEF SomePrev, LeftCat, catalog
<1>2. CASE LeftCat' \subseteq LeftCat
  BY <1>2 DEF SomePrev
<1>3. CASE LeftCat' \subseteq LeftCat \cup {cat'} /\ (cat'.cur = cat.cur \/ cat'.cur = "next")
  BY <1>3, PrevNow DEF SomePrev
<1> QED BY <1>1, <1>2, <1>3, CatalogKept
-----------------------------------------------------------------------------
\* What a loss of power leaves of a target is a listing that may be left; in a
\* directory that is lost, nothing.
LEMMA PowerLossFacts ==
  ASSUME Base, PowerLoss
  PROVE  /\ cuts > 0 /\ cuts # 0 /\ took' = took /\ pc' = "down" /\ at' = ""
         /\ jrn' \in jdur /\ jdur' = {jrn'} /\ cat' \in LeftCat /\ LeftCat' = {cat'}
         /\ \A o \in Ops : /\ Left(o)' = {fs'[o]} /\ fs'[o] \in Left(o) \cup {NoNames}
                           /\ Nested(o) \/ fs'[o] \in Left(o)
                           /\ \/ fs'[o] \in Left(o) /\ (Nested(o)
                                      => \E n \in Names : fs'[Dir(o)][n] = "next")
                              \/ ~Nested(o)
                              \/ fs'[o] = NoNames /\ \A n \in Names : fs'[Dir(o)][n] # "next"
<1>0. PlanOK /\ cuts \in Nat
  BY DEF Base, ControlType
<1>1. cuts > 0 /\ took' = took /\ pc' = "down" /\ at' = ""
      /\ jrn' \in jdur /\ jdur' = {jrn'} /\ cat' \in cdur /\ cdur' = {cat'}
  BY DEF PowerLoss, Gone
<1>2. cuts # 0
  <2>1. cuts \in Nat
    BY <1>0
  <2>2. cuts > 0
    BY <1>1
  <2> QED BY <2>1, <2>2
<1>3. PICK f \in [Ops -> UNION {disk[o] : o \in Ops}] :
         /\ \A o \in Ops : f[o] \in disk[o]
         /\ fs' = [o \in Ops |-> IF Drowned(f, o) THEN NoNames ELSE f[o]]
         /\ disk' = [o \in Ops |-> {fs'[o]}]
  BY DEF PowerLoss
<1>4. \A o \in Ops : Left(o) = disk[o] /\ Left(o)' = {fs'[o]}
  BY <1>2, <1>3 DEF Left
<1>5. \A o \in Ops : ~Nested(o) => ~Drowned(f, o)
  BY DEF Nested, Drowned
<1>6. \A o \in Ops : Nested(o) => Dir(o) \in Ops /\ fs'[Dir(o)] = f[Dir(o)]
  <2>1. \A o \in Ops : Nested(o) => Dir(o) \in Ops /\ ~Nested(Dir(o))
    BY <1>0, NestedFacts
  <2> QED BY <1>3, <1>5, <2>1
<1>7. \A o \in Ops : Nested(o) => (Drowned(f, o) <=> \A n \in Names : fs'[Dir(o)][n] # "next")
  BY <1>6 DEF Drowned, Nested, Dir
<1>8. \A o \in Ops : fs'[o] = IF Drowned(f, o) THEN NoNames ELSE f[o]
  BY <1>3
<1>9. \A o \in Ops : f[o] \in Left(o)
  BY <1>3, <1>4
<1>10. \A o \in Ops : /\ fs'[o] \in Left(o) \cup {NoNames} /\ (Nested(o) \/ fs'[o] \in Left(o))
                      /\ \/ fs'[o] \in Left(o) /\ (Nested(o)
                                 => \E n \in Names : fs'[Dir(o)][n] = "next")
                         \/ ~Nested(o)
                         \/ fs'[o] = NoNames /\ \A n \in Names : fs'[Dir(o)][n] # "next"
  BY <1>5, <1>7, <1>8, <1>9
<1>11. LeftCat' = {cat'} /\ cat' \in LeftCat
  BY <1>1, <1>2 DEF LeftCat
<1> QED BY <1>1, <1>2, <1>4, <1>10, <1>11

\* What becomes of the listings of one target that may be left.
Turn(o) ==
  \/ Left(o)' \subseteq Left(o)
  \/ Nested(o) /\ Left(o)' = {NoNames}
  \/ Left(o)' \subseteq Left(o) \cup {fs'[o]} /\ Turned(o)

\* What may be left of one target after a step.
LEMMA Turning ==
  ASSUME Base, Accepted, [Next]_vars
  PROVE  /\ took \subseteq took' /\ \A o \in Ops : Turn(o) /\ fs[o] \in Left(o)
<1>1. \A o \in Ops : fs[o] \in Left(o)
  BY LeftNow DEF Base
<1>2. took \subseteq took'
  BY Spending DEF Spent, Edit
<1>3. Still => \A o \in Ops : Turn(o)
  BY DEF Still, Turn
<1>4. PowerLoss => \A o \in Ops : Turn(o)
  BY PowerLossFacts DEF Turn
<1>5. ASSUME NEW q \in Ops, Alone(q), Turned(q) PROVE \A o \in Ops : Turn(o)
  BY <1>5 DEF Turn, Alone
<1> QED BY <1>1, <1>2, <1>3, <1>4, <1>5, Turns

\* A target without names.
LEMMA NoNamesFacts ==
  NoNames \in Listing /\ \A n \in Names : NoNames[n] = "none"
BY DEF NoNames, Listing, Objects, Names

\* The plan and its schedules stay.
LEMMA PlanNext ==
  ASSUME Base, [Next]_vars
  PROVE  /\ plan' = plan /\ Ops' = Ops /\ N' = N /\ Backed' = Backed /\ Files' = Files
               /\ \A K : Of(K)' = Of(K)
         /\ \A o : Goal(o)' = Goal(o)
BY PlanStays, PlanFixed

\* While the plan is being applied the journal in memory is the one on disk.
LEMMA MutatingFacts ==
  ASSUME Base, pc \in Mutating
  PROVE  jdur = {mem} /\ jrn = mem /\ mem # NoJournal /\ mem \in Journals
<1>1. pc \in Steps /\ pc \notin {"down", "dark"}
  BY DEF Steps, Mutating
<1>2. jdur = {jrn} /\ mem = jrn /\ jrn # NoJournal
  BY <1>1 DEF Base, Controlled
<1> QED BY <1>2 DEF Base, StoreType, NoMem

\* Every step keeps Named.
LEMMA NamedStep ==
  ASSUME Base, Accepted, Named, Compared, Applying, [Next]_vars
  PROVE  Named'
<1>0. plan' = plan /\ Ops' = Ops /\ \A o \in Ops : Turn(o) /\ fs[o] \in Left(o)
  BY PlanNext, Turning
<1> SUFFICES ASSUME NEW o \in Ops, NEW f \in Left(o)' PROVE NamedWell(o, f)
  BY <1>0 DEF Named, NamedWell
<1>1. f \in Left(o) => NamedWell(o, f)
  BY DEF Named
<1>2. f = NoNames => NamedWell(o, f)
  BY NoNamesFacts DEF NamedWell, Names
<1>3. NamedWell(o, fs[o]) /\ plan[o].seen \in {"none", "prior"}
  BY <1>0, PlanFacts DEF Named, Base
<1>4. ASSUME f = fs'[o], TurnStage(o) PROVE NamedWell(o, f)
  BY <1>3, <1>4 DEF NamedWell, TurnStage, Becomes
<1>5. ASSUME f = fs'[o], TurnAside(o) PROVE NamedWell(o, f)
  <2>1. fs[o]["leaf"] # "next"
    BY <1>5 DEF TurnAside, Compared
  <2>2. fs[o]["delb"] = "none"
    BY <1>5 DEF TurnAside, Applying, Mutating
  <2> QED BY <1>3, <1>5, <2>1, <2>2 DEF NamedWell, TurnAside, Becomes
<1>6. ASSUME f = fs'[o], TurnPlace(o) \/ TurnDisplace(o) \/ TurnRestore(o) \/ TurnDelete(o)
               \/ TurnPutBack(o)
      PROVE  NamedWell(o, f)
  BY <1>3, <1>6 DEF NamedWell, TurnPlace, TurnDisplace, TurnRestore, TurnDelete, TurnPutBack,
     Becomes
<1>7. ASSUME f = fs'[o], TurnForget(o) \/ TurnShelve(o) \/ TurnNew(o) \/ TurnLeaf(o) \/ TurnEdit(o)
      PROVE  NamedWell(o, f)
  BY <1>3, <1>7 DEF NamedWell, TurnForget, TurnShelve, TurnNew, TurnLeaf, TurnEdit, Becomes
<1> QED BY <1>0, <1>1, <1>2, <1>4, <1>5, <1>6, <1>7 DEF Turn, Turned

\* Every step keeps Mine.
LEMMA MineStep ==
  ASSUME Base, Accepted, Mine, [Next]_vars
  PROVE  Mine'
<1>0. plan' = plan /\ Ops' = Ops /\ took \subseteq took' /\ \A o \in Ops : Turn(o)
         /\ fs[o] \in Left(o)
  BY PlanNext, Turning
<1>1. cuts' > 0 => took' = {}
  <2>1. cuts \in Nat /\ Spent
    BY Spending DEF Base, ControlType
  <2>2. cuts' > 0 => cuts > 0
    BY <2>1 DEF Spent
  <2>3. cuts > 0 => ~(\E o \in Ops : Edit(o))
    BY ApartFacts DEF Base, Edit
  <2> QED BY <2>1, <2>2, <2>3 DEF Spent, Mine
<1> DEFINE Pure(o, f) == \A n \in Names : f[n] # "foreign"
   /\ (f[n] = "prior" => plan[o].seen = "prior")
<1>2. ASSUME NEW o \in Ops \ took', NEW f \in Left(o)' PROVE Pure(o, f)
  <2>0. o \in Ops /\ o \notin took
    BY <1>0
  <2>1. f \in Left(o) => Pure(o, f)
    BY <2>0 DEF Mine
  <2>2. f = NoNames => Pure(o, f)
    BY NoNamesFacts
  <2>3. Pure(o, fs[o])
    BY <1>0, <2>0 DEF Mine
  <2>n. Names = {"leaf", "new", "bak", "delc", "delb"}
    BY DEF Names
  <2>4. ASSUME f = fs'[o], TurnStage(o) \/ TurnAside(o) \/ TurnPlace(o) \/ TurnDisplace(o)
                 \/ TurnRestore(o)
        PROVE  Pure(o, f)
    BY <2>3, <2>4, <2>n DEF TurnStage, TurnAside, TurnPlace, TurnDisplace, TurnRestore, Becomes
  <2>5. ASSUME f = fs'[o], TurnDelete(o) \/ TurnPutBack(o) \/ TurnForget(o) \/ TurnShelve(o)
                 \/ TurnNew(o) \/ TurnLeaf(o)
        PROVE  Pure(o, f)
    BY <2>3, <2>5, <2>n DEF TurnDelete, TurnPutBack, TurnForget, TurnShelve, TurnNew, TurnLeaf,
       Becomes
  <2>6. ~TurnEdit(o)
    BY DEF TurnEdit
  <2> QED BY <1>0, <2>0, <2>1, <2>2, <2>4, <2>5, <2>6 DEF Turn, Turned
<1> QED BY <1>0, <1>1, <1>2 DEF Mine

\* Every step keeps Covering, the write-ahead rule: an intent is durable before
\* the rename that needs it, and the journal is removed only when no private name
\* needs it any more (Done).
LEMMA CoveringStep ==
  ASSUME Base, Accepted, Covering, Done, [Next]_vars
  PROVE  Covering'
<1>0. plan' = plan /\ Ops' = Ops /\ \A o \in Ops : Turn(o) /\ fs[o] \in Left(o)
  BY PlanNext, Turning
<1> SUFFICES ASSUME NEW o \in Ops, NEW f \in Left(o)', NEW j \in jdur' PROVE CoveredBy(o, f, j)
  BY <1>0 DEF Covering, CoveredBy
<1>1. CASE RemoveJournal
  <2>1. f \in Left(o) /\ pc = "unjournal"
    BY <1>1, DieFacts DEF RemoveJournal, target, Left, Exit, Dead, budget
  <2> QED BY <2>1 DEF Done, Tidy, CoveredBy
<1>2. CASE ~RemoveJournal
  <2>1. PICK i \in jdur : i = NoJournal \/ (j # NoJournal /\ Grows(i, j))
    BY <1>2, JournalKept DEF Keeps
  <2>2. \A g \in Left(o) : CoveredBy(o, g, i) /\ CoveredBy(o, g, j)
    BY <2>1 DEF Covering, CoveredBy, Grows
  <2>3. f = NoNames => CoveredBy(o, f, j)
    BY NoNamesFacts DEF CoveredBy, Names
  <2>4. CoveredBy(o, fs[o], j)
    BY <1>0, <2>2
  <2>5. pc \in Mutating => /\ mem[o].created => j # NoJournal /\ j[o].created
                           /\ mem[o].backup # "none" => j # NoJournal /\ j[o].backup # "none"
    <3>1. pc \in Mutating => i = mem /\ i # NoJournal
      BY MutatingFacts
    <3> QED BY <2>1, <3>1 DEF Grows
  <2>p. {"serial", "link", "move", "place"} = Mutating
    BY DEF Mutating
  <2>6. ASSUME f = fs'[o], TurnStage(o) \/ TurnAside(o) PROVE CoveredBy(o, f, j)
    BY <2>4, <2>5, <2>6, <2>p DEF TurnStage, TurnAside, Becomes, CoveredBy
  <2>7. ASSUME f = fs'[o], TurnPlace(o) \/ TurnDisplace(o) \/ TurnRestore(o)
        PROVE  CoveredBy(o, f, j)
    BY <2>4, <2>5, <2>7, <2>p DEF TurnPlace, TurnDisplace, TurnRestore, Becomes, CoveredBy
  <2>8. ASSUME f = fs'[o], TurnDelete(o) \/ TurnPutBack(o) \/ TurnForget(o) \/ TurnShelve(o)
                 \/ TurnNew(o) \/ TurnLeaf(o) \/ TurnEdit(o)
        PROVE  CoveredBy(o, f, j)
    BY <2>4, <2>8 DEF TurnDelete, TurnPutBack, TurnForget, TurnShelve, TurnNew, TurnLeaf, TurnEdit,
       Becomes, CoveredBy
  <2> QED BY <1>0, <2>2, <2>3, <2>6, <2>7, <2>8 DEF Turn, Turned
<1> QED BY <1>1, <1>2

\* Every step keeps Preserving: a backup is deleted only by finish_incomplete,
\* under the next catalog.
LEMMA PreservingStep ==
  ASSUME Base, Accepted, Mine, Compared, Preserving, [Next]_vars
  PROVE  Preserving'
<1>0. plan' = plan /\ Ops' = Ops /\ took \subseteq took' /\ \A o \in Ops : Turn(o)
         /\ fs[o] \in Left(o)
  BY PlanNext, Turning
<1> SUFFICES ASSUME SomePrev', NEW o \in Ops \ took', plan[o].seen = "prior", NEW f \in Left(o)'
             PROVE  "prior" \in {f["leaf"], f["bak"]}
  BY <1>0 DEF Preserving
<1>1. o \in Ops /\ o \notin took /\ SomePrev
  BY <1>0, PrevKept
<1>2. \A g \in Left(o) : "prior" \in {g["leaf"], g["bak"]}
  BY <1>1 DEF Preserving
<1>3. "prior" \in {fs[o]["leaf"], fs[o]["bak"]}
  BY <1>0, <1>2
<1>4. ~Nested(o)
  BY <1>1, NestedFacts DEF Base
<1>5. ASSUME f = fs'[o], TurnStage(o) \/ TurnPlace(o) \/ TurnRestore(o) \/ TurnDelete(o)
               \/ TurnPutBack(o) \/ TurnForget(o) \/ TurnNew(o)
      PROVE  "prior" \in {f["leaf"], f["bak"]}
  BY <1>3, <1>5 DEF TurnStage, TurnPlace, TurnRestore, TurnDelete, TurnPutBack, TurnForget,
     TurnNew, Becomes
<1>6. ASSUME f = fs'[o], TurnAside(o) \/ TurnDisplace(o) \/ TurnLeaf(o)
      PROVE  "prior" \in {f["leaf"], f["bak"]}
  BY <1>1, <1>3, <1>6 DEF TurnAside, TurnDisplace, TurnLeaf, Becomes, Compared
<1>7. ~TurnShelve(o) /\ ~TurnEdit(o)
  BY <1>1, PrevNow DEF TurnShelve, TurnEdit
<1> QED BY <1>0, <1>1, <1>2, <1>4, <1>5, <1>6, <1>7 DEF Turn, Turned

\* Every step keeps CreatedFirst.
LEMMA CreatedFirstStep ==
  ASSUME Base, Accepted, Named, Done, CreatedFirst, [Next]_vars
  PROVE  CreatedFirst'
<1>0. Ops' = Ops /\ \A o \in Ops : Turn(o) /\ fs[o] \in Left(o)
  BY PlanNext, Turning
<1> SUFFICES ASSUME SomePrev', NEW o \in Ops, NEW f \in Left(o)', NEW j \in jdur',
   f["leaf"] = "next"
             PROVE  j # NoJournal /\ j[o].created
  BY <1>0 DEF CreatedFirst
<1>p. SomePrev
  BY PrevKept
<1>1. CASE RemoveJournal
  <2>1. f \in Left(o) /\ pc = "unjournal"
    BY <1>1, DieFacts DEF RemoveJournal, target, Left, Exit, Dead, budget
  <2>2. cat.cur = "prev"
    BY <1>p, <2>1, PrevNow
  <2> QED BY <2>1, <2>2 DEF Done, Reverted
<1>2. CASE ~RemoveJournal
  <2>1. PICK i \in jdur : i = NoJournal \/ (j # NoJournal /\ Grows(i, j))
    BY <1>2, JournalKept DEF Keeps
  <2>2. ASSUME NEW g \in Left(o), g["leaf"] = "next" PROVE j # NoJournal /\ j[o].created
    BY <1>p, <2>1, <2>2 DEF CreatedFirst, Grows
  <2>3. f # NoNames
    BY NoNamesFacts DEF Names
  <2>4. NamedWell(o, fs[o])
    BY <1>0 DEF Named
  <2>5. ASSUME f = fs'[o], TurnPlace(o) PROVE j # NoJournal /\ j[o].created
    <3>1. i = mem /\ i # NoJournal
      BY <2>5, MutatingFacts DEF TurnPlace, Mutating
    <3> QED BY <2>1, <2>5, <3>1 DEF Grows, TurnPlace
  <2>6. ASSUME f = fs'[o], TurnStage(o) \/ TurnDelete(o) \/ TurnForget(o) \/ TurnShelve(o)
                 \/ TurnNew(o)
        PROVE fs[o]["leaf"] = "next"
    BY <2>6 DEF TurnStage, TurnDelete, TurnForget, TurnShelve, TurnNew, Becomes
  <2>7. ASSUME f = fs'[o], TurnAside(o) \/ TurnDisplace(o) \/ TurnRestore(o) \/ TurnPutBack(o)
                 \/ TurnLeaf(o) \/ TurnEdit(o)
        PROVE FALSE
    BY <2>4, <2>7 DEF TurnAside, TurnDisplace, TurnRestore, TurnPutBack, TurnLeaf, TurnEdit,
       Becomes, NamedWell
  <2> QED BY <1>0, <2>2, <2>3, <2>5, <2>6, <2>7 DEF Turn, Turned
<1> QED BY <1>1, <1>2
-----------------------------------------------------------------------------
\* Where each step comes from.
LEMMA Flow ==
  ASSUME Base, [Next]_vars
  PROVE  /\ pc' \in Mutating => pc \in Mutating \/ Begin
         /\ pc' = "rollback" => pc \in Mutating \cup {"rollback"}
         /\ pc' = "publish" => pc = "publish" \/ VerifyApplied
         /\ pc' = "exchange" => pc \in {"publish", "exchange"}
         /\ pc' = "back" => pc = "back" \/ Recover
         /\ pc' = "forward" => pc = "forward" \/ Recover
         /\ pc' = "finish" => pc = "finish" \/ UnstageCatalog
         /\ pc' \in {"clean", "unjournal"} => pc \in {"clean", "unjournal"} \/ FinishDone
               \/ RollbackDone \/ RecoverRolledBack
         /\ pc = "dark" => PowerLoss \/ UNCHANGED vars
         /\ pc \in Mutating /\ pc' \in Mutating =>
              (\E o \in Ops : SerialStep(o) \/ Edit(o)) \/ StageFiles \/ PinSources
                 \/ IdentifyBackups \/ UNCHANGED vars
<1>d. ASSUME Exit \/ Die \/ Killed PROVE pc' \in {"down", "dark"}
  BY <1>d, DieFacts DEF Exit, Gone, Dead, Killed
<1>r. ASSUME (\E c : Fails(c)) \/ FailsIo \/ (\E c, r : Rollback(c, r)) PROVE pc' = "rollback"
  BY <1>r DEF Fails, FailsIo, Rollback
<1>s. ASSUME NEW m, NEW p, NEW i, NEW x, SaveJournal(m, p, i, x)
      PROVE  pc' \in {p, "rollback", "down", "dark"}
  BY <1>d, <1>r, <1>s DEF SaveJournal, Goto
<1>u. ASSUME NEW o, UndoFails(o) PROVE pc' \in {pc, "down"}
  BY <1>u DEF UndoFails, Exit, Gone
<1>t. ASSUME NEW o, NEW f, NEW i, NEW x, Settle(o, f, Goto(pc, i, x) /\ UNCHANGED mem)
      PROVE  pc' \in {pc, "down", "dark"}
  BY <1>d, <1>t DEF Settle, Goto
<1>1. ASSUME NEW o \in Ops, SerialStep(o)
      PROVE  pc \in Mutating /\ pc' \in Mutating \cup {"rollback", "down", "dark"}
  BY <1>1, <1>r, <1>s DEF SerialStep, AssertAbsent, SerialStage, SerialRecord, SerialIntent,
     CheckSource, MoveAside,
     SerialIdentify, RestoreRaced, Place, Placed, Unplace, Link, Goto, Mutating
<1>2. ASSUME NEW o \in Ops, FinishStep(o)
      PROVE  pc \in {"finish", "forward"} /\ pc' \in {pc, "down", "dark"}
  BY <1>2, <1>d, <1>t DEF FinishStep, FinishRefuses, QuarantineBackup, DeleteBackup, FinishNext,
     Goto
<1>3. ASSUME NEW o \in Ops, UndoStep(o)
      PROVE  pc \in {"rollback", "back"} /\ pc' \in {pc, "down", "dark"}
  BY <1>3, <1>t, <1>u DEF UndoStep, UndoSkip, UndoRefuses, UndoDone, QuarantineNew, CheckCreated,
     QuarantineLeaf,
     DeleteCreated, RestoreBackup, Undoing, Goto
<1>4. StageFiles \/ PinSources \/ IdentifyBackups => pc \in Mutating
         /\ pc' \in Mutating \cup {"rollback", "down", "dark"}
  BY <1>r, <1>s DEF StageFiles, PinSources, IdentifyBackups, RestoreRaced, Goto, Mutating
<1>5. VerifyApplied => pc \in Mutating /\ pc' \in {"publish", "rollback"}
  BY <1>r DEF VerifyApplied, Goto, Mutating
<1>6. /\ StageCatalog => pc = "publish" /\ pc' \in {"exchange", "down", "dark"}
      /\ ExchangeCatalog => pc = "exchange" /\ pc' \in {"unstage", "down", "dark"}
      /\ UnstageCatalog => pc = "unstage" /\ pc' \in {"finish", "down", "dark"}
      /\ CleanCatalog => pc = "clean" /\ pc' \in {"unjournal", "down", "dark"}
      /\ RemoveJournal => pc = "unjournal" /\ pc' \in {"down", "dark"}
  BY <1>d DEF StageCatalog, ExchangeCatalog, UnstageCatalog, SaveCatalog, CleanCatalog,
     RemoveJournal, Goto
<1>7. /\ FinishDone => pc \in {"finish", "forward"} /\ pc' \in {"unjournal", "clean"}
      /\ RollbackDone => pc = "rollback" /\ pc' \in {"unjournal", "down"}
      /\ RecoverRolledBack => pc = "back" /\ pc' = "clean"
      /\ Begin => pc = "down" /\ pc' \in {"serial", "down", "dark"}
      /\ Recover => pc = "down" /\ pc' \in {"back", "forward"}
  BY <1>d DEF FinishDone, RollbackDone, RecoverRolledBack, Begin, Recover, Goto, Exit, Gone
<1>8. /\ Kill => pc # "dark" /\ pc' = "down"
      /\ IoError => pc \in Mutating /\ pc' = "rollback"
      /\ PowerLoss => pc' = "down"
  BY <1>r DEF Kill, Killed, Gone, IoError, PowerLoss, Mutating
<1>9. ASSUME NEW o \in Ops, Edit(o) PROVE pc' = pc /\ pc # "dark"
  <2>1. cuts = 0 \/ (kills = 0 /\ edits = 0)
    BY DEF Base, Apart
  <2>2. edits \in Nat /\ edits > 0
    BY <1>9 DEF Edit, Base, ControlType
  <2>3. cuts = 0
    BY <2>1, <2>2
  <2> QED BY <1>9, <2>3 DEF Edit, local, Base, Controlled
<1>10. UNCHANGED vars => pc' = pc
  BY DEF vars
<1>m. Mutating = {"serial", "link", "move", "place"}
  BY DEF Mutating
<1> QED BY <1>1, <1>2, <1>3, <1>4, <1>5, <1>6, <1>7, <1>8, <1>9, <1>10, <1>m
     DEF Next, Work, Environment

-----------------------------------------------------------------------------
\* What the mutation adds to the journal.
Extends(m) ==
  \/ \E S \in SUBSET Of(Placing) : m = Created(mem, S)
  \/ \E S \in SUBSET Ops, b \in {"intent", "identified"} :
       /\ m = Backup(mem, S, b)
       /\ \A o \in S : plan[o].seen = "prior"
             /\ ((plan[o].kind \in Placing /\ mem[o].created) \/ plan[o].kind = "remove")

\* What each step does to the journal.
LEMMA JournalSteps ==
  ASSUME Base, Accepted, [Next]_vars
  PROVE  \/ UNCHANGED journal /\ mem' \in {mem, NoMem, jrn}
         \/ (PowerLoss \/ RemoveJournal) /\ jdur' \subseteq jdur \cup {NoJournal} /\ mem' = NoMem
         \/ Begin /\ jdur' \subseteq jdur \cup {[o \in Ops |-> Blank]}
               /\ mem' \in {NoMem, [o \in Ops |-> Blank]}
         \/ /\ pc \in Mutating /\ jdur = {jrn}
            /\ \E m : Extends(m) /\ jdur' \subseteq {jrn, m} /\ mem' \in {m, NoMem}
<1> DEFINE A == UNCHANGED journal /\ mem' \in {mem, NoMem, jrn}
           B == (PowerLoss \/ RemoveJournal) /\ jdur' \subseteq jdur \cup {NoJournal}
              /\ mem' = NoMem
           D == pc \in Mutating /\ jdur = {jrn} /\ \E m : Extends(m) /\ jdur' \subseteq {jrn, m}
              /\ mem' \in {m, NoMem}
<1>0. PlanOK /\ StoreType /\ Controlled /\ ControlType /\ Scheduled
  BY DEF Base
<1>k. \A o \in Ops : o # N + 1
  BY <1>0, PlanFacts
<1>p. {"serial", "link", "move", "place"} = Mutating /\ "down" \notin Mutating
         /\ "dark" \notin Mutating
  BY DEF Mutating
<1>d. Exit \/ Die \/ Killed => mem' = NoMem
  BY DieFacts DEF Exit, Gone, Dead, Killed
<1>1. ASSUME NEW m, NEW p, NEW i, NEW x, SaveJournal(m, p, i, x), pc \in Mutating, Extends(m)
      PROVE  D
  <2>1. jdur = {jrn}
    BY <1>1, MutatingFacts
  <2>2. Saved(m, p, i, x)
    BY <1>1, <2>1, SaveFacts
  <2> QED BY <1>1, <2>1, <2>2 DEF Saved, Dead
<1>2. ASSUME NEW m, mem' = m, UNCHANGED journal, pc \in Mutating, Extends(m) PROVE D
  <2>1. jdur = {jrn}
    BY <1>2, MutatingFacts
  <2> QED BY <1>2, <2>1 DEF journal
<1>3. ASSUME NEW S \in SUBSET Backed, NEW b \in {"intent", "identified"}, pc \in {"link", "move"}
      PROVE  Extends(Backup(mem, S, b))
  <2>1. \A o \in Files : mem[o].created
    BY <1>0, <1>3 DEF Scheduled, Recorded
  <2>2. \A o \in S : o \in Ops /\ plan[o].seen = "prior" /\ (o \in Files \/ plan[o].kind = "remove")
    BY DEF Backed, Phased, Files, Of
  <2>3. \A o \in S : plan[o].seen = "prior"
           /\ ((plan[o].kind \in Placing /\ mem[o].created) \/ plan[o].kind = "remove")
    BY <2>1, <2>2 DEF Files, Of, Placing
  <2>4. S \in SUBSET Ops
    BY <2>2
  <2> QED BY <2>3, <2>4 DEF Extends
<1>4. ASSUME NEW o \in Ops, pc = "serial", idx = o, at # ""
      PROVE  plan[o].kind \in Placing /\ o \in Of(Placing) /\ (at # "staged" => mem[o].created)
  BY <1>0, <1>4 DEF Scheduled, SerialAt, Of, Placing
<1>5. ASSUME NEW o \in Ops, SerialStep(o) PROVE A \/ D
  <2>1. CASE SerialRecord(o)
    <3>1. Extends(Created(mem, {o}))
      BY <1>4, <2>1 DEF SerialRecord, Extends
    <3> QED BY <1>1, <1>p, <2>1, <3>1 DEF SerialRecord
  <2>2. CASE SerialIntent(o)
    <3>1. pc = "serial" /\ idx = o /\ at = "recorded"
      BY <2>2 DEF SerialIntent
    <3>2. plan[o].seen = "prior" => Extends(Backup(mem, {o}, "intent"))
      BY <1>4, <3>1 DEF Extends
    <3> QED BY <1>1, <1>p, <2>2, <3>1, <3>2 DEF SerialIntent
  <2>3. CASE SerialIdentify(o)
    <3>1. pc = "serial" /\ idx = o /\ at = "moved"
      BY <2>3 DEF SerialIdentify
    <3>2. mem[o].backup # "none" /\ LegalRecord(o, mem[o])
      <4>1. LegalAll(mem)
        BY <1>p, <3>1, MutatingFacts DEF Accepted
      <4>2. mem[o].backup # "none"
        BY <1>0, <3>1 DEF Scheduled, SerialAt
      <4> QED BY <4>1, <4>2 DEF LegalAll
    <3>3. Extends(Backup(mem, {o}, "identified"))
      BY <1>4, <3>1, <3>2 DEF Extends, LegalRecord
    <3> QED BY <1>1, <1>p, <2>3, <3>1, <3>3 DEF SerialIdentify
  <2> QED BY <1>5, <2>1, <2>2, <2>3
       DEF SerialStep, AssertAbsent, SerialStage, CheckSource, MoveAside, Place, Placed, Unplace,
       Link
<1>6. CASE StageFiles
  <2>1. Extends(Created(mem, Files))
    BY DEF Extends, Files, Of, Placing
  <2> QED BY <1>1, <1>6, <1>p, <2>1 DEF StageFiles
<1>7. CASE PinSources
  <2>1. \A S \in SUBSET Backed : Extends(Backup(mem, S, "intent"))
    BY <1>3, <1>7 DEF PinSources
  <2> QED BY <1>1, <1>2, <1>7, <1>p, <2>1 DEF PinSources
<1>8. CASE IdentifyBackups
  <2>1. \A S \in SUBSET Backed : Extends(Backup(mem, S, "identified"))
    BY <1>3, <1>8 DEF IdentifyBackups
  <2> QED BY <1>1, <1>2, <1>8, <1>p, <2>1 DEF IdentifyBackups
<1>9. CASE Begin
  BY <1>9, <1>d DEF Begin
<1>10. CASE PowerLoss \/ RemoveJournal
  BY <1>10, <1>d DEF PowerLoss, Gone, RemoveJournal
<1>11. ASSUME NEW o \in Ops, FinishStep(o) PROVE A
  BY <1>11, <1>d DEF FinishStep, FinishRefuses, QuarantineBackup, DeleteBackup, FinishNext, Settle
<1>12. ASSUME NEW o \in Ops, UndoStep(o) PROVE A
  BY <1>12, <1>d DEF UndoStep, UndoSkip, UndoFails,
     UndoRefuses, UndoDone, QuarantineNew, CheckCreated, QuarantineLeaf, DeleteCreated,
     RestoreBackup, Settle
<1>13. VerifyApplied \/ StageCatalog \/ ExchangeCatalog \/ UnstageCatalog \/ FinishDone
          \/ RollbackDone
       \/ RecoverRolledBack \/ CleanCatalog \/ Recover \/ Kill \/ IoError => A
  BY <1>d DEF VerifyApplied, StageCatalog, ExchangeCatalog, UnstageCatalog, SaveCatalog,
     FinishDone, RollbackDone,
     RecoverRolledBack, CleanCatalog, Recover, Kill, IoError
<1>14. (\E o \in Ops : Edit(o)) \/ UNCHANGED vars => A
  BY DEF Edit, vars, journal, local
<1> QED BY <1>5, <1>6, <1>7, <1>8, <1>9, <1>10, <1>11, <1>12, <1>13, <1>14
     DEF Next, Work, Environment

\* A journal stays legal when the mutation adds to it.
LEMMA LegalExtends ==
  ASSUME PlanOK, mem \in Journals, LegalAll(mem), NEW m, Extends(m)
  PROVE  LegalAll(m)
<1>1. ASSUME NEW S \in SUBSET Of(Placing), m = Created(mem, S) PROVE LegalAll(m)
  <2>1. \A o \in Ops : (m[o].created <=> mem[o].created \/ o \in S) /\ m[o].backup = mem[o].backup
    BY <1>1, JournalFacts
  <2> QED BY <1>1, <2>1 DEF LegalAll, LegalRecord, Of
<1>2. ASSUME NEW S \in SUBSET Ops, NEW b \in {"intent", "identified"}, m = Backup(mem, S, b),
             \A o \in S : plan[o].seen = "prior"
                /\ ((plan[o].kind \in Placing /\ mem[o].created) \/ plan[o].kind = "remove")
      PROVE  LegalAll(m)
  <2>1. \A o \in Ops : (m[o].created <=> mem[o].created)
           /\ m[o].backup = IF o \in S THEN b ELSE mem[o].backup
    BY <1>2, JournalFacts
  <2> QED BY <1>2, <2>1 DEF LegalAll, LegalRecord
<1> QED BY <1>1, <1>2 DEF Extends
-----------------------------------------------------------------------------
\* What verify_applied accepts has a complete journal.
LEMMA AppliedCompletes ==
  ASSUME Base, Accepted, Applying, pc = "place", \A o \in Ops : Applied(o)
  PROVE  Completes(mem)
<1>0. PlanOK /\ Scheduled /\ pc \in Mutating
  BY DEF Base, Mutating
<1>1. mem \in Journals /\ LegalAll(mem)
  BY <1>0, MutatingFacts DEF Accepted
<1> SUFFICES ASSUME NEW o \in Ops PROVE CompleteRecord(o, mem[o])
  BY DEF Completes
<1>2. mem[o].created \in BOOLEAN /\ mem[o].backup \in {"none", "intent", "identified"}
  BY <1>1 DEF Journals, Record
<1>3. LegalRecord(o, mem[o])
  BY <1>1 DEF LegalAll
<1>4. plan[o].kind \in Placing => Reached(o)
  BY <1>0, NestedFacts DEF Applied, Placing, Canonical
<1>5. plan[o].seen = "prior" => Reached(o)
  BY <1>0, NestedFacts
<1>6. plan[o].kind \in Placing => mem[o].created
  <2>1. CASE plan[o].kind = "file"
    BY <1>0, <2>1 DEF Scheduled, Recorded, Files, Of
  <2>2. CASE plan[o].kind \in Placing
    <3>1. fs[o]["leaf"] = "next"
      BY <1>4, <2>2, ViewFacts DEF Applied, Goal
    <3> QED BY <1>0, <3>1 DEF Applying
  <2> QED BY <2>2
<1>7. plan[o].kind \in Placing \cup {"remove"} /\ plan[o].seen = "prior"
         => mem[o].backup = "identified"
  <2>1. CASE plan[o].kind \in {"file", "remove"} /\ plan[o].seen = "prior"
    BY <1>0, <2>1 DEF Scheduled, Recorded, Backed, Phased, Of
  <2>2. CASE plan[o].kind \in Canonical /\ plan[o].seen = "prior"
    <3>1. fs[o]["bak"] = "prior"
      BY <1>5, <2>2, ViewFacts DEF Applied, Placing
    <3>2. o \in Of(Canonical)
      BY <2>2 DEF Of
    <3> QED BY <1>0, <3>1, <3>2 DEF Applying
  <2> QED BY <2>1, <2>2 DEF Placing
<1>8. ~(plan[o].kind \in Placing \cup {"remove"} /\ plan[o].seen = "prior")
         => mem[o].backup = "none"
  BY <1>3 DEF LegalRecord
<1>9. mem[o].created <=> plan[o].kind \in Placing
  BY <1>3, <1>6 DEF LegalRecord
<1>10. mem[o].created = (plan[o].kind \in Placing)
  BY <1>2, <1>9
<1> QED BY <1>7, <1>8, <1>10 DEF CompleteRecord

\* Every step keeps Accepted: the exchange of the catalog comes after the
\* journal is complete.
LEMMA AcceptedStep ==
  ASSUME Base, Accepted, Applying, [Next]_vars
  PROVE  Accepted'
<1>0. plan' = plan /\ Ops' = Ops
  BY PlanNext
<1>b. Base'
  BY BaseStep
<1>l. \A j : (LegalAll(j)' <=> LegalAll(j)) /\ (Completes(j)' <=> Completes(j))
  BY <1>0 DEF LegalAll, LegalRecord, Completes, CompleteRecord
<1>1. ASSUME NEW j \in jdur' \cup {mem'}, j # NoJournal PROVE LegalAll(j)
  <2>1. j \in jdur \cup {mem} => LegalAll(j)
    BY <1>1 DEF Accepted
  <2>2. jrn \in jdur /\ NoMem = NoJournal
    BY DEF Base, StoreType, NoMem
  <2>3. LegalAll([o \in Ops |-> Blank])
    BY BlankFacts DEF LegalAll, LegalRecord
  <2>4. ASSUME pc \in Mutating, NEW m, Extends(m) PROVE LegalAll(m)
    <3>1. mem \in Journals /\ LegalAll(mem)
      BY <2>4, MutatingFacts DEF Accepted
    <3> QED BY <2>4, <3>1, LegalExtends DEF Base
  <2> QED BY <1>1, <2>1, <2>2, <2>3, <2>4, JournalSteps DEF journal
<1>2. ASSUME NEW c \in LeftCat', c.cur = "next", NEW j \in jdur', j # NoJournal PROVE Completes(j)
  <2>1. \/ c \in LeftCat
        \/ /\ UNCHANGED journal /\ c = cat'
           /\ \/ pc \in {"publish", "clean"} /\ cat'.cur = cat.cur
              \/ pc \in {"exchange", "unstage"}
    BY CatalogKept DEF LeftCat, catalog
  <2>2. CASE c \in LeftCat
    <3>1. ~(pc \in Mutating) /\ ~Begin
      <4>1. pc \in Mutating => SomePrev /\ pc # "dark"
        BY PrevNow DEF Mutating
      <4>2. Begin => cat.cur = "prev" /\ pc # "dark"
        BY CatFields DEF Begin
      <4> QED BY <1>2, <2>2, <4>1, <4>2, PrevNow
    <3>2. j \in jdur
      BY <1>2, <3>1, JournalSteps DEF journal
    <3> QED BY <1>2, <2>2, <3>2 DEF Accepted
  <2>3. CASE UNCHANGED journal /\ c = cat' /\ pc \in {"publish", "clean"} /\ cat'.cur = cat.cur
    <3>1. cat \in LeftCat /\ cat.cur = "next" /\ j \in jdur
      BY <1>2, <2>3, PrevNow DEF journal
    <3> QED BY <1>2, <3>1 DEF Accepted
  <2>4. CASE UNCHANGED journal /\ pc = "exchange"
    <3>1. jdur = {jrn} /\ j \in jdur
      BY <1>2, <2>4 DEF journal, Base, Controlled, Steps
    <3> QED BY <2>4, <3>1 DEF Accepted
  <2>5. CASE UNCHANGED journal /\ pc = "unstage"
    <3>1. cat \in LeftCat /\ cat.cur = "next" /\ j \in jdur
      BY <1>2, <2>5, PrevNow DEF journal
    <3> QED BY <1>2, <3>1 DEF Accepted
  <2> QED BY <2>1, <2>2, <2>3, <2>4, <2>5
<1>3. ASSUME pc' \in {"publish", "exchange"} PROVE Completes(jrn')
  <2>1. CASE VerifyApplied
    <3>1. pc = "place" /\ UNCHANGED journal /\ \A o \in Ops : Applied(o)
      BY <1>3, <2>1 DEF VerifyApplied, Fails, Rollback
    <3>2. Completes(mem) /\ jrn' = jrn /\ jrn = mem
      BY <3>1, AppliedCompletes, MutatingFacts DEF journal, Mutating
    <3> QED BY <3>2
  <2>2. CASE pc \in {"publish", "exchange"}
    <3>1. ~Begin /\ pc \notin Mutating
      BY <2>2 DEF Begin, Mutating
    <3>2. mem' # NoMem
      BY <1>3, <1>b DEF Base, Controlled
    <3>3. jrn' = jrn
      BY <3>1, <3>2, JournalSteps DEF journal
    <3> QED BY <2>2, <3>3 DEF Accepted
  <2> QED BY <1>3, <2>1, <2>2, Flow
<1> QED BY <1>1, <1>2, <1>3, <1>l DEF Accepted

-----------------------------------------------------------------------------
\* What an edit changes.
LEMMA EditFacts ==
  ASSUME Base, NEW o \in Ops, Edit(o)
  PROVE  /\ took \subseteq took' /\ o \in took' /\ UNCHANGED <<local, journal, catalog>> /\ cuts = 0
               /\ cuts' = cuts
         /\ \A q \in Ops \ {o} : fs'[q] = fs[q]
         /\ \E v \in {"none", "foreign"} : Becomes(o, v, fs[o]["new"], fs[o]["bak"], fs[o]["delc"],
               fs[o]["delb"])
<1>1. took \subseteq took' /\ o \in took' /\ UNCHANGED <<local, journal, catalog>> /\ cuts' = cuts
  BY DEF Edit
<1>2. cuts = 0
  <2>1. edits \in Nat /\ edits > 0
    BY DEF Edit, Base, ControlType
  <2> QED BY <2>1 DEF Base, Apart
<1>3. PICK v \in {"none", "foreign"} : Put(o, [fs[o] EXCEPT !["leaf"] = v])
  BY DEF Edit
<1>4. fs' = [fs EXCEPT ![o] = [fs[o] EXCEPT !["leaf"] = v]] /\ fs \in [Ops -> Listing]
  BY <1>3 DEF Put, Base, TargetType
<1>5. fs'[o] = [fs[o] EXCEPT !["leaf"] = v] /\ \A q \in Ops \ {o} : fs'[q] = fs[q]
  BY <1>4
<1>6. fs[o] \in [Names -> Objects] /\ Names = {"leaf", "new", "bak", "delc", "delb"}
  BY <1>4 DEF Listing, Names
<1>7. Becomes(o, v, fs[o]["new"], fs[o]["bak"], fs[o]["delc"], fs[o]["delb"])
  BY <1>5, <1>6 DEF Becomes
<1> QED BY <1>1, <1>2, <1>5, <1>7

\* The steps that lead to a point where something was compared.
LEMMA ComparePoints ==
  ASSUME Base, [Next]_vars, at' \in {"rename", "placed", "created", "leaf"}
  PROVE  \/ (\E o \in Ops : Edit(o)) \/ UNCHANGED vars
         \/ \E o \in Ops : /\ idx = o /\ idx' = o /\ took' = took /\ at' # at
                           /\ \/ at' = "rename" /\ CheckSource(o) /\ fs[o]["leaf"] = "prior"
                              \/ at' = "placed" /\ Place(o) /\ fs[o]["leaf"] = "none"
                              \/ at' = "created" /\ CheckCreated(o)
                              \/ at' = "leaf" /\ QuarantineLeaf(o) /\ fs[o]["leaf"] # "none"
<1> DEFINE P == {"rename", "placed", "created", "leaf"}
<1>d. Exit \/ Die \/ Killed => at' = ""
  BY DieFacts DEF Exit, Gone, Dead, Killed
<1>r. (\E c : Fails(c)) \/ FailsIo \/ (\E c, r : Rollback(c, r)) => at' = ""
  BY DEF Fails, FailsIo, Rollback
<1>s. ASSUME NEW m, NEW p, NEW i, NEW x, SaveJournal(m, p, i, x) PROVE at' = x \/ at' = ""
  BY <1>d, <1>r, <1>s DEF SaveJournal, Goto
<1>u. ASSUME NEW o, UndoFails(o) PROVE at' = ""
  BY <1>d, <1>u DEF UndoFails
<1>t. ASSUME NEW o, NEW f, NEW i, NEW x, Settle(o, f, Goto(pc, i, x) /\ UNCHANGED mem)
      PROVE  at' = x \/ at' = ""
  BY <1>d, <1>t DEF Settle, Goto
<1>1. ASSUME NEW o \in Ops, AssertAbsent(o) \/ SerialStage(o) \/ MoveAside(o) \/ Placed(o)
               \/ Unplace(o) \/ Link(o)
      PROVE  at' \notin P
  BY <1>1, <1>r DEF AssertAbsent, SerialStage, MoveAside, Placed, Unplace, Link, Goto
<1>2. ASSUME NEW o \in Ops, SerialRecord(o) \/ SerialIntent(o) \/ SerialIdentify(o)
      PROVE  at' \notin P
  <2>1. CASE SerialRecord(o)
    BY <2>1, <1>s DEF SerialRecord
  <2>2. CASE SerialIntent(o)
    BY <2>2, <1>r, <1>s DEF SerialIntent, Goto
  <2>3. CASE SerialIdentify(o)
    BY <2>3, <1>r, <1>s DEF SerialIdentify, RestoreRaced
  <2> QED BY <1>2, <2>1, <2>2, <2>3
<1>3. StageFiles \/ PinSources \/ IdentifyBackups \/ VerifyApplied => at' \notin P
  <2>1. StageFiles => at' \notin P
    BY <1>r, <1>s DEF StageFiles, Goto
  <2>2. PinSources => at' \notin P
    BY <1>r, <1>s DEF PinSources, Goto
  <2>3. IdentifyBackups => at' \notin P
    BY <1>r, <1>s DEF IdentifyBackups, RestoreRaced, Goto
  <2>4. VerifyApplied => at' \notin P
    BY <1>r DEF VerifyApplied, Goto
  <2> QED BY <2>1, <2>2, <2>3, <2>4
<1>4. StageCatalog \/ ExchangeCatalog \/ UnstageCatalog \/ CleanCatalog \/ RemoveJournal
         \/ FinishDone \/ RollbackDone
      \/ RecoverRolledBack \/ Begin \/ Recover \/ Kill \/ IoError \/ PowerLoss => at' \notin P
  BY <1>d, <1>r DEF StageCatalog, ExchangeCatalog, UnstageCatalog, SaveCatalog, CleanCatalog,
     RemoveJournal, FinishDone,
     RollbackDone, RecoverRolledBack, Begin, Recover, Kill, IoError, PowerLoss, Gone, Goto
<1>5. ASSUME NEW o \in Ops, FinishStep(o) PROVE at' \notin P
  BY <1>5, <1>d, <1>t DEF FinishStep, FinishRefuses, QuarantineBackup, DeleteBackup, FinishNext,
     Goto
<1>6. ASSUME NEW o \in Ops, UndoSkip(o) \/ UndoRefuses(o) \/ UndoDone(o) \/ QuarantineNew(o)
               \/ DeleteCreated(o) \/ RestoreBackup(o)
      PROVE  at' \notin P
  <2>1. CASE UndoSkip(o) \/ UndoRefuses(o) \/ UndoDone(o)
    BY <2>1, <1>u DEF UndoSkip, UndoRefuses, UndoDone, Goto
  <2>2. CASE QuarantineNew(o) \/ RestoreBackup(o)
    BY <2>2, <1>d DEF QuarantineNew, RestoreBackup, Settle, Goto
  <2>3. CASE DeleteCreated(o)
    BY <2>3, <1>t, <1>u DEF DeleteCreated
  <2> QED BY <1>6, <2>1, <2>2, <2>3
<1>7. ASSUME NEW o \in Ops, CheckSource(o), at' \in P
      PROVE  idx = o /\ idx' = o /\ took' = took /\ at' # at /\ at' = "rename"
                /\ fs[o]["leaf"] = "prior"
  BY <1>7, <1>r DEF CheckSource, Goto, budget
<1>8. ASSUME NEW o \in Ops, Place(o), at' \in P
      PROVE  idx = o /\ idx' = o /\ took' = took /\ at' # at /\ at' = "placed"
                /\ fs[o]["leaf"] = "none"
  BY <1>8, <1>r DEF Place, Goto, budget
<1>9. ASSUME NEW o \in Ops, CheckCreated(o), at' \in P
      PROVE  idx = o /\ idx' = o /\ took' = took /\ at' # at /\ at' = "created"
  BY <1>9 DEF CheckCreated, Goto, budget, Undoing
<1>10. ASSUME NEW o \in Ops, QuarantineLeaf(o), at' \in P
       PROVE  idx = o /\ idx' = o /\ took' = took /\ at' # at /\ at' = "leaf"
                 /\ fs[o]["leaf"] # "none"
  BY <1>10, <1>d, <1>u DEF QuarantineLeaf, Settle, Goto, budget
<1> QED
  BY <1>1, <1>2, <1>3, <1>4, <1>5, <1>6, <1>7, <1>8, <1>9, <1>10
     DEF Next, Work, Environment, SerialStep, UndoStep

\* Every step keeps Compared: only an edit comes between a comparison and the
\* rename that relies on it.
LEMMA ComparedStep ==
  ASSUME Base, Compared, Preserving, [Next]_vars
  PROVE  Compared'
<1>0. plan' = plan /\ Ops' = Ops /\ PlanOK /\ \A o \in Ops : plan[o].seen \in {"none", "prior"}
         /\ fs[o] \in Listing /\ fs[o] \in Left(o)
  BY PlanNext, PlanFacts, LeftNow DEF Base
<1>n. Names = {"leaf", "new", "bak", "delc", "delb"}
  BY DEF Names
<1>1. CASE at' \notin {"rename", "placed", "created", "leaf"}
  BY <1>1 DEF Compared
<1>2. ASSUME NEW o \in Ops, Edit(o) PROVE Compared'
  <2>1. idx' = idx /\ at' = at /\ took \subseteq took' /\ o \in took'
           /\ \A q \in Ops \ {o} : fs'[q] = fs[q]
    BY <1>2, EditFacts DEF local
  <2>2. fs'[o]["leaf"] \in {"none", "foreign"} /\ fs'[o]["new"] = fs[o]["new"]
           /\ fs'[o]["bak"] = fs[o]["bak"] /\ fs'[o]["delc"] = fs[o]["delc"]
    BY <1>2, EditFacts DEF Becomes
  <2>3. at \in {"rename", "placed", "created", "leaf"} => idx \in Ops
    BY DEF Compared
  <2>4. CASE idx = o
    BY <1>0, <2>1, <2>2, <2>4 DEF Compared
  <2>5. CASE idx # o
    BY <1>0, <2>1, <2>3, <2>5 DEF Compared
  <2> QED BY <2>4, <2>5
<1>3. CASE UNCHANGED vars
  BY <1>0, <1>3 DEF vars, Compared
<1>4. ASSUME NEW o \in Ops, idx = o, idx' = o, took' = took, at' = "rename", CheckSource(o),
             fs[o]["leaf"] = "prior"
      PROVE  Compared'
  <2>1. fs' = fs
    BY <1>4 DEF CheckSource, target
  <2> QED BY <1>0, <1>4, <2>1 DEF Compared
<1>5. ASSUME NEW o \in Ops, idx = o, idx' = o, took' = took, at' = "placed", Place(o),
             fs[o]["leaf"] = "none"
      PROVE  Compared'
  <2>1. Put(o, Move(fs[o], "new", "leaf")) /\ pc \in Mutating
    BY <1>5 DEF Place, Mutating
  <2>2. Move(fs[o], "new", "leaf") \in Listing /\ Move(fs[o], "new", "leaf")["bak"] = fs[o]["bak"]
    BY <1>0, <1>n, MoveFacts
  <2>3. fs'[o]["bak"] = fs[o]["bak"]
    BY <1>0, <2>1, <2>2, PutFacts DEF Base
  <2>4. SomePrev
    BY <2>1, PrevNow
  <2>5. o \notin took /\ plan[o].seen = "prior" => fs[o]["bak"] = "prior"
    BY <1>0, <1>5, <2>4 DEF Preserving
  <2> QED BY <1>0, <1>5, <2>3, <2>5 DEF Compared
<1>6. ASSUME NEW o \in Ops, idx = o, idx' = o, took' = took, at' = "created", CheckCreated(o)
      PROVE  Compared'
  <2>1. fs' = fs /\ Undo(o) = "quarantine-leaf"
    BY <1>6 DEF CheckCreated, target, Undoing
  <2>2. fs[o]["delc"] = "none" /\ fs[o]["new"] = "none" /\ fs[o]["leaf"] = "next"
    BY <1>0, <2>1, UndoFacts
  <2> QED BY <1>0, <1>6, <2>1, <2>2 DEF Compared
<1>7. ASSUME NEW o \in Ops, idx = o, idx' = o, took' = took, at' = "leaf", QuarantineLeaf(o),
             fs[o]["leaf"] # "none"
      PROVE  Compared'
  <2>1. at = "created" /\ fs[o]["new"] = "none"
    BY <1>7 DEF QuarantineLeaf, Compared
  <2>2. Move(fs[o], "leaf", "delc") \in Listing /\ Move(fs[o], "leaf", "delc")["new"] = fs[o]["new"]
           /\ Move(fs[o], "leaf", "delc")["leaf"] = "none"
    BY <1>0, <1>n, MoveFacts
  <2>3. Put(o, Move(fs[o], "leaf", "delc")) \/ PutSynced(o, Move(fs[o], "leaf", "delc"))
    BY <1>7 DEF QuarantineLeaf, Settle
  <2>4. fs'[o] = Move(fs[o], "leaf", "delc")
    BY <1>0, <2>2, <2>3, PutFacts, PutSyncedFacts DEF Base
  <2> QED BY <1>0, <1>7, <2>1, <2>2, <2>4 DEF Compared
<1> QED BY <1>1, <1>2, <1>3, <1>4, <1>5, <1>6, <1>7, ComparePoints
-----------------------------------------------------------------------------
\* After replace_journal the mutation goes on only if the update is on disk.
LEMMA SavedMutating ==
  ASSUME Base, pc \in Mutating, pc' \in Mutating, NEW m, NEW p, NEW i, NEW x,
         SaveJournal(m, p, i, x)
  PROVE  mem' = m /\ pc' = p /\ idx' = i /\ at' = x
<1>1. jdur = {jrn}
  BY MutatingFacts
<1>2. Saved(m, p, i, x)
  BY <1>1, SaveFacts
<1>3. pc' \notin {"down", "dark", "rollback"}
  BY DEF Mutating
<1> QED BY <1>2, <1>3 DEF Saved, Dead

\* A step of the mutation that goes on has not failed.
LEMMA RollsBack ==
  ASSUME pc' \in Mutating
  PROVE  ~(\E c : Fails(c)) /\ ~(\E c, r : Rollback(c, r)) /\ (\A o : ~RestoreRaced(o))
BY DEF Fails, Rollback, RestoreRaced, Mutating

\* The serial part takes one operation after the other.
LEMMA CanonicalSteps ==
  ASSUME Base, [Next]_vars, pc \in Mutating, pc' \in Mutating, NEW o \in Of(Canonical)
  PROVE  /\ \/ /\ mem'[o].backup = mem[o].backup
               /\ ~(pc = "serial" /\ idx = o /\ at = "moved")
                     \/ (pc' = pc /\ idx' = idx /\ at' = at)
            \/ pc = "serial" /\ idx = o /\ at = "recorded" /\ pc' = "serial" /\ idx' = o
                  /\ at' = "check"
            \/ mem'[o].backup = "identified" /\ pc = "serial" /\ idx = o /\ at = "moved" /\ idx' = o
                  /\ at' = "place"
         /\ pc' = "serial" => pc = "serial" /\ (Ahead(o)' => Ahead(o))
         /\ pc = "serial" /\ idx = o /\ ~(pc' = "serial" /\ idx' = o) => Placed(o)
               /\ SyncTargets({o})
<1>0. PlanOK /\ N \in Nat /\ o \in Ops /\ o \in Nat /\ o # N + 1 /\ Ops = 1 .. N /\ mem \in Journals
         /\ idx \in 0 .. N + 1
  <2>1. PlanOK /\ idx \in 0 .. N + 1
    BY DEF Base, ControlType
  <2>2. N \in Nat /\ Ops = 1 .. N
    BY <2>1, PlanFacts
  <2>3. o \in Ops
    BY DEF Of
  <2>4. o \in Nat /\ o # N + 1
    BY <2>2, <2>3
  <2>5. mem \in Journals
    BY MutatingFacts
  <2> QED BY <2>1, <2>2, <2>3, <2>4, <2>5
<1>k. plan[o].kind \in Canonical /\ o \notin Backed
  BY DEF Of, Backed, Phased, Canonical
<1>a. \A q \in Ops : After(Serial, q) > q /\ After(Serial, q) \in Nat
  <2>1. \A q \in Ops : q \in 0 .. N
    BY <1>0
  <2>2. Serial \in SUBSET Ops
    BY OpSets
  <2>3. \A q \in Ops : After(Serial, q) > q /\ After(Serial, q) \in 1 .. N + 1
    BY <1>0, <2>1, <2>2, AfterFacts
  <2> QED BY <1>0, <2>3
<1>b. ASSUME NEW q \in Ops, idx = q, idx' = After(Serial, q) PROVE Ahead(o)' => Ahead(o)
  <2>1. After(Serial, q) > q /\ After(Serial, q) \in Nat /\ q \in Nat
    BY <1>0, <1>a
  <2>2. o > After(Serial, q) \/ o = After(Serial, q) => o > q
    BY <1>0, <2>1
  <2> QED BY <1>b, <2>2 DEF Ahead
<1>1. ASSUME NEW q \in Ops, AssertAbsent(q) PROVE
         /\ pc = "serial" /\ idx = q /\ q # o /\ mem' = mem /\ pc' = pc /\ idx' = After(Serial, q)
  BY <1>1, <1>k, RollsBack DEF AssertAbsent, Goto, Canonical
<1>2. ASSUME NEW q \in Ops, SerialStage(q) PROVE
         pc = "serial" /\ idx = q /\ at = "" /\ mem' = mem /\ pc' = pc /\ idx' = q
  BY <1>2, RollsBack DEF SerialStage, Goto
<1>3. ASSUME NEW q \in Ops, SerialRecord(q) PROVE
         pc = "serial" /\ idx = q /\ at = "staged" /\ mem'[o].backup = mem[o].backup /\ pc' = pc
            /\ idx' = q
  <2>1. mem' = Created(mem, {q}) /\ pc' = "serial" /\ idx' = q
    BY <1>3, SavedMutating DEF SerialRecord
  <2> QED BY <1>0, <1>3, <2>1, JournalFacts DEF SerialRecord
<1>4. ASSUME NEW q \in Ops, SerialIntent(q) PROVE
         /\ pc = "serial" /\ idx = q /\ at = "recorded" /\ pc' = pc /\ idx' = q
               /\ at' \in {"place", "check"}
         /\ mem'[o].backup = mem[o].backup \/ (q = o /\ at' = "check")
  <2>1. CASE SaveJournal(Backup(mem, {q}, "intent"), "serial", q, "check")
    <3>1. mem' = Backup(mem, {q}, "intent") /\ pc' = "serial" /\ idx' = q /\ at' = "check"
      BY <2>1, SavedMutating
    <3> QED BY <1>0, <1>4, <3>1, JournalFacts DEF SerialIntent
  <2> QED BY <1>4, <2>1, RollsBack DEF SerialIntent, Goto
<1>5. ASSUME NEW q \in Ops, SerialIdentify(q) PROVE
         /\ pc = "serial" /\ idx = q /\ at = "moved" /\ pc' = pc /\ idx' = q /\ at' = "place"
         /\ mem'[o].backup = IF q = o THEN "identified" ELSE mem[o].backup
  <2>1. SaveJournal(Backup(mem, {q}, "identified"), "serial", q, "place")
    BY <1>5, RollsBack DEF SerialIdentify
  <2>2. mem' = Backup(mem, {q}, "identified") /\ pc' = "serial" /\ idx' = q /\ at' = "place"
    BY <2>1, SavedMutating
  <2> QED BY <1>0, <1>5, <2>2, JournalFacts DEF SerialIdentify
<1>6. ASSUME NEW q \in Ops, CheckSource(q) \/ MoveAside(q) \/ Place(q) \/ Unplace(q) PROVE
         /\ pc = "serial" => /\ idx = q /\ at \notin {"", "staged", "recorded", "moved"}
               /\ mem' = mem /\ pc' = pc /\ idx' = q
                             /\ at' \notin {"", "staged", "recorded"}
         /\ pc # "serial" => mem' = mem /\ pc' # "serial"
  BY <1>6, RollsBack DEF CheckSource, MoveAside, Place, Unplace, Goto
<1>7. ASSUME NEW q \in Ops, Placed(q) PROVE
         /\ mem' = mem /\ pc' = pc /\ at # "moved" /\ idx = q
         /\ pc = "serial" => \/ idx' = After(Serial, q) /\ SyncTargets({q})
                             \/ idx' = q /\ at' = "unplace"
  BY <1>7, RollsBack DEF Placed, Goto
<1>8. ASSUME NEW q \in Ops, Link(q) PROVE pc = "link" /\ mem' = mem /\ pc' = "link"
  BY <1>8, RollsBack DEF Link, Goto
<1>9. CASE StageFiles
  <2>0. pc = "serial" /\ idx = N + 1
    BY <1>9 DEF StageFiles
  <2>1. pc' = "link" /\ mem'[o].backup = mem[o].backup
    <3>1. CASE SaveJournal(Created(mem, Files), "link", After(Files, 0), "")
      <4>1. mem' = Created(mem, Files) /\ pc' = "link"
        BY <3>1, SavedMutating
      <4> QED BY <1>0, <4>1, JournalFacts
    <3> QED BY <1>9, <3>1, RollsBack DEF StageFiles, Goto
  <2> QED BY <1>0, <2>0, <2>1
<1>10. CASE PinSources
  <2>0. pc = "link"
    BY <1>10 DEF PinSources
  <2>1. pc' = "move" /\ mem'[o].backup = mem[o].backup
    <3>1. CASE SaveJournal(Backup(mem, Backed, "intent"), "move", After(Backed, 0), "check")
      <4>1. mem' = Backup(mem, Backed, "intent") /\ pc' = "move"
        BY <3>1, SavedMutating
      <4> QED BY <1>0, <1>k, <4>1, JournalFacts
    <3> QED BY <1>10, <3>1, RollsBack DEF PinSources, Goto
  <2> QED BY <2>0, <2>1
<1>11. CASE IdentifyBackups
  <2>0. pc = "move"
    BY <1>11 DEF IdentifyBackups
  <2>1. pc' = "place" /\ mem'[o].backup = mem[o].backup
    <3>1. CASE SaveJournal(Backup(mem, Backed, "identified"), "place", After(Files, 0), "place")
      <4>1. mem' = Backup(mem, Backed, "identified") /\ pc' = "place"
        BY <3>1, SavedMutating
      <4> QED BY <1>0, <1>k, <4>1, JournalFacts
    <3> QED BY <1>11, <3>1, RollsBack DEF IdentifyBackups, Goto
  <2> QED BY <2>0, <2>1
<1>12. CASE (\E q \in Ops : Edit(q)) \/ UNCHANGED vars
  <2>1. UNCHANGED <<pc, idx, at, mem>>
    BY <1>12 DEF Edit, local, vars
  <2> QED BY <2>1 DEF Ahead
<1>13. ASSUME NEW q \in Ops, AssertAbsent(q) \/ SerialStage(q) \/ SerialRecord(q) PROVE
         /\ mem'[o].backup = mem[o].backup /\ ~(idx = o /\ at = "moved")
         /\ pc = "serial" /\ pc' = "serial" /\ (Ahead(o)' => Ahead(o)) /\ (idx = o => idx' = o)
  BY <1>13, <1>1, <1>2, <1>3, <1>b DEF Ahead
<1>14. ASSUME NEW q \in Ops, CheckSource(q) \/ MoveAside(q) \/ Place(q) \/ Unplace(q)
                \/ Link(q) PROVE
         /\ mem' = mem /\ ~(pc = "serial" /\ idx = o /\ at = "moved")
               /\ (pc' = "serial" => pc = "serial")
         /\ pc = "serial" => (Ahead(o)' => Ahead(o)) /\ (idx = o => idx' = o /\ pc' = "serial")
  BY <1>14, <1>6, <1>8 DEF Ahead
<1>15. ASSUME NEW q \in Ops, Placed(q) PROVE
         /\ mem' = mem /\ ~(pc = "serial" /\ idx = o /\ at = "moved")
               /\ (pc' = "serial" => pc = "serial")
         /\ pc = "serial" => (Ahead(o)' => Ahead(o))
               /\ (idx = o /\ idx' # o => Placed(o) /\ SyncTargets({o})) /\ pc' = "serial"
  <2>1. CASE idx' = After(Serial, q)
    BY <1>15, <1>7, <1>b, <2>1
  <2>2. CASE idx' = q /\ at' = "unplace"
    BY <1>15, <1>7, <2>2 DEF Ahead
  <2> QED BY <1>15, <1>7, <2>1, <2>2
<1>16. ASSUME NEW q \in Ops, SerialIntent(q) \/ SerialIdentify(q) PROVE
         /\ pc = "serial" /\ pc' = "serial" /\ idx = q /\ idx' = q /\ (Ahead(o)' => Ahead(o))
         /\ \/ mem'[o].backup = mem[o].backup /\ ~(idx = o /\ at = "moved")
            \/ idx = o /\ at = "recorded" /\ at' = "check"
            \/ mem'[o].backup = "identified" /\ idx = o /\ at = "moved" /\ at' = "place"
  BY <1>16, <1>4, <1>5 DEF Ahead
<1> QED BY <1>9, <1>10, <1>11, <1>12, <1>13, <1>14, <1>15, <1>16, Flow DEF SerialStep

\* Every step keeps Applying.
LEMMA ApplyingStep ==
  ASSUME Base, Accepted, Applying, [Next]_vars
  PROVE  Applying'
<1>0. plan' = plan /\ Ops' = Ops /\ Of(Canonical)' = Of(Canonical) /\ Of(Canonical) \subseteq Ops
  BY PlanNext, OpSets
<1>b. Base'
  BY BaseStep
<1> SUFFICES ASSUME pc' \in Mutating PROVE Applying'
  BY DEF Applying
<1>1. CASE Begin
  <2> DEFINE m == [o \in Ops |-> Blank]
  <2>1. fs' = fs /\ mem' = m /\ \A o \in Ops : fs[o]["leaf"] = plan[o].seen
           /\ \A n \in Private : fs[o][n] = "none"
    <3>1. ~Die
      BY DieFacts DEF Dead, Mutating
    <3> QED BY <1>1, <3>1 DEF Begin, target
  <2>2. \A o \in Ops : m[o].backup = "none"
    BY BlankFacts
  <2>3. \A o \in Ops : fs[o]["leaf"] # "next" /\ fs[o]["delc"] = "none" /\ fs[o]["delb"] = "none"
           /\ fs[o]["bak"] = "none"
    BY <2>1, PlanFacts DEF Base, Private, Names
  <2> QED BY <1>0, <2>1, <2>2, <2>3 DEF Applying
<1>2. CASE pc \in Mutating
  <2>1. Grows(mem, mem')
    <3>1. jdur = {mem} /\ mem # NoJournal /\ ~RemoveJournal
      BY <1>2, MutatingFacts DEF RemoveJournal, Mutating
    <3>2. mem' \in jdur'
      BY <1>b DEF Base, Controlled, StoreType, Steps
    <3> QED BY <3>1, <3>2, JournalKept DEF Keeps
  <2>2. ~PowerLoss
    BY DEF PowerLoss, Gone, Mutating
  <2>3. ASSUME NEW o \in Ops PROVE
           /\ fs'[o]["leaf"] = "next" => fs[o]["leaf"] = "next" \/ mem[o].created
           /\ fs'[o]["delc"] = fs[o]["delc"] /\ fs'[o]["delb"] = fs[o]["delb"]
           /\ fs'[o]["bak"] # "none" => \/ fs[o]["bak"] # "none"
                                        \/ plan[o].kind \in Canonical => pc' = "serial" /\ idx' = o
                                              /\ at' = "moved"
    <3>1. CASE fs'[o] = fs[o]
      BY <3>1
    <3>2. CASE Turned(o)
      <4>1. ~TurnRestore(o) /\ ~TurnDelete(o) /\ ~TurnPutBack(o) /\ ~TurnForget(o) /\ ~TurnShelve(o)
               /\ ~TurnNew(o) /\ ~TurnLeaf(o)
        BY <1>2 DEF TurnRestore, TurnDelete, TurnPutBack, TurnForget, TurnShelve, TurnNew,
           TurnLeaf, Mutating
      <4>2. CASE TurnStage(o) \/ TurnAside(o) \/ TurnPlace(o) \/ TurnDisplace(o) \/ TurnEdit(o)
        BY <4>2 DEF TurnStage, TurnAside, TurnPlace, TurnDisplace, TurnEdit, Becomes
      <4> QED BY <3>2, <4>1, <4>2 DEF Turned
    <3>3. fs'[o] = fs[o] \/ Turned(o)
      BY <2>2, Turns DEF Still, Alone
    <3> QED BY <3>1, <3>2, <3>3
  <2>4. \A o \in Ops : /\ fs'[o]["leaf"] = "next" => mem'[o].created
                       /\ fs'[o]["delc"] = "none" /\ fs'[o]["delb"] = "none"
    BY <1>2, <2>1, <2>3 DEF Applying, Grows
  <2>5. ASSUME NEW o \in Of(Canonical) PROVE
           /\ fs'[o]["bak"] # "none" /\ ~(pc' = "serial" /\ idx' = o /\ at' = "moved")
                 => mem'[o].backup = "identified"
           /\ pc' = "serial" /\ Ahead(o)' => mem'[o].backup = "none"
    <3>1. plan[o].kind \in Canonical /\ o \in Ops
      BY DEF Of
    <3>2. /\ fs[o]["bak"] # "none" /\ ~(pc = "serial" /\ idx = o /\ at = "moved")
                => mem[o].backup = "identified"
          /\ pc = "serial" /\ Ahead(o) => mem[o].backup = "none"
      BY <1>2 DEF Applying
    <3>3. /\ \/ /\ mem'[o].backup = mem[o].backup
                /\ ~(pc = "serial" /\ idx = o /\ at = "moved")
                      \/ (pc' = pc /\ idx' = idx /\ at' = at)
             \/ pc = "serial" /\ idx = o /\ at = "recorded" /\ pc' = "serial" /\ idx' = o
                   /\ at' = "check"
             \/ mem'[o].backup = "identified" /\ pc = "serial" /\ idx = o /\ at = "moved"
                   /\ idx' = o /\ at' = "place"
          /\ pc' = "serial" => pc = "serial" /\ (Ahead(o)' => Ahead(o))
      BY <1>2, CanonicalSteps
    <3>4. at = "recorded" /\ idx = o => Ahead(o)
      BY DEF Ahead
    <3>5. pc' = "serial" /\ idx' = o /\ at' \in {"check", "place"} => ~Ahead(o)'
      <4>1. o \in Nat /\ ~(o > o)
        BY <3>1, PlanFacts DEF Base
      <4> QED BY <4>1 DEF Ahead
    <3>6. fs'[o]["bak"] # "none" => fs[o]["bak"] # "none"
             \/ (pc' = "serial" /\ idx' = o /\ at' = "moved")
      BY <2>3, <3>1
    <3>7. pc' = "serial" /\ Ahead(o)' => mem'[o].backup = "none"
      BY <3>2, <3>3, <3>5
    <3> QED BY <3>2, <3>3, <3>4, <3>6, <3>7
  <2> QED BY <1>0, <2>4, <2>5 DEF Applying
<1> QED BY <1>1, <1>2, Flow
-----------------------------------------------------------------------------
\* A target that a step leaves alone.
Kept(o) == fs'[o] = fs[o] /\ Left(o)' \subseteq Left(o) /\ fs[o] \in Left(o)'

\* A step that is not a loss of power leaves every target alone but one.
LEMMA EachTarget ==
  ASSUME Base, Accepted, [Next]_vars, ~PowerLoss, NEW o \in Ops
  PROVE  /\ Kept(o) \/ (Alone(o) /\ Turned(o))
         /\ \A q \in Ops \ {o} : Kept(o) \/ Kept(q)
         /\ cuts' = cuts /\ took \subseteq took'
<1>1. cuts' = cuts
  BY Spending DEF Spent
<1>2. took \subseteq took'
  BY Turning
<1>3. Still => \A q \in Ops : Kept(q)
  BY DEF Still, Kept
<1>4. \A p \in Ops : Alone(p) => \A q \in Ops \ {p} : Kept(q)
  BY DEF Alone, Kept
<1>5. Still \/ \E p \in Ops : Alone(p) /\ Turned(p)
  BY Turns
<1> QED BY <1>1, <1>2, <1>3, <1>4, <1>5

\* A listing with no name in use is the empty one.
LEMMA AllNone ==
  ASSUME NEW f \in Listing, f["leaf"] = "none", f["new"] = "none", f["bak"] = "none",
         f["delc"] = "none", f["delb"] = "none"
  PROVE  f = NoNames
<1>1. f \in [Names -> Objects] /\ \A n \in Names : f[n] = "none"
  BY DEF Listing, Names
<1> QED BY <1>1 DEF NoNames

\* Which turns the mutation makes, which the rollback, which the finish.
LEMMA TurnPlaces ==
  ASSUME NEW o \in Ops, Turned(o)
  PROVE  \/ TurnEdit(o)
         \/ pc \in Mutating /\ (TurnStage(o) \/ TurnAside(o) \/ TurnPlace(o) \/ TurnDisplace(o)
                 \/ TurnRestore(o))
         \/ /\ pc \in {"rollback", "back"} /\ idx = o
            /\ TurnRestore(o) \/ TurnDelete(o) \/ TurnPutBack(o) \/ TurnNew(o) \/ TurnLeaf(o)
         \/ pc \in {"finish", "forward"} /\ idx = o /\ (TurnForget(o) \/ TurnShelve(o))
<1>1. TurnStage(o) \/ TurnAside(o) \/ TurnPlace(o) \/ TurnDisplace(o) => pc \in Mutating
  BY DEF TurnStage, TurnAside, TurnPlace, TurnDisplace, Mutating
<1>2. TurnDelete(o) \/ TurnPutBack(o) \/ TurnNew(o) \/ TurnLeaf(o) => pc \in {"rollback", "back"}
         /\ idx = o
  BY DEF TurnDelete, TurnPutBack, TurnNew, TurnLeaf
<1>3. TurnRestore(o) => pc \in Mutating \/ (pc \in {"rollback", "back"} /\ idx = o)
  BY DEF TurnRestore
<1>4. TurnForget(o) \/ TurnShelve(o) => pc \in {"finish", "forward"} /\ idx = o
  BY DEF TurnForget, TurnShelve
<1> QED BY <1>1, <1>2, <1>3, <1>4 DEF Turned

\* The placements begin after every backup has been verified.
LEMMA ToPlace ==
  ASSUME Base, [Next]_vars, pc \in Mutating, pc # "place", pc' = "place"
  PROVE  IdentifyBackups
<1>1. ASSUME NEW o \in Ops, SerialStep(o) PROVE FALSE
  <2>1. ASSUME NEW m, NEW i, NEW x, SaveJournal(m, "serial", i, x) PROVE FALSE
    BY <2>1, SavedMutating DEF Mutating
  <2> QED BY <1>1, <2>1, RollsBack DEF SerialStep, AssertAbsent, SerialStage, SerialRecord,
       SerialIntent, CheckSource,
         MoveAside, SerialIdentify, Place, Placed, Unplace, Link, Goto, Mutating
<1>2. ~StageFiles
  <2>1. \A m, i, x : ~SaveJournal(m, "link", i, x)
    BY SavedMutating DEF Mutating
  <2> QED BY <2>1, RollsBack DEF StageFiles, Goto, Mutating
<1>3. ~PinSources
  <2>1. \A m, i, x : ~SaveJournal(m, "move", i, x)
    BY SavedMutating DEF Mutating
  <2> QED BY <2>1, RollsBack DEF PinSources, Goto, Mutating
<1>4. ASSUME (\E o \in Ops : Edit(o)) \/ UNCHANGED vars PROVE FALSE
  BY <1>4 DEF Edit, local, vars
<1>5. pc' \in Mutating
  BY DEF Mutating
<1> QED BY <1>1, <1>2, <1>3, <1>4, <1>5, Flow

\* Every step keeps Synced.
LEMMA SyncedStep ==
  ASSUME Base, Accepted, Synced, [Next]_vars
  PROVE  Synced'
<1>0. plan' = plan /\ Ops' = Ops /\ Backed' = Backed /\ Of(Canonical)' = Of(Canonical)
  BY PlanNext
<1>t. PlanOK /\ TargetType /\ Scheduled /\ \A o \in Ops : plan[o].seen # "next" /\ o # N + 1
  BY PlanFacts DEF Base
<1>1. ASSUME pc' # "dark", NEW o \in Ops, fs'[o]["bak"] = "none", NEW f \in Left(o)'
      PROVE  f["bak"] = "none"
  <2>1. CASE PowerLoss
    BY <1>1, <2>1, PowerLossFacts
  <2>2. CASE ~PowerLoss
    <3>0. pc # "dark"
      BY <1>1, <2>2, Flow DEF vars
    <3>1. CASE Kept(o)
      BY <1>1, <3>0, <3>1 DEF Kept, Synced
    <3>2. CASE Alone(o) /\ fs[o]["bak"] = "none"
      BY <1>1, <3>0, <3>2 DEF Alone, Synced
    <3>3. CASE Turned(o) /\ fs[o]["bak"] # "none"
      <4>1. ASSUME Fresh(o) PROVE f["bak"] = "none"
        BY <1>1, <4>1 DEF Fresh
      <4>2. TurnRestore(o) \/ TurnShelve(o) => Fresh(o)
        BY DEF TurnRestore, TurnShelve
      <4>3. ~TurnStage(o) /\ ~TurnAside(o) /\ ~TurnPlace(o) /\ ~TurnDisplace(o)
        BY <1>1, <3>3 DEF TurnStage, TurnAside, TurnPlace, TurnDisplace, Becomes
      <4>4. ~TurnDelete(o) /\ ~TurnPutBack(o) /\ ~TurnForget(o) /\ ~TurnNew(o) /\ ~TurnLeaf(o)
               /\ ~TurnEdit(o)
        BY <1>1, <3>3 DEF TurnDelete, TurnPutBack, TurnForget, TurnNew, TurnLeaf, TurnEdit, Becomes
      <4> QED BY <3>3, <4>1, <4>2, <4>3, <4>4 DEF Turned
    <3> QED BY <2>2, <3>1, <3>2, <3>3, EachTarget
  <2> QED BY <2>1, <2>2
<1>m. pc' \in Mutating => ~PowerLoss
  BY DEF PowerLoss, Gone, Mutating
<1>2. ASSUME pc' \in Mutating, NEW o \in Of(Canonical), fs'[o]["leaf"] = "next",
             ~(pc' = "serial" /\ idx' = o)
      PROVE  Left(o)' = {fs'[o]}
  <2>0. o \in Ops /\ plan[o].kind \in Canonical /\ o \notin Files
    BY DEF Of, Files, Canonical
  <2>1. CASE Begin
    BY <1>2, <1>t, <2>0, <2>1 DEF Begin, target
  <2>2. CASE pc \in Mutating /\ pc = "serial" /\ idx = o
    <3>1. Placed(o) /\ SyncTargets({o})
      BY <1>2, <2>2, CanonicalSteps
    <3>2. cuts' = cuts /\ took' = took /\ fs' = fs
      BY <3>1 DEF Placed, Goto, Fails, budget, SyncTargets
    <3> QED BY <1>0, <1>t, <2>0, <3>1, <3>2, LeftSync
  <2>3. CASE pc \in Mutating /\ ~(pc = "serial" /\ idx = o)
    <3>1. CASE Kept(o)
      <4>1. Left(o) = {fs[o]}
        BY <1>2, <2>3, <3>1 DEF Synced, Kept
      <4> QED BY <3>1, <4>1 DEF Kept
    <3>2. CASE Turned(o)
      <4>1. ~TurnStage(o) /\ ~TurnAside(o) /\ ~TurnDisplace(o) /\ ~TurnRestore(o) /\ ~TurnEdit(o)
        BY <1>2, <1>t, <2>0, <2>3 DEF TurnStage, TurnAside, TurnDisplace, TurnRestore, TurnEdit,
           Becomes
      <4>2. ~TurnPlace(o)
        BY <1>t, <2>0, <2>3 DEF TurnPlace, Scheduled, PhasedAt
      <4> QED BY <2>0, <2>3, <3>2, <4>1, <4>2, TurnPlaces DEF Mutating
    <3> QED BY <1>2, <1>m, <2>0, <3>1, <3>2, EachTarget
  <2> QED BY <1>2, <2>1, <2>2, <2>3, Flow
<1>3. ASSUME pc' = "place", NEW o \in Backed, plan[o].kind = "remove" PROVE Left(o)' = {fs'[o]}
  <2>0. o \in Ops /\ plan[o].kind \notin Placing
    BY <1>3, OpSets DEF Placing, Canonical
  <2>p. pc \in Mutating
    <3>1. ~Begin
      BY <1>3, DieFacts DEF Begin, Goto, Dead
    <3> QED BY <1>3, <3>1, Flow DEF Mutating
  <2>1. CASE pc # "place"
    <3>1. IdentifyBackups
      BY <1>3, <2>1, <2>p, ToPlace
    <3>2. SyncTargets(Backed) /\ cuts' = cuts /\ took' = took
      <4>1. pc' \in Mutating
        BY <1>3 DEF Mutating
      <4>2. SyncTargets(Backed)
        BY <3>1, <4>1, RollsBack DEF IdentifyBackups
      <4>3. cuts' = cuts /\ took' = took
        <5>1. \A q \in Ops : ~Edit(q)
          BY <1>3, <2>1 DEF Edit, local
        <5> QED BY <1>m, <4>1, <5>1, Spending DEF Spent
      <4> QED BY <4>2, <4>3
    <3> QED BY <1>0, <1>t, <2>0, <3>2, LeftSync DEF SyncTargets
  <2>2. CASE pc = "place"
    <3>1. Left(o) = {fs[o]}
      BY <1>3, <2>2 DEF Synced
    <3>2. CASE Kept(o)
      BY <3>1, <3>2 DEF Kept
    <3>3. CASE Turned(o)
      <4>1. ~TurnStage(o) /\ ~TurnAside(o) /\ ~TurnPlace(o) /\ ~TurnDisplace(o) /\ ~TurnRestore(o)
        BY <1>3, <2>0, <2>2 DEF TurnStage, TurnAside, TurnPlace, TurnDisplace, TurnRestore, Mutating
      <4>2. TurnEdit(o) => Left(o)' = {fs'[o]}
        BY <1>3 DEF TurnEdit, Fresh
      <4> QED BY <2>0, <2>2, <3>3, <4>1, <4>2, TurnPlaces
    <3> QED BY <1>3, <1>m, <2>0, <3>2, <3>3, EachTarget DEF Mutating
  <2> QED BY <2>1, <2>2
<1> QED BY <1>0, <1>1, <1>2, <1>3 DEF Synced
-----------------------------------------------------------------------------
\* A target that had no name gets one only by a turn that found its directory.
LEMMA Wakes ==
  ASSUME TargetType, NEW o \in Ops, Alone(o), Turned(o), plan[o].seen = "none"
  PROVE  /\ fs[o] = NoNames /\ fs'[o] # NoNames => (TurnStage(o) \/ TurnEdit(o)) /\ Reached(o)
         /\ fs[o] # NoNames /\ fs'[o] = NoNames => Fresh(o)
<1>0. fs[o] \in Listing /\ fs'[o] \in Listing
  BY DEF TargetType, Alone
<1>n. /\ NoNames["leaf"] = "none" /\ NoNames["new"] = "none" /\ NoNames["bak"] = "none"
      /\ NoNames["delc"] = "none" /\ NoNames["delb"] = "none"
  BY NoNamesFacts DEF Names
<1>1. CASE TurnStage(o) \/ TurnEdit(o)
  BY <1>1, <1>n DEF TurnStage, TurnEdit, Becomes
<1>2. CASE TurnAside(o)
  BY <1>2 DEF TurnAside
<1>3. CASE TurnPlace(o)
  <2>1. Becomes(o, fs[o]["new"], "none", fs[o]["bak"], fs[o]["delc"], fs[o]["delb"])
           /\ fs[o]["leaf"] = "none"
    BY <1>3 DEF TurnPlace
  <2>2. fs[o] = NoNames <=> fs'[o] = NoNames
    BY <1>0, <1>n, <2>1, AllNone DEF Becomes
  <2> QED BY <2>2
<1>4. CASE TurnRestore(o)
  <2>1. Becomes(o, fs[o]["bak"], fs[o]["new"], "none", fs[o]["delc"], fs[o]["delb"]) /\ Fresh(o)
    BY <1>4 DEF TurnRestore
  <2>2. fs[o] = NoNames => fs'[o] = NoNames
    BY <1>0, <1>n, <2>1, AllNone DEF Becomes
  <2> QED BY <2>1, <2>2
<1>5. CASE TurnPutBack(o)
  <2>1. Becomes(o, fs[o]["delc"], fs[o]["new"], fs[o]["bak"], "none", fs[o]["delb"]) /\ Fresh(o)
    BY <1>5 DEF TurnPutBack
  <2>2. fs[o] = NoNames => fs'[o] = NoNames
    BY <1>0, <1>n, <2>1, AllNone DEF Becomes
  <2> QED BY <2>1, <2>2
<1>6. CASE TurnForget(o)
  <2>1. Becomes(o, fs[o]["leaf"], fs[o]["new"], fs[o]["bak"], fs[o]["delc"], "none") /\ Fresh(o)
    BY <1>6 DEF TurnForget
  <2>2. fs[o] = NoNames => fs'[o] = NoNames
    BY <1>0, <1>n, <2>1, AllNone DEF Becomes
  <2> QED BY <2>1, <2>2
<1>7. CASE TurnDisplace(o) \/ TurnDelete(o) \/ TurnShelve(o) \/ TurnNew(o) \/ TurnLeaf(o)
  BY <1>7, <1>n DEF TurnDisplace, TurnDelete, TurnShelve, TurnNew, TurnLeaf
<1> QED BY <1>1, <1>2, <1>3, <1>4, <1>5, <1>6, <1>7 DEF Turned

\* Housed, for one target and its directory.
HousedIn(o, d) ==
  /\ fs[o] # NoNames => "next" \in {fs[d]["leaf"], fs[d]["delc"]}
  /\ \A f \in Left(o), g \in Left(d) : f # NoNames => g["new"] # "next"
  /\ pc # "dark" /\ fs[o] = NoNames => Left(o) = {NoNames}

\* Every step keeps Housed: a directory is unlinked only when it is empty, and a
\* loss of power takes its targets with it.
LEMMA HousedStep ==
  ASSUME Base, Accepted, Named, Synced, Compared, Applying, Housed, [Next]_vars
  PROVE  Housed'
<1>0. plan' = plan /\ Ops' = Ops
  BY PlanNext
<1> SUFFICES ASSUME NEW o \in Ops, NEW d \in Ops, Nested(o), d = Dir(o) PROVE HousedIn(o, d)'
  <2>1. \A o \in Ops : Nested(o) => Dir(o) \in Ops
    BY DEF Nested, Dir
  <2>2. \A o \in Ops : (Nested(o)' <=> Nested(o)) /\ Dir(o)' = Dir(o)
    BY <1>0 DEF Nested, Dir
  <2> QED BY <1>0, <2>1, <2>2 DEF Housed, HousedIn
<1>1. PlanOK /\ TargetType
  BY DEF Base
<1>2. /\ d # o /\ plan[o].seen = "none" /\ plan[d].kind = "dir" /\ plan[d].seen = "none"
            /\ ~Nested(d) /\ o \in Below(d)
      /\ d \in Of(Canonical) /\ Reached(d)
  BY <1>1, NestedFacts DEF Of, Canonical, Below, Dir
<1>3. HousedIn(o, d)
  BY DEF Housed, HousedIn
<1>4. fs[o] \in Left(o) /\ fs[d] \in Left(d)
  BY <1>1, LeftNow
<1>r. Reached(o) <=> fs[d]["leaf"] = "next"
  <2>1. plan[o].in = d /\ plan[o].in # 0
    BY <1>1, PlanFacts DEF Dir
  <2> QED BY <2>1 DEF Reached
<1>5. CASE PowerLoss
  <2>1. /\ Left(o)' = {fs'[o]} /\ Left(d)' = {fs'[d]} /\ fs'[d] \in Left(d)
        /\ \/ fs'[o] \in Left(o) /\ \E n \in Names : fs'[d][n] = "next"
           \/ fs'[o] = NoNames
    BY <1>2, <1>5, PowerLossFacts
  <2>2. CASE fs'[o] = NoNames
    BY <2>1, <2>2 DEF HousedIn
  <2>3. CASE fs'[o] # NoNames
    <3>1. fs'[d]["new"] # "next"
      BY <1>3, <2>1, <2>3 DEF HousedIn
    <3>2. fs'[d]["bak"] = "none" /\ fs'[d]["delb"] = "none"
      BY <1>2, <2>1 DEF Named, NamedWell
    <3>3. "next" \in {fs'[d]["leaf"], fs'[d]["delc"]}
      BY <2>1, <2>3, <3>1, <3>2 DEF Names
    <3> QED BY <2>1, <2>3, <3>1, <3>3 DEF HousedIn
  <2> QED BY <2>2, <2>3
<1>d. ~PowerLoss /\ pc' # "dark" => pc # "dark"
  BY Flow DEF vars
<1>e. \/ PowerLoss \/ (Kept(o) /\ Kept(d))
      \/ Alone(o) /\ Turned(o) /\ Kept(d)
      \/ Alone(d) /\ Turned(d) /\ Kept(o)
  BY <1>2, EachTarget
<1>6. CASE ~PowerLoss /\ Kept(o) /\ Kept(d)
  BY <1>3, <1>6, <1>d DEF HousedIn, Kept
<1>7. CASE ~PowerLoss /\ Alone(o) /\ Turned(o) /\ Kept(d)
  <2>1. /\ fs[o] = NoNames /\ fs'[o] # NoNames => (TurnStage(o) \/ TurnEdit(o))
              /\ fs[d]["leaf"] = "next"
        /\ fs[o] # NoNames /\ fs'[o] = NoNames => Fresh(o)
    BY <1>1, <1>2, <1>7, <1>r, Wakes
  <2>2. /\ fs'[d] = fs[d] /\ Left(d)' \subseteq Left(d) /\ Left(o)' \subseteq Left(o) \cup {fs'[o]}
              /\ fs'[o] \in Left(o)'
    BY <1>7 DEF Kept, Alone
  <2>3. fs[d]["leaf"] = "next" /\ (TurnStage(o) \/ TurnEdit(o))
           => \A g \in Left(d) : g["new"] # "next"
    <3>1. TurnEdit(o) => Left(d) = {fs[d]}
      BY DEF TurnEdit, Left
    <3>2. TurnStage(o) /\ fs[d]["leaf"] = "next" => Left(d) = {fs[d]}
      BY <1>2 DEF TurnStage, Synced, Mutating
    <3>3. fs[d]["leaf"] = "next" => fs[d]["new"] # "next"
      BY <1>2, <1>4 DEF Named, NamedWell, Canonical
    <3> QED BY <3>1, <3>2, <3>3
  <2>4. fs'[o] # NoNames => "next" \in {fs'[d]["leaf"], fs'[d]["delc"]}
    BY <1>3, <2>1, <2>2 DEF HousedIn
  <2>5. ASSUME NEW f \in Left(o)', NEW g \in Left(d)', f # NoNames PROVE g["new"] # "next"
    BY <1>3, <1>4, <2>1, <2>2, <2>3, <2>5 DEF HousedIn
  <2>6. pc' # "dark" /\ fs'[o] = NoNames => Left(o)' = {NoNames}
    <3>1. CASE fs[o] = NoNames
      BY <1>3, <1>7, <1>d, <2>2, <3>1 DEF HousedIn
    <3>2. CASE fs[o] # NoNames
      BY <2>1, <3>2 DEF Fresh
    <3> QED BY <3>1, <3>2
  <2> QED BY <2>4, <2>5, <2>6 DEF HousedIn
<1>8. CASE ~PowerLoss /\ Alone(d) /\ Turned(d) /\ Kept(o)
  <2>1. /\ fs'[o] = fs[o] /\ Left(o)' \subseteq Left(o) /\ fs[o] \in Left(o)'
        /\ Left(d)' \subseteq Left(d) \cup {fs'[d]}
    BY <1>8 DEF Kept, Alone
  <2>2. ASSUME fs[o] # NoNames PROVE "next" \in {fs'[d]["leaf"], fs'[d]["delc"]}
    <3>1. "next" \in {fs[d]["leaf"], fs[d]["delc"]}
      BY <1>3, <2>2 DEF HousedIn
    <3>2. ~Emptied(d)
      BY <1>2, <2>2 DEF Emptied
    <3>3. ~TurnAside(d) /\ ~TurnDelete(d) /\ ~TurnPutBack(d) /\ ~TurnEdit(d)
      BY <1>2, <3>1, <3>2 DEF TurnAside, TurnDelete, TurnPutBack, TurnEdit
    <3>4. CASE TurnStage(d) \/ TurnPlace(d) \/ TurnDisplace(d) \/ TurnRestore(d)
      BY <3>1, <3>4 DEF TurnStage, TurnPlace, TurnDisplace, TurnRestore, Becomes
    <3>5. CASE TurnForget(d) \/ TurnShelve(d) \/ TurnNew(d)
      BY <3>1, <3>5 DEF TurnForget, TurnShelve, TurnNew, Becomes
    <3>6. CASE TurnLeaf(d)
      BY <3>1, <3>6 DEF TurnLeaf, Becomes, Compared
    <3> QED BY <1>8, <3>3, <3>4, <3>5, <3>6 DEF Turned
  <2>3. ASSUME NEW f \in Left(o)', NEW g \in Left(d)', f # NoNames PROVE g["new"] # "next"
    <3>1. \A h \in Left(d) : h["new"] # "next"
      BY <1>3, <2>1, <2>3 DEF HousedIn
    <3>2. ~TurnStage(d)
      <4>1. TurnStage(d) => pc \in Mutating /\ fs[d]["leaf"] = "none"
        BY <1>2 DEF TurnStage, Canonical, Mutating
      <4>2. pc \in Mutating => fs[d]["delc"] = "none" /\ pc # "dark"
        BY DEF Applying, Mutating
      <4>3. TurnStage(d) => fs[o] = NoNames /\ pc # "dark"
        BY <1>3, <4>1, <4>2 DEF HousedIn
      <4> QED BY <1>3, <2>1, <2>3, <4>3 DEF HousedIn
    <3>3. fs'[d]["new"] # "next"
      <4>1. fs[d]["new"] # "next"
        BY <1>4, <3>1
      <4>2. CASE TurnAside(d) \/ TurnPlace(d) \/ TurnDisplace(d) \/ TurnRestore(d) \/ TurnDelete(d)
                    \/ TurnPutBack(d)
        BY <4>1, <4>2 DEF TurnAside, TurnPlace, TurnDisplace, TurnRestore, TurnDelete, TurnPutBack,
           Becomes
      <4>3. CASE TurnForget(d) \/ TurnShelve(d) \/ TurnNew(d) \/ TurnLeaf(d) \/ TurnEdit(d)
        BY <4>1, <4>3 DEF TurnForget, TurnShelve, TurnNew, TurnLeaf, TurnEdit, Becomes
      <4> QED BY <1>8, <3>2, <4>2, <4>3 DEF Turned
    <3> QED BY <2>1, <3>1, <3>3
  <2>4. pc' # "dark" /\ fs'[o] = NoNames => Left(o)' = {NoNames}
    BY <1>3, <1>8, <1>d, <2>1 DEF HousedIn
  <2> QED BY <2>1, <2>2, <2>3, <2>4 DEF HousedIn
<1> QED BY <1>5, <1>6, <1>7, <1>8, <1>e
-----------------------------------------------------------------------------
\* What a rollback does with its own state.
LEMMA UndoSteps ==
  ASSUME Base, [Next]_vars, pc \in {"rollback", "back"}, pc' = pc
  PROVE  /\ mem' = mem
         /\ \/ idx' = idx /\ err' = err
            \/ pc = "rollback" /\ err' = "failed"
            \/ /\ idx \in Ops /\ idx' = idx - 1 /\ err' = err
               /\ \/ UndoSkip(idx) \/ UndoDone(idx) \/ RestoreBackup(idx)
                  \/ DeleteCreated(idx) /\ fs[idx]["delc"] = "next" /\ at = "leaf"
                        /\ plan[idx].seen = "none"
<1>d. ~Exit /\ ~Die /\ ~Killed
  BY DieFacts DEF Exit, Gone, Dead, Killed
<1>t. ASSUME NEW o, NEW f, NEW A, Settle(o, f, A) PROVE A
  BY <1>d, <1>t DEF Settle
<1>u. ASSUME NEW o, UndoFails(o) PROVE pc = "rollback" /\ err' = "failed" /\ mem' = mem
  BY <1>d, <1>u DEF UndoFails
<1>1. ASSUME NEW o \in Ops, UndoSkip(o) \/ UndoDone(o)
      PROVE  idx = o /\ mem' = mem /\ idx' = o - 1 /\ err' = err
  BY <1>1 DEF UndoSkip, UndoDone, Undoing, Goto
<1>2. ASSUME NEW o \in Ops, RestoreBackup(o)
      PROVE  idx = o /\ mem' = mem /\ idx' = o - 1 /\ err' = err
  BY <1>2, <1>t DEF RestoreBackup, Undoing, Goto
<1>3. ASSUME NEW o \in Ops, UndoRefuses(o) PROVE pc = "rollback" /\ err' = "failed" /\ mem' = mem
  BY <1>3, <1>u DEF UndoRefuses
<1>4. ASSUME NEW o \in Ops, QuarantineNew(o) \/ CheckCreated(o)
      PROVE  mem' = mem /\ idx' = idx /\ err' = err
  BY <1>4, <1>t DEF QuarantineNew, CheckCreated, Undoing, Goto
<1>5. ASSUME NEW o \in Ops, QuarantineLeaf(o)
      PROVE  mem' = mem /\ ((idx' = idx /\ err' = err) \/ (pc = "rollback" /\ err' = "failed"))
  BY <1>5, <1>t, <1>u DEF QuarantineLeaf, Goto
<1>6. ASSUME NEW o \in Ops, DeleteCreated(o) PROVE
         /\ mem' = mem /\ idx = o
         /\ \/ idx' = o /\ err' = err
            \/ pc = "rollback" /\ err' = "failed"
            \/ fs[o]["delc"] = "next" /\ at = "leaf" /\ plan[o].seen = "none" /\ idx' = o - 1
                  /\ err' = err
  <2>1. idx = o
    BY <1>6 DEF DeleteCreated, Undoing
  <2>2. CASE \E i : i = (IF at = "leaf" /\ plan[o].seen = "none" THEN o - 1 ELSE o)
                /\ fs[o]["delc"] = "next"
                    /\ Goto(pc, i, "") /\ UNCHANGED mem
    BY <2>1, <2>2 DEF Goto
  <2> QED BY <1>6, <1>t, <1>u, <2>1, <2>2 DEF DeleteCreated
<1>7. (\E o \in Ops : Edit(o)) \/ UNCHANGED vars => mem' = mem /\ idx' = idx /\ err' = err
  BY DEF Edit, local, vars
<1>8. ASSUME NEW o \in Ops, SerialStep(o) \/ FinishStep(o) PROVE FALSE
  <2>1. ~SerialStep(o)
    BY DEF SerialStep, AssertAbsent, SerialStage, SerialRecord, SerialIntent, CheckSource,
       MoveAside,
       SerialIdentify, Place, Placed, Unplace, Link
  <2>2. ~FinishStep(o)
    BY DEF FinishStep, FinishRefuses, QuarantineBackup, DeleteBackup, FinishNext
  <2> QED BY <1>8, <2>1, <2>2
<1>9. ~(StageFiles \/ PinSources \/ IdentifyBackups \/ VerifyApplied \/ StageCatalog
           \/ ExchangeCatalog \/ UnstageCatalog
        \/ FinishDone \/ CleanCatalog \/ RemoveJournal \/ Begin \/ Recover \/ IoError)
  BY DEF StageFiles, PinSources, IdentifyBackups, VerifyApplied, StageCatalog, ExchangeCatalog,
     UnstageCatalog,
     FinishDone, CleanCatalog, RemoveJournal, Begin, Recover, IoError
<1>10. ~(RollbackDone \/ RecoverRolledBack \/ Kill \/ PowerLoss)
  BY <1>d DEF RollbackDone, RecoverRolledBack, Kill, PowerLoss, Gone, Goto
<1> QED BY <1>1, <1>2, <1>3, <1>4, <1>5, <1>6, <1>7, <1>8, <1>9, <1>10
     DEF Next, Work, Environment, UndoStep

\* A rollback begins with the last operation.
LEMMA UndoBegins ==
  ASSUME Base, [Next]_vars, pc' \in {"rollback", "back"}, pc' # pc
  PROVE  idx' = N /\ (pc \in Mutating \/ Recover) /\ (pc' = "back" => Recover)
            /\ (pc' = "rollback" => pc \in Mutating)
<1>1. (pc' = "back" => Recover) /\ (pc' = "rollback" => pc \in Mutating)
  BY Flow
<1>2. Recover /\ pc' = "back" => idx' = N
  BY DEF Recover, Goto
<1>3. ASSUME pc \in Mutating, pc' = "rollback" PROVE idx' = N
  <2>r. ASSUME (\E c : Fails(c)) \/ FailsIo \/ (\E c, r : Rollback(c, r)) PROVE idx' = N
    BY <2>r DEF Fails, FailsIo, Rollback
  <2>d. ~Die /\ ~Exit /\ ~Killed
    BY <1>3, DieFacts DEF Dead, Exit, Killed, Gone
  <2>g. \A p \in Mutating \cup {"publish"} : \A i, x : ~Goto(p, i, x)
    BY <1>3 DEF Goto, Mutating
  <2>m. "serial" \in Mutating /\ "link" \in Mutating /\ "move" \in Mutating /\ "place" \in Mutating
    BY DEF Mutating
  <2>s. ASSUME NEW m, NEW p \in Mutating, NEW i, NEW x, SaveJournal(m, p, i, x) PROVE idx' = N
    BY <2>d, <2>g, <2>r, <2>s DEF SaveJournal
  <2>1. ASSUME NEW o \in Ops, AssertAbsent(o) \/ SerialStage(o) \/ SerialRecord(o)
                 \/ SerialIntent(o) \/ CheckSource(o)
        PROVE  idx' = N
    BY <2>1, <2>r, <2>s, <2>g, <2>m DEF AssertAbsent, SerialStage, SerialRecord, SerialIntent,
       CheckSource
  <2>2. ASSUME NEW o \in Ops, MoveAside(o) \/ SerialIdentify(o) \/ Place(o) \/ Placed(o)
                 \/ Unplace(o) \/ Link(o)
        PROVE  idx' = N
    BY <2>2, <2>r, <2>s, <2>g, <2>m DEF MoveAside, SerialIdentify, RestoreRaced, Place, Placed,
       Unplace, Link
  <2>3. StageFiles \/ PinSources \/ IdentifyBackups \/ VerifyApplied \/ IoError => idx' = N
    BY <2>r, <2>s, <2>g, <2>m DEF StageFiles, PinSources, IdentifyBackups, RestoreRaced,
       VerifyApplied, IoError
  <2>4. ASSUME NEW o \in Ops, FinishStep(o) \/ UndoStep(o) \/ Edit(o) PROVE FALSE
    <3>1. ~Edit(o)
      BY DEF Edit, local
    <3>2. ~FinishStep(o)
      BY <1>3 DEF FinishStep, FinishRefuses, QuarantineBackup, DeleteBackup, FinishNext, Mutating
    <3>3. ~UndoStep(o)
      BY <1>3 DEF UndoStep, UndoSkip, UndoRefuses, UndoDone, QuarantineNew, CheckCreated,
         QuarantineLeaf,
         DeleteCreated, RestoreBackup, Undoing, Mutating
    <3> QED BY <2>4, <3>1, <3>2, <3>3
  <2>5. ~(StageCatalog \/ ExchangeCatalog \/ UnstageCatalog \/ FinishDone \/ CleanCatalog
             \/ RemoveJournal \/ Begin
          \/ Recover \/ RollbackDone \/ RecoverRolledBack \/ UNCHANGED vars)
    BY <1>3 DEF StageCatalog, ExchangeCatalog, UnstageCatalog, FinishDone, CleanCatalog,
       RemoveJournal, Begin,
       Recover, RollbackDone, RecoverRolledBack, vars, Mutating
  <2>6. ~(Kill \/ PowerLoss)
    BY <1>3, <2>d DEF Kill, PowerLoss, Gone
  <2> QED BY <2>1, <2>2, <2>3, <2>4, <2>5, <2>6 DEF Next, Work, Environment, SerialStep
<1> QED BY <1>1, <1>2, <1>3

\* A leaf that is not the plan's, with no backup, is what the plan observed.
LEMMA Reverts ==
  ASSUME Base, Mine, Preserving, SomePrev, NEW o \in Ops \ took, NEW f \in Left(o),
         f["bak"] = "none", f["leaf"] # "next"
  PROVE  f["leaf"] = plan[o].seen
<1>1. plan[o].seen \in {"none", "prior"}
  BY PlanFacts DEF Base
<1>2. f["leaf"] \in {"none", "prior"} /\ (f["leaf"] = "prior" => plan[o].seen = "prior")
  <2>1. "leaf" \in Names /\ f \in Listing
    BY LeftNow DEF Base, Names
  <2>2. f["leaf"] \in {"none", "prior", "next", "foreign"}
    BY <2>1 DEF Listing, Objects
  <2> QED BY <2>1, <2>2 DEF Mine
<1>3. plan[o].seen = "prior" => f["leaf"] = "prior"
  BY DEF Preserving
<1> QED BY <1>1, <1>2, <1>3

\* The journal that comes back, or the one in memory, tells what was created.
LEMMA OnRecord ==
  ASSUME Base, Accepted, Covering, CreatedFirst, NEW o \in Ops, NEW f \in Left(o),
         pc \notin {"down", "dark"}
  PROVE  /\ plan[o].kind \notin Placing \cup {"remove"} => f["bak"] = "none"
         /\ SomePrev /\ plan[o].kind \notin Placing => f["leaf"] # "next"
         /\ pc \in {"rollback", "back"} /\ f["leaf"] = "next" => mem[o].created
         /\ pc = "rollback" /\ mem[o] = Blank =>
              f["bak"] = "none" /\ f["leaf"] # "next"
                 /\ (plan[o].kind = "file" => f["new"] = "none")
<1>1. jrn \in jdur /\ jrn # NoJournal
  BY DEF Base, StoreType, Controlled
<1>2. LegalRecord(o, jrn[o])
  BY <1>1 DEF Accepted, LegalAll
<1>3. CoveredBy(o, f, jrn) /\ (SomePrev /\ f["leaf"] = "next" => jrn[o].created)
  BY <1>1 DEF Covering, CreatedFirst
<1>4. pc \in {"rollback", "back"} => SomePrev
  BY PrevNow
<1>5. pc \in {"rollback", "back"} => (jrn[o].created => mem[o].created)
         /\ (jrn[o].backup # "none" => mem[o].backup # "none")
  BY <1>1 DEF Base, Controlled
<1>6. plan[o].kind \notin Placing \cup {"remove"} => f["bak"] = "none"
  BY <1>2, <1>3 DEF LegalRecord, CoveredBy
<1>7. SomePrev /\ plan[o].kind \notin Placing => f["leaf"] # "next"
  BY <1>2, <1>3 DEF LegalRecord
<1>8. pc = "rollback" /\ mem[o] = Blank => ~jrn[o].created /\ jrn[o].backup = "none"
  BY <1>5, BlankFacts
<1> QED BY <1>3, <1>4, <1>5, <1>6, <1>7, <1>8 DEF CoveredBy
-----------------------------------------------------------------------------
\* The targets that a rollback has behind it stay as it left them.
LEMMA UndoneBehind ==
  ASSUME Base, Accepted, Compared, Housed, [Next]_vars, pc \in {"rollback", "back"}, pc' = pc,
         NEW o \in Ops, o > idx, (Tidy(o) /\ Reverted(o)) \/ Pending(o)
  PROVE  (Tidy(o) /\ Reverted(o))' \/ (Nested(o) /\ Dir(o) <= idx /\ fs'[Dir(o)]["delc"] = "next")
<1>0. plan' = plan /\ PlanOK /\ TargetType /\ ~PowerLoss /\ pc # "dark" /\ pc' # "dark"
  BY PlanNext DEF Base, PowerLoss, Gone
<1>i. o # idx
  <2>1. o \in Nat
    BY <1>0, PlanFacts
  <2> QED BY <2>1
<1>1. fs[o] \in Left(o) /\ took \subseteq took'
  BY <1>0, LeftNow, EachTarget
<1>2. CASE (Tidy(o) /\ Reverted(o)) /\ Kept(o)
  BY <1>0, <1>1, <1>2 DEF Tidy, Reverted, Kept
<1>3. CASE (Tidy(o) /\ Reverted(o)) /\ ~Kept(o)
  <2>1. TurnEdit(o)
    BY <1>0, <1>3, <1>i, EachTarget, TurnPlaces DEF Mutating
  <2>2. /\ Left(o)' = {fs'[o]} /\ o \in took' /\ fs'[o]["leaf"] \in {"none", "foreign"}
        /\ fs'[o]["bak"] = fs[o]["bak"] /\ fs'[o]["new"] = fs[o]["new"]
    BY <1>0, <2>1 DEF TurnEdit, Fresh, Becomes
  <2> QED BY <1>0, <1>1, <1>3, <2>2 DEF Tidy, Reverted
<1>4. CASE Pending(o)
  <2> DEFINE d == Dir(o)
  <2>0. Nested(o) /\ d <= idx /\ fs[d]["delc"] = "next" /\ d \in Ops /\ d # o
           /\ plan[o].seen = "none" /\ o \in Below(d)
    BY <1>0, <1>4, NestedFacts DEF Pending, Below, Dir
  <2>1. CASE Kept(d)
    BY <2>0, <2>1 DEF Kept
  <2>2. CASE ~Kept(d)
    <3>1. Turned(d) /\ Kept(o)
      BY <1>0, <2>0, <2>2, EachTarget
    <3>2. CASE TurnDelete(d)
      <4>1. fs[o] = NoNames
        BY <2>0, <3>2 DEF TurnDelete, Emptied
      <4>2. Left(o) = {NoNames}
        BY <1>0, <2>0, <4>1 DEF Housed
      <4>3. \A f \in Left(o)' : f = NoNames
        BY <3>1, <4>2 DEF Kept
      <4>4. \A f \in Left(o)' : f["bak"] = "none" /\ f["new"] = "none" /\ f["leaf"] = "none"
        BY <4>3, NoNamesFacts DEF Names
      <4> QED BY <1>0, <2>0, <4>4 DEF Tidy, Reverted
    <3>3. CASE TurnRestore(d) \/ TurnEdit(d)
      BY <2>0, <3>3 DEF TurnRestore, TurnEdit, Becomes
    <3>4. ~TurnPutBack(d) /\ ~TurnNew(d) /\ ~TurnLeaf(d)
      BY <2>0 DEF TurnPutBack, TurnNew, TurnLeaf, Compared
    <3> QED BY <1>0, <2>0, <3>1, <3>2, <3>3, <3>4, TurnPlaces DEF Mutating
  <2> QED BY <2>1, <2>2
<1> QED BY <1>2, <1>3, <1>4

\* The operation that a rollback is done with.
LEMMA UndoneHere ==
  ASSUME Base, Accepted, Covering, Named, Mine, Preserving, CreatedFirst, Compared, Housed, Synced,
         [Next]_vars,
         pc \in {"rollback", "back"}, pc' = pc, pc = "back"
            \/ err' = "error", NEW o \in Ops, idx = o, idx' = o - 1,
         \/ UndoSkip(o) \/ UndoDone(o) \/ RestoreBackup(o)
         \/ DeleteCreated(o) /\ fs[o]["delc"] = "next" /\ at = "leaf" /\ plan[o].seen = "none"
  PROVE  (Tidy(o) /\ Reverted(o))' \/ (Nested(o) /\ Dir(o) <= o - 1 /\ fs'[Dir(o)]["delc"] = "next")
<1>0. plan' = plan /\ Ops' = Ops /\ PlanOK /\ TargetType /\ ~PowerLoss /\ pc # "dark"
         /\ pc' # "dark" /\ pc \notin {"down", "dark"}
  BY PlanNext DEF Base, PowerLoss, Gone
<1>1. fs[o] \in Left(o) /\ plan[o].seen \in {"none", "prior"} /\ SomePrev /\ cuts' = cuts
  BY <1>0, LeftNow, PlanFacts, PrevNow, EachTarget
<1>n. Names = {"leaf", "new", "bak", "delc", "delb"} /\ fs[o] \in Listing
  BY <1>0 DEF Names, TargetType
<1>2. ASSUME took' = took, Left(o)' \subseteq Left(o),
             \A f \in Left(o)' : f["bak"] = "none" /\ f["leaf"] # "next"
                /\ (plan[o].kind = "file" => f["new"] = "none")
      PROVE  (Tidy(o) /\ Reverted(o))'
  <2>1. \A f \in Left(o)' : o \notin took => f["leaf"] = plan[o].seen
    BY <1>1, <1>2, Reverts
  <2> QED BY <1>0, <1>2, <2>1 DEF Tidy, Reverted
<1>3. CASE UndoSkip(o)
  <2>1. UNCHANGED target /\ took' = took /\ pc = "rollback" /\ mem[o] = Blank
    BY <1>3 DEF UndoSkip, Goto, budget, Untouched
  <2>2. Left(o)' = Left(o)
    BY <1>0, <1>1, <2>1, LeftSame
  <2> QED BY <1>0, <1>2, <2>1, <2>2, OnRecord
<1>4. CASE UndoDone(o)
  <2>1. took' = took /\ Undo(o) = "done" /\ fs' = fs
    BY <1>4 DEF UndoDone, Goto, budget, Undoing, SyncTargets
  <2>2. /\ Left(o)' \subseteq Left(o)
        /\ plan[o].kind \in Placing /\ Reached(o) => Left(o)' = {fs[o]}
    <3>1. PICK S : SyncTargets(S) /\ (plan[o].kind \in Placing /\ Reached(o) => o \in S)
      <4>1. plan[o].kind \in Placing => plan[o].kind # "remove"
        BY DEF Placing, Canonical
      <4> QED BY <1>4, <4>1 DEF UndoDone
    <3>2. Still /\ \A q \in S \cap Ops : Left(q)' = {fs[q]}
      BY <1>0, <1>1, <2>1, <3>1, LeftSync
    <3> QED BY <3>1, <3>2 DEF Still
  <2>3. /\ plan[o].kind \in Placing => View(o)["new"] = "none"
        /\ plan[o].kind \in Placing \cup {"remove"} =>
             /\ View(o)["bak"] = "none"
             /\ plan[o].seen = "prior" => View(o)["leaf"] # "next"
        /\ plan[o].kind \in Placing /\ plan[o].seen = "none"
              => ~(mem[o].created /\ View(o)["leaf"] = "next")
    BY <1>1, <2>1, UndoDoneFacts
  <2>4. CASE plan[o].kind \notin Placing
    <3>1. ASSUME NEW f \in Left(o) PROVE f["bak"] = "none" /\ f["leaf"] # "next"
      <4>1. f["leaf"] # "next"
        BY <1>0, <1>1, <2>4, OnRecord
      <4>2. plan[o].kind # "remove" => f["bak"] = "none"
        BY <1>0, <2>4, OnRecord
      <4>3. plan[o].seen = "none" => f["bak"] = "none"
        BY DEF Named, NamedWell
      <4>4. plan[o].kind = "remove" /\ plan[o].seen = "prior" => f["bak"] = "none"
        <5>1. plan[o].kind = "remove" /\ plan[o].seen = "prior" => fs[o]["bak"] = "none"
          BY <1>0, <2>3, NestedFacts, ViewFacts
        <5> QED BY <1>0, <5>1 DEF Synced
      <4> QED BY <1>1, <4>1, <4>2, <4>3, <4>4
    <3>2. plan[o].kind # "file"
      BY <2>4 DEF Placing
    <3> QED BY <1>2, <2>1, <2>2, <3>1, <3>2
  <2>5. CASE plan[o].kind \in Placing /\ Reached(o)
    <3>1. fs[o]["bak"] = "none" /\ fs[o]["new"] = "none" /\ fs[o]["leaf"] # "next"
      <4>1. View(o) = fs[o]
        BY <2>5, ViewFacts
      <4>2. fs[o]["leaf"] = "next" => mem[o].created
        BY <1>0, <1>1, OnRecord
      <4> QED BY <1>1, <2>3, <2>5, <4>1, <4>2
    <3> QED BY <1>1, <1>2, <2>1, <2>2, <2>5, <3>1
  <2>6. CASE plan[o].kind \in Placing /\ ~Reached(o)
    <3>1. Nested(o)
      BY <1>0, <2>6, NestedFacts DEF Placing, Canonical
    <3>2. Dir(o) \in Ops /\ Dir(o) < o /\ plan[o].seen = "none" /\ fs[Dir(o)]["leaf"] # "next"
      BY <1>0, <2>6, <3>1, NestedFacts DEF Reached, Nested, Dir
    <3>3. CASE fs[o] = NoNames
      <4>1. Left(o) = {NoNames}
        BY <1>0, <3>1, <3>3 DEF Housed
      <4>2. NoNames["bak"] = "none" /\ NoNames["new"] = "none" /\ NoNames["leaf"] # "next"
        BY <1>n, NoNamesFacts
      <4> QED BY <1>2, <2>1, <2>2, <4>1, <4>2
    <3>4. CASE fs[o] # NoNames
      <4>1. fs[Dir(o)]["delc"] = "next"
        BY <3>1, <3>2, <3>4 DEF Housed
      <4>2. Dir(o) <= o - 1
        <5>1. o \in Nat /\ Dir(o) \in Nat
          BY <1>0, <3>2, PlanFacts
        <5> QED BY <3>2, <5>1
      <4> QED BY <2>1, <3>1, <4>1, <4>2
    <3> QED BY <3>3, <3>4
  <2> QED BY <2>4, <2>5, <2>6
<1>5. CASE RestoreBackup(o)
  <2>1. Undo(o) = "restore"
    BY <1>5 DEF RestoreBackup, Undoing
  <2>2. fs[o]["bak"] = "prior" /\ plan[o].seen = "prior"
           /\ (plan[o].kind \in Placing => fs[o]["new"] = "none")
    BY <1>1, <2>1, UndoFacts
  <2>3. PutSynced(o, Move(fs[o], "bak", "leaf")) /\ took' = took
    <3>1. ~Die
      BY <1>0, DieFacts DEF Dead
    <3> QED BY <1>5, <3>1 DEF RestoreBackup, Settle, Goto, budget
  <2>4. /\ Move(fs[o], "bak", "leaf") \in Listing /\ Move(fs[o], "bak", "leaf")["leaf"] = "prior"
        /\ Move(fs[o], "bak", "leaf")["bak"] = "none"
              /\ Move(fs[o], "bak", "leaf")["new"] = fs[o]["new"]
    BY <1>n, <2>2, MoveFacts
  <2>5. Left(o)' = {Move(fs[o], "bak", "leaf")}
    BY <1>0, <1>1, <2>3, <2>4, LeftPutSynced DEF Changed
  <2>6. plan[o].kind = "file" => fs[o]["new"] = "none"
    BY <2>2 DEF Placing
  <2> QED BY <1>0, <2>2, <2>4, <2>5, <2>6 DEF Tidy, Reverted
<1>6. CASE DeleteCreated(o) /\ fs[o]["delc"] = "next" /\ at = "leaf" /\ plan[o].seen = "none"
  <2>1. PutSynced(o, Unlink(fs[o], "delc")) /\ took' = took
    <3>1. ~Die
      BY <1>0, DieFacts DEF Dead
    <3>2. ~UndoFails(o)
      <4>1. ~Exit
        BY <1>0 DEF Exit, Gone
      <4> QED BY <4>1 DEF UndoFails
    <3> QED BY <1>6, <3>1, <3>2 DEF DeleteCreated, Settle, Goto, budget
  <2>2. /\ Unlink(fs[o], "delc") \in Listing /\ Unlink(fs[o], "delc")["leaf"] = fs[o]["leaf"]
        /\ Unlink(fs[o], "delc")["bak"] = fs[o]["bak"]
              /\ Unlink(fs[o], "delc")["new"] = fs[o]["new"]
    BY <1>n, UnlinkFacts
  <2>3. fs[o]["leaf"] # "next" /\ (o \notin took => fs[o]["leaf"] = "none") /\ fs[o]["new"] = "none"
    BY <1>6 DEF Compared
  <2>4. fs[o]["bak"] = "none"
    BY <1>1, <1>6 DEF Named, NamedWell
  <2>5. Left(o)' = {Unlink(fs[o], "delc")}
    BY <1>0, <1>1, <2>1, <2>2, LeftPutSynced DEF Changed
  <2> QED BY <1>0, <1>6, <2>1, <2>2, <2>3, <2>4, <2>5 DEF Tidy, Reverted
<1> QED BY <1>3, <1>4, <1>5, <1>6

\* A created directory that a rollback is done with is not in quarantine.
LEMMA DirectoryUndone ==
  ASSUME Base, Undone, [Next]_vars, pc \in {"rollback", "back"}, pc' = pc,
         pc = "back" \/ err' = "error", NEW i \in Ops,
         plan[i].kind \in Placing, plan[i].seen = "none", Reached(i),
         UndoSkip(i) \/ UndoDone(i) \/ RestoreBackup(i)
            \/ (DeleteCreated(i) /\ fs[i]["delc"] = "next")
  PROVE  fs'[i]["delc"] # "next"
<1>0. plan' = plan /\ Ops' = Ops /\ PlanOK
  BY PlanNext DEF Base
<1>1. CASE UndoSkip(i)
  <2>1. fs'[i] = fs[i] /\ mem[i] = Blank /\ pc = "rollback"
    BY <1>1 DEF UndoSkip, target, Untouched
  <2> QED BY <2>1, BlankFacts DEF Undone
<1>2. CASE UndoDone(i)
  <2>1. fs' = fs /\ Undo(i) = "done"
    BY <1>2 DEF UndoDone, Undoing, SyncTargets
  <2>2. View(i)["delc"] = "none"
    BY <2>1, UndoDoneFacts
  <2> QED BY <2>1, <2>2, ViewFacts
<1>3. CASE RestoreBackup(i)
  <2>1. Undo(i) = "restore"
    BY <1>3 DEF RestoreBackup, Undoing
  <2> QED BY <2>1, UndoFacts
<1>4. CASE DeleteCreated(i) /\ fs[i]["delc"] = "next"
  <2>1. Put(i, Unlink(fs[i], "delc")) \/ PutSynced(i, Unlink(fs[i], "delc"))
    <3>1. ~UndoFails(i)
      BY DEF UndoFails, Exit, Gone
    <3> QED BY <1>4, <3>1 DEF DeleteCreated, Settle
  <2>2. fs[i] \in Listing /\ TargetType
    BY DEF Base, TargetType
  <2>3. Unlink(fs[i], "delc") \in Listing /\ Unlink(fs[i], "delc")["delc"] = "none"
    BY <2>2, UnlinkFacts DEF Names
  <2>4. fs'[i] = Unlink(fs[i], "delc")
    BY <1>0, <2>1, <2>2, <2>3, PutFacts, PutSyncedFacts
  <2> QED BY <2>3, <2>4
<1> QED BY <1>1, <1>2, <1>3, <1>4

\* Every step keeps Undone: the rollback takes the operations in reverse order.
LEMMA UndoneStep ==
  ASSUME Base, Accepted, Covering, Named, Mine, Preserving, CreatedFirst, Compared, Applying,
         Housed, Synced, Undone,
         [Next]_vars
  PROVE  Undone'
<1>0. plan' = plan /\ Ops' = Ops /\ N' = N /\ PlanOK /\ N \in Nat /\ Ops = 1 .. N
  BY PlanNext, PlanFacts DEF Base
<1>1. ASSUME pc' = "rollback", NEW o \in Ops, fs'[o]["delc"] # "none" PROVE mem'[o].created
  <2>0. ~PowerLoss
    BY <1>1 DEF PowerLoss, Gone
  <2>1. fs'[o]["delc"] = fs[o]["delc"] \/ (pc \in {"rollback", "back"} /\ mem[o].created)
    <3>1. CASE Kept(o)
      BY <3>1 DEF Kept
    <3>2. CASE TurnStage(o) \/ TurnAside(o) \/ TurnPlace(o) \/ TurnDisplace(o) \/ TurnRestore(o)
                  \/ TurnForget(o) \/ TurnShelve(o) \/ TurnEdit(o)
      BY <3>2 DEF TurnStage, TurnAside, TurnPlace, TurnDisplace, TurnRestore, TurnForget,
         TurnShelve, TurnEdit, Becomes
    <3>3. CASE TurnDelete(o) \/ TurnPutBack(o) \/ TurnNew(o) \/ TurnLeaf(o)
      BY <1>1, <3>3 DEF TurnDelete, TurnPutBack, TurnNew, TurnLeaf, Becomes
    <3> QED BY <2>0, <3>1, <3>2, <3>3, EachTarget DEF Turned
  <2>2. CASE pc = "rollback"
    <3>1. mem' = mem
      BY <1>1, <2>2, UndoSteps
    <3> QED BY <1>1, <2>1, <2>2, <3>1 DEF Undone
  <2>3. CASE pc # "rollback"
    <3>1. pc \in Mutating
      BY <1>1, <2>3, Flow
    <3> QED BY <1>1, <2>1, <3>1 DEF Applying, Mutating
  <2> QED BY <2>2, <2>3
<1>2. ASSUME pc' = "back" \/ (pc' = "rollback" /\ err' = "error"), NEW o \in Ops, o > idx'
      PROVE  (Tidy(o) /\ Reverted(o))' \/ Pending(o)'
  <2>1. CASE pc' # pc
    <3>1. idx' = N
      BY <1>2, <2>1, UndoBegins
    <3> QED BY <1>0, <1>2, <3>1
  <2>2. CASE pc' = pc
    <3>0. pc \in {"rollback", "back"} /\ (pc = "back" \/ err' = "error")
      BY <1>2, <2>2
    <3>1. /\ mem' = mem
          /\ \/ idx' = idx /\ err' = err
             \/ /\ idx \in Ops /\ idx' = idx - 1 /\ err' = err
                /\ \/ UndoSkip(idx) \/ UndoDone(idx) \/ RestoreBackup(idx)
                   \/ DeleteCreated(idx) /\ fs[idx]["delc"] = "next" /\ at = "leaf"
                         /\ plan[idx].seen = "none"
      BY <2>2, <3>0, UndoSteps
    <3>u. pc = "back" \/ (pc = "rollback" /\ err = "error")
      BY <3>0, <3>1
    <3>p. Nested(o)' = Nested(o) /\ Dir(o)' = Dir(o)
      BY <1>0 DEF Nested, Dir
    <3>2. o > idx => (Tidy(o) /\ Reverted(o)) \/ Pending(o)
      BY <3>u DEF Undone
    <3>3. o > idx => (Tidy(o) /\ Reverted(o))'
             \/ (Nested(o) /\ Dir(o) <= idx /\ fs'[Dir(o)]["delc"] = "next")
      BY <2>2, <3>0, <3>2, UndoneBehind
    <3>4. CASE idx' = idx
      BY <1>0, <1>2, <3>3, <3>4, <3>p DEF Pending
    <3>5. CASE /\ idx \in Ops /\ idx' = idx - 1
               /\ \/ UndoSkip(idx) \/ UndoDone(idx) \/ RestoreBackup(idx)
                  \/ DeleteCreated(idx) /\ fs[idx]["delc"] = "next" /\ at = "leaf"
                        /\ plan[idx].seen = "none"
      <4>1. CASE o = idx
        <5>1. (Tidy(o) /\ Reverted(o))'
                 \/ (Nested(o) /\ Dir(o) <= o - 1 /\ fs'[Dir(o)]["delc"] = "next")
          BY <2>2, <3>0, <3>5, <4>1, UndoneHere
        <5> QED BY <3>5, <3>p, <4>1, <5>1 DEF Pending
      <4>2. CASE o # idx
        <5>1. o > idx /\ idx \in Nat
          BY <1>0, <1>2, <3>5, <4>2
        <5>2. Nested(o) => Dir(o) \in Nat /\ plan[Dir(o)].kind \in Placing
                 /\ plan[Dir(o)].seen = "none" /\ Reached(Dir(o))
          BY <1>0, NestedFacts DEF Placing, Canonical
        <5>3. Nested(o) /\ Dir(o) = idx => fs'[Dir(o)]["delc"] # "next"
          BY <2>2, <3>0, <3>5, <5>2, DirectoryUndone
        <5>4. Nested(o) /\ Dir(o) <= idx /\ Dir(o) # idx => Dir(o) <= idx'
          BY <3>5, <5>1, <5>2
        <5> QED BY <3>3, <3>p, <5>1, <5>3, <5>4 DEF Pending
      <4> QED BY <4>1, <4>2
    <3> QED BY <3>1, <3>4, <3>5
  <2> QED BY <2>1, <2>2
<1> QED BY <1>0, <1>1, <1>2 DEF Undone
-----------------------------------------------------------------------------
\* What finish does with its own state.
LEMMA FinishSteps ==
  ASSUME Base, [Next]_vars, pc \in {"finish", "forward"}, pc' = pc
  PROVE  \/ (idx' = idx /\ at' = at /\ \A o \in Ops : Kept(o) \/ TurnEdit(o))
         \/ /\ idx \in Ops /\ QuarantineBackup(idx) /\ PutSynced(idx, Move(fs[idx], "bak", "delb"))
            /\ idx' = idx /\ at' = "delete" /\ Finishable(idx) /\ fs[idx]["bak"] = "prior"
         \/ /\ idx \in Ops /\ DeleteBackup(idx) /\ PutSynced(idx, Unlink(fs[idx], "delb"))
            /\ idx' = After(ToFinish, idx) /\ at' = ""
            /\ at = "delete" \/ (Finishable(idx) /\ fs[idx]["delb"] # "none")
         \/ /\ idx \in Ops /\ FinishNext(idx) /\ SyncTargets({idx}) /\ took' = took
                  /\ idx' = After(ToFinish, idx) /\ at' = ""
            /\ Finishable(idx) /\ fs[idx]["bak"] = "none"
<1>d. ~Exit /\ ~Die /\ ~Killed
  BY DieFacts DEF Exit, Gone, Dead, Killed
<1>t. ASSUME NEW o, NEW f, NEW A, Settle(o, f, A) PROVE PutSynced(o, f) /\ A
  BY <1>d, <1>t DEF Settle
<1>1. ASSUME NEW o \in Ops, QuarantineBackup(o) PROVE
        idx = o /\ PutSynced(o, Move(fs[o], "bak", "delb")) /\ idx' = idx /\ at' = "delete"
           /\ Finishable(o) /\ fs[o]["bak"] = "prior"
  BY <1>1, <1>t DEF QuarantineBackup, Goto
<1>2. ASSUME NEW o \in Ops, DeleteBackup(o) PROVE
        /\ idx = o /\ PutSynced(o, Unlink(fs[o], "delb")) /\ idx' = After(ToFinish, o) /\ at' = ""
        /\ at = "delete" \/ (Finishable(o) /\ fs[o]["delb"] # "none")
  BY <1>2, <1>t DEF DeleteBackup, Goto
<1>3. ASSUME NEW o \in Ops, FinishNext(o) PROVE
        /\ idx = o /\ SyncTargets({o}) /\ took' = took /\ idx' = After(ToFinish, o) /\ at' = ""
        /\ Finishable(o) /\ fs[o]["bak"] = "none"
  BY <1>3 DEF FinishNext, Goto, budget
<1>4. \A o \in Ops : ~FinishRefuses(o)
  BY <1>d DEF FinishRefuses
<1>5. ASSUME NEW o \in Ops, SerialStep(o) \/ UndoStep(o) PROVE FALSE
  <2>1. ~SerialStep(o)
    BY DEF SerialStep, AssertAbsent, SerialStage, SerialRecord, SerialIntent, CheckSource,
       MoveAside,
       SerialIdentify, Place, Placed, Unplace, Link
  <2>2. ~UndoStep(o)
    BY DEF UndoStep, UndoSkip, UndoRefuses, UndoDone, QuarantineNew, CheckCreated, QuarantineLeaf,
       DeleteCreated, RestoreBackup, Undoing
  <2> QED BY <1>5, <2>1, <2>2
<1>6. ~(StageFiles \/ PinSources \/ IdentifyBackups \/ VerifyApplied \/ StageCatalog
           \/ ExchangeCatalog \/ UnstageCatalog
        \/ CleanCatalog \/ RemoveJournal \/ Begin \/ Recover \/ IoError)
  BY DEF StageFiles, PinSources, IdentifyBackups, VerifyApplied, StageCatalog, ExchangeCatalog,
     UnstageCatalog,
     CleanCatalog, RemoveJournal, Begin, Recover, IoError
<1>7. ~(FinishDone \/ RollbackDone \/ RecoverRolledBack \/ Kill \/ PowerLoss)
  BY <1>d DEF FinishDone, RollbackDone, RecoverRolledBack, Kill, PowerLoss, Gone, Goto
<1>8. ASSUME UNCHANGED vars PROVE idx' = idx /\ at' = at /\ \A o \in Ops : Kept(o)
  <2>1. Still
    BY <1>8, LeftSame DEF vars, target, Base
  <2> QED BY <1>8, <2>1 DEF vars, Still, Kept
<1>9. ASSUME NEW q \in Ops, Edit(q)
      PROVE  idx' = idx /\ at' = at /\ \A o \in Ops : Kept(o) \/ TurnEdit(o)
  <2>1. /\ took \subseteq took' /\ q \in took' /\ UNCHANGED <<local, journal, catalog>> /\ cuts = 0
              /\ cuts' = cuts
        /\ \A o \in Ops \ {q} : fs'[o] = fs[o]
        /\ \E v \in {"none", "foreign"} : Becomes(q, v, fs[q]["new"], fs[q]["bak"], fs[q]["delc"],
              fs[q]["delb"])
    BY <1>9, EditFacts
  <2>2. \A o \in Ops : Left(o) = {fs[o]} /\ Left(o)' = {fs'[o]}
    BY <2>1 DEF Left
  <2>3. TurnEdit(q)
    BY <1>9, <2>1, <2>2 DEF TurnEdit, Fresh, Edit
  <2> QED BY <2>1, <2>2, <2>3 DEF local, Kept
<1> QED BY <1>1, <1>2, <1>3, <1>4, <1>5, <1>6, <1>7, <1>8, <1>9
     DEF Next, Work, Environment, FinishStep

\* Every step keeps Finished.
LEMMA FinishedStep ==
  ASSUME Base, Accepted, Named, Finished, [Next]_vars
  PROVE  Finished'
<1>0. plan' = plan /\ Ops' = Ops /\ N' = N /\ PlanOK /\ TargetType /\ N \in Nat /\ Ops = 1 .. N
  BY PlanNext, PlanFacts DEF Base
<1>1. \A o \in Ops : fs[o] \in Left(o) /\ o \in Nat /\ o \in 0 .. N /\ fs[o] \in Listing
  BY <1>0, LeftNow
<1>n. Names = {"leaf", "new", "bak", "delc", "delb"}
  BY DEF Names
<1>a. ASSUME NEW S \in SUBSET Ops, NEW i \in 0 .. N, NEW o \in S, o < After(S, i) PROVE o <= i
  <2>1. After(S, i) \in Nat /\ \A q \in S : q > i => After(S, i) <= q
    BY <1>0, AfterFacts
  <2>2. o \in Nat /\ i \in Nat /\ (o > i => After(S, i) <= o)
    BY <1>0, <1>1, <2>1
  <2> QED BY <1>a, <2>1, <2>2
<1>s. ToFinish \in SUBSET Ops /\ Of(Kinds \ {"assert-exact"}) \in SUBSET Ops
  BY OpSets
<1> SUFFICES ASSUME pc' \in {"finish", "forward"} PROVE Finished'
  BY DEF Finished
<1>2. CASE pc' # pc
  <2>1. CASE UnstageCatalog
    <3>1. pc' = "finish" /\ idx' = After(Of(Kinds \ {"assert-exact"}), 0) /\ at' = ""
      <4>1. ~Die
        BY DieFacts DEF Dead
      <4> QED BY <2>1, <4>1 DEF UnstageCatalog, SaveCatalog, Goto
    <3>2. ToFinish' = Of(Kinds \ {"assert-exact"})
      BY <1>0, <3>1, PlanNext DEF ToFinish
    <3>3. \A o \in ToFinish' : ~(o < idx')
      <4>1. \A o \in Of(Kinds \ {"assert-exact"}) : o < After(Of(Kinds \ {"assert-exact"}), 0)
               => o <= 0
        BY <1>0, <1>a, <1>s
      <4>2. \A o \in Of(Kinds \ {"assert-exact"}) : ~(o <= 0)
        BY <1>0, <1>s
      <4> QED BY <3>1, <3>2, <4>1, <4>2
    <3> QED BY <3>1, <3>3 DEF Finished
  <2>2. CASE Recover
    <3>1. pc' = "forward" /\ idx' = After(Ops, 0) /\ at' = ""
      BY <2>2 DEF Recover, Goto
    <3>2. ToFinish' = Ops
      BY <1>0, <3>1 DEF ToFinish
    <3>3. \A o \in ToFinish' : ~(o < idx')
      <4>1. \A o \in Ops : o < After(Ops, 0) => o <= 0
        BY <1>0, <1>a
      <4>2. \A o \in Ops : ~(o <= 0)
        BY <1>0
      <4> QED BY <3>1, <3>2, <4>1, <4>2
    <3> QED BY <3>1, <3>3 DEF Finished
  <2> QED BY <1>2, <2>1, <2>2, Flow
<1>3. CASE pc' = pc
  <2>0. pc \in {"finish", "forward"} /\ ~PowerLoss
    BY <1>3 DEF PowerLoss, Gone
  <2>t. ToFinish' = ToFinish
    BY <1>0, <1>3, PlanNext DEF ToFinish
  <2>1. ASSUME NEW o \in Ops, Tidy(o), Kept(o) \/ TurnEdit(o) PROVE Tidy(o)'
    <3>1. CASE Kept(o)
      BY <1>0, <2>1, <3>1 DEF Kept, Tidy
    <3>2. CASE TurnEdit(o)
      <4>1. Left(o)' = {fs'[o]} /\ fs'[o]["bak"] = fs[o]["bak"] /\ fs'[o]["new"] = fs[o]["new"]
        BY <3>2, <2>0, <1>3 DEF TurnEdit, Fresh, Becomes
      <4> QED BY <1>0, <1>1, <2>1, <4>1 DEF Tidy
    <3> QED BY <2>1, <3>1, <3>2
  <2>2. CASE idx' = idx /\ at' = at /\ \A o \in Ops : Kept(o) \/ TurnEdit(o)
    <3>1. at = "delete" => idx \in Ops
      BY <1>s, <2>0 DEF Base, Scheduled, FinishAt
    <3> QED BY <1>s, <2>0, <2>1, <2>2, <2>t, <3>1 DEF Finished
  <2>k. ASSUME NEW i \in Ops, Finishable(i), plan[i].kind = "file"
        PROVE  fs[i]["new"] = "none"
    <3>1. View(i)["leaf"] = "next" /\ View(i)["new"] = "none"
      BY <2>k DEF Finishable, Goal, Placing
    <3> QED BY <3>1, ViewFacts
  <2>o. ASSUME NEW i \in Ops, NEW f \in Listing, PutSynced(i, f), f["bak"] = "none",
               plan[i].kind = "file" => f["new"] = "none"
        PROVE  Tidy(i)' /\ \A o \in Ops \ {i} : Tidy(o) => Tidy(o)'
    <3>1. cuts' = cuts
      BY <2>0, Spending DEF Spent
    <3>2. Changed(i, f) /\ Left(i)' = {fs'[i]}
      BY <1>0, <2>o, <3>1, LeftPutSynced
    <3> QED BY <1>0, <2>o, <3>2 DEF Changed, Tidy
  <2>w. ASSUME NEW i \in Ops, idx = i, Tidy(i)', \A o \in Ops \ {i} : Tidy(o) => Tidy(o)',
               \/ idx' = i /\ at' = "delete"
               \/ idx' = After(ToFinish, i) /\ at' = ""
        PROVE  Finished'
    <3>1. ASSUME NEW o \in ToFinish, o < idx' PROVE o < i \/ o = i
      <4>1. o \in Nat /\ i \in Nat /\ i \in 0 .. N
        BY <1>1, <1>s
      <4>2. CASE idx' = After(ToFinish, i)
        <5>1. o <= i
          BY <1>a, <1>s, <3>1, <4>1, <4>2
        <5> QED BY <4>1, <5>1
      <4>3. CASE idx' = i
        BY <3>1, <4>3
      <4> QED BY <2>w, <4>2, <4>3
    <3>2. \A o \in ToFinish : o < i => Tidy(o)
      BY <2>0, <2>w DEF Finished
    <3>3. \A o \in ToFinish : o < idx' => Tidy(o)'
      BY <1>s, <2>w, <3>1, <3>2
    <3> QED BY <2>t, <2>w, <3>3 DEF Finished
  <2>3. ASSUME NEW i \in Ops, idx = i, PutSynced(i, Move(fs[i], "bak", "delb")),
               idx' = i, at' = "delete", Finishable(i), fs[i]["bak"] = "prior"
        PROVE  Finished'
    <3>1. /\ Move(fs[i], "bak", "delb") \in Listing /\ Move(fs[i], "bak", "delb")["bak"] = "none"
          /\ Move(fs[i], "bak", "delb")["new"] = fs[i]["new"]
      BY <1>1, <1>n, MoveFacts
    <3>2. plan[i].kind = "file" => fs[i]["new"] = "none"
      BY <2>3, <2>k
    <3>3. Tidy(i)' /\ \A o \in Ops \ {i} : Tidy(o) => Tidy(o)'
      BY <2>3, <2>o, <3>1, <3>2
    <3> QED BY <2>3, <2>w, <3>3
  <2>4. ASSUME NEW i \in Ops, idx = i, PutSynced(i, Unlink(fs[i], "delb")),
               idx' = After(ToFinish, i), at' = "",
               at = "delete" \/ (Finishable(i) /\ fs[i]["delb"] # "none")
        PROVE  Finished'
    <3>1. /\ Unlink(fs[i], "delb") \in Listing /\ Unlink(fs[i], "delb")["bak"] = fs[i]["bak"]
          /\ Unlink(fs[i], "delb")["new"] = fs[i]["new"]
      BY <1>1, <1>n, UnlinkFacts
    <3>2. fs[i]["bak"] = "none" /\ (plan[i].kind = "file" => fs[i]["new"] = "none")
      <4>1. CASE at = "delete"
        <5>1. Tidy(i)
          BY <2>0, <2>4, <4>1 DEF Finished
        <5> QED BY <1>1, <5>1 DEF Tidy
      <4>2. CASE Finishable(i) /\ fs[i]["delb"] # "none"
        <5>1. fs[i]["bak"] = "none"
          BY <1>1, <4>2 DEF Named, NamedWell
        <5> QED BY <2>k, <4>2, <5>1
      <4> QED BY <2>4, <4>1, <4>2
    <3>3. Tidy(i)' /\ \A o \in Ops \ {i} : Tidy(o) => Tidy(o)'
      BY <2>4, <2>o, <3>1, <3>2
    <3> QED BY <2>4, <2>w, <3>3
  <2>5. ASSUME NEW i \in Ops, idx = i, SyncTargets({i}), took' = took, idx' = After(ToFinish, i),
               at' = "",
               Finishable(i), fs[i]["bak"] = "none"
        PROVE  Finished'
    <3>1. cuts' = cuts
      BY <2>0, Spending DEF Spent
    <3>2. Still /\ Left(i)' = {fs[i]}
      BY <1>0, <2>5, <3>1, LeftSync
    <3>3. plan[i].kind = "file" => fs[i]["new"] = "none"
      BY <2>5, <2>k
    <3>4. Tidy(i)' /\ \A o \in Ops \ {i} : Tidy(o) => Tidy(o)'
      BY <1>0, <2>5, <3>2, <3>3 DEF Tidy, Still
    <3> QED BY <2>5, <2>w, <3>4
  <2> QED BY <1>3, <2>0, <2>2, <2>3, <2>4, <2>5, FinishSteps
<1> QED BY <1>2, <1>3
-----------------------------------------------------------------------------
\* Every step keeps Done: a rollback that failed somewhere, a refusal and an error
\* of the store all leave the journal.
LEMMA DoneStep ==
  ASSUME Base, Accepted, Covering, CreatedFirst, Undone, Finished, Done, [Next]_vars
  PROVE  Done'
<1>0. plan' = plan /\ Ops' = Ops /\ PlanOK /\ TargetType /\ N \in Nat /\ Ops = 1 .. N
  BY PlanNext, PlanFacts DEF Base
<1> SUFFICES ASSUME pc' \in {"clean", "unjournal"}, NEW o \in Ops PROVE (Tidy(o)
     /\ (cat.cur = "prev" => Reverted(o)))'
  BY <1>0 DEF Done
<1>l. ~PowerLoss /\ pc' # "dark"
  BY DEF PowerLoss, Gone
<1>1. fs[o] \in Left(o) /\ took \subseteq took' /\ (Kept(o) \/ Turned(o))
  BY <1>0, <1>l, LeftNow, EachTarget
<1>2. ASSUME Tidy(o), cat'.cur = "prev" => Reverted(o), Kept(o) \/ TurnEdit(o)
      PROVE  (Tidy(o) /\ (cat.cur = "prev" => Reverted(o)))'
  <2>1. CASE Kept(o)
    BY <1>0, <1>1, <1>2, <2>1 DEF Kept, Tidy, Reverted
  <2>2. CASE TurnEdit(o)
    <3>1. /\ Left(o)' = {fs'[o]} /\ fs'[o]["bak"] = fs[o]["bak"] /\ fs'[o]["new"] = fs[o]["new"]
          /\ fs'[o]["leaf"] # "next" /\ o \in took'
      BY <1>l, <2>2 DEF TurnEdit, Fresh, Becomes
    <3> QED BY <1>0, <1>1, <1>2, <3>1 DEF Tidy, Reverted
  <2> QED BY <1>2, <2>1, <2>2
<1>3. CASE pc \in {"clean", "unjournal"}
  <2>1. cat'.cur = cat.cur
    <3>1. CASE UNCHANGED catalog
      BY <3>1 DEF catalog
    <3>2. ASSUME LeftCat' \subseteq LeftCat PROVE cat'.cur = cat.cur
      <4>1. cat' \in LeftCat' /\ LeftCat = {cat}
        BY <1>3, BaseStep DEF Base, StoreType, LeftCat, Selected
      <4> QED BY <3>2, <4>1
    <3> QED BY <1>3, <3>1, <3>2, CatalogKept
  <2>2. Turned(o) => TurnEdit(o)
    BY <1>3, TurnPlaces DEF Mutating
  <2> QED BY <1>1, <1>2, <1>3, <2>1, <2>2 DEF Done
<1>4. CASE FinishDone
  <2>0. pc \in {"finish", "forward"} /\ idx = N + 1 /\ UNCHANGED <<target, catalog>>
    BY <1>4 DEF FinishDone
  <2>1. cat'.cur # "prev"
    BY <2>0, PrevNow DEF catalog
  <2>2. Tidy(o)
    <3>1. CASE o \in ToFinish
      BY <1>0, <2>0, <3>1 DEF Finished
    <3>2. CASE o \notin ToFinish
      <4>1. plan[o].kind = "assert-exact"
        <5>1. plan[o].kind \in Kinds
          BY <1>0, PlanFacts
        <5> QED BY <3>2, <5>1 DEF ToFinish, Of
      <4>2. plan[o].kind \notin Placing \cup {"remove"} /\ plan[o].kind # "file"
        BY <4>1 DEF Placing, Canonical
      <4> QED BY <2>0, <4>2, OnRecord DEF Tidy
    <3> QED BY <3>1, <3>2
  <2>3. Kept(o)
    <3>1. cuts' = cuts /\ took' = took
      BY <1>4 DEF FinishDone, Goto, budget
    <3> QED BY <1>0, <2>0, <3>1, LeftSame DEF Still, Kept
  <2> QED BY <1>2, <2>1, <2>2, <2>3
<1>5. CASE RollbackDone \/ RecoverRolledBack
  <2>0. pc = "back" \/ (pc = "rollback" /\ err = "error")
    BY <1>5 DEF RollbackDone, RecoverRolledBack, Exit, Gone
  <2>1. idx = 0 /\ UNCHANGED <<target, catalog>>
    BY <1>5 DEF RollbackDone, RecoverRolledBack
  <2>2. o > idx
    BY <1>0, <2>1
  <2>3. ~Pending(o)
    <3>1. Nested(o) => ~(Dir(o) <= 0)
      BY <1>0 DEF Nested, Dir
    <3> QED BY <2>1, <3>1 DEF Pending
  <2>4. Tidy(o) /\ Reverted(o)
    BY <2>0, <2>2, <2>3 DEF Undone
  <2>5. Kept(o)
    <3>1. cuts' = cuts /\ took' = took
      BY <1>5 DEF RollbackDone, RecoverRolledBack, Goto, Exit, budget
    <3> QED BY <1>0, <2>1, <3>1, LeftSame DEF Still, Kept
  <2> QED BY <1>2, <2>4, <2>5
<1> QED BY <1>3, <1>4, <1>5, Flow

-----------------------------------------------------------------------------
\* verify_applied sees what every loss of power will leave.
LEMMA VerifiedNow ==
  ASSUME Base, Accepted, Covering, Mine, Preserving, CreatedFirst, Synced, [Next]_vars,
         VerifyApplied, pc' = "publish",
         NEW o \in Ops \ took, NEW f \in Left(o)'
  PROVE  f["leaf"] = Goal(o)
<1>0. PlanOK /\ TargetType /\ Ops' = Ops /\ pc = "place" /\ pc \in Mutating
         /\ pc \notin {"down", "dark"} /\ o \in Ops
  BY PlanNext DEF Base, VerifyApplied, Mutating
<1>1. Applied(o) /\ SyncTargets(Files) /\ cuts' = cuts /\ took' = took
  <2>1. \A c : ~Fails(c)
    BY DEF Fails, Rollback
  <2> QED BY <2>1 DEF VerifyApplied, Goto, budget
<1>2. f \in Left(o) /\ (o \in Files => f = fs[o])
  <2>1. Still /\ \A q \in Files \cap Ops : Left(q)' = {fs[q]}
    BY <1>0, <1>1, LeftSync
  <2> QED BY <1>0, <2>1 DEF Still
<1>3. View(o)["leaf"] = Goal(o) /\ plan[o].kind \in Kinds /\ plan[o].seen \in {"none", "prior"}
         /\ SomePrev
  BY <1>0, <1>1, PlanFacts, PrevNow DEF Applied
<1>4. CASE plan[o].kind \in Placing
  <2>1. fs[o]["leaf"] = "next" /\ Goal(o) = "next"
    BY <1>3, <1>4, ViewFacts DEF Goal
  <2>2. CASE plan[o].kind = "file"
    BY <1>0, <1>2, <2>1, <2>2 DEF Files, Of
  <2>3. CASE plan[o].kind \in Canonical
    <3>1. o \in Of(Canonical)
      BY <1>0, <2>3 DEF Of
    <3>2. Left(o) = {fs[o]}
      BY <1>0, <2>1, <3>1 DEF Synced
    <3> QED BY <1>2, <2>1, <3>2
  <2> QED BY <1>4, <2>2, <2>3 DEF Placing
<1>5. CASE plan[o].kind \notin Placing
  <2>0. f["leaf"] # "next"
    BY <1>0, <1>2, <1>3, <1>5, OnRecord
  <2>1. CASE plan[o].kind = "remove" /\ plan[o].seen = "prior"
    <3>1. o \in Backed
      BY <1>0, <2>1 DEF Backed, Phased, Of
    <3>2. f = fs[o]
      BY <1>0, <1>2, <2>1, <3>1 DEF Synced
    <3> QED BY <1>0, <1>3, <2>1, <3>2, NestedFacts, ViewFacts
  <2>2. CASE plan[o].kind \notin {"remove"}
    <3>1. f["bak"] = "none"
      BY <1>0, <1>2, <1>5, <2>2, OnRecord
    <3>2. f["leaf"] = plan[o].seen
      BY <1>2, <1>3, <2>0, <3>1, Reverts
    <3>3. fs[o]["bak"] = "none" /\ fs[o]["leaf"] # "next" /\ fs[o] \in Left(o)
      BY <1>0, <1>3, <1>5, <2>2, OnRecord, LeftNow
    <3>4. fs[o]["leaf"] = plan[o].seen
      BY <1>3, <3>3, Reverts
    <3>5. plan[o].seen = "prior" => Goal(o) = "prior"
      BY <1>0, <1>3, <3>4, NestedFacts, ViewFacts
    <3>6. plan[o].seen = "none" => Goal(o) = "none"
      <4>1. CASE Reached(o)
        <5>1. View(o) = fs[o]
          BY <4>1, ViewFacts
        <5> QED BY <1>3, <3>4, <5>1
      <4>2. CASE ~Reached(o)
        <5>1. View(o)["leaf"] # "prior"
          BY <4>2, ViewFacts
        <5> QED BY <1>3, <1>5, <5>1 DEF Goal
      <4> QED BY <4>1, <4>2
    <3> QED BY <1>3, <3>2, <3>5, <3>6
  <2>3. CASE plan[o].kind = "remove" /\ plan[o].seen = "none"
    <3>1. "leaf" \in Names /\ f["leaf"] \in Objects
      BY <1>0, <1>2, LeftNow DEF Names, Listing
    <3>2. f["leaf"] # "foreign" /\ f["leaf"] # "prior"
      BY <1>2, <2>3, <3>1 DEF Mine
    <3> QED BY <1>5, <2>0, <2>3, <3>1, <3>2 DEF Goal, Objects
  <2> QED BY <1>3, <2>1, <2>2, <2>3
<1> QED BY <1>4, <1>5

\* Every step keeps Verified: verify_applied comes before the catalog is staged.
LEMMA VerifiedStep ==
  ASSUME Base, Accepted, Covering, Mine, Preserving, CreatedFirst, Synced, Verified, [Next]_vars
  PROVE  Verified'
<1>0. plan' = plan /\ Ops' = Ops /\ PlanOK /\ took \subseteq took' /\ \A o : Goal(o)' = Goal(o)
  BY PlanNext, Turning DEF Base
<1> SUFFICES ASSUME Deployed', NEW o \in Ops \ took', NEW f \in Left(o)' PROVE f["leaf"] = Goal(o)
  BY <1>0 DEF Verified
<1>o. o \in Ops /\ o \notin took
  BY <1>0
<1>1. CASE Deployed
  <2>1. \A q \in Ops \ took : \A g \in Left(q) : g["leaf"] = Goal(q)
    BY <1>1 DEF Verified
  <2>2. CASE PowerLoss
    <3>1. CASE f \in Left(o)
      BY <1>o, <2>1, <3>1
    <3>2. CASE f \notin Left(o)
      <4>1. Nested(o) /\ \A n \in Names : fs'[Dir(o)][n] # "next"
        BY <1>o, <2>2, <3>2, PowerLossFacts
      <4>2. Dir(o) \in Ops /\ plan[Dir(o)].kind = "dir" /\ ~Nested(Dir(o))
        BY <1>0, <1>o, <4>1, NestedFacts
      <4>3. fs'[Dir(o)] \in Left(Dir(o)) /\ cuts > 0
        BY <2>2, <4>2, PowerLossFacts
      <4>4. took = {}
        BY <4>3 DEF Mine
      <4>5. fs'[Dir(o)]["leaf"] = "next"
        BY <2>1, <4>2, <4>3, <4>4 DEF Goal, Placing, Canonical
      <4> QED BY <4>1, <4>5 DEF Names
    <3> QED BY <3>1, <3>2
  <2>3. CASE ~PowerLoss
    <3>p. pc \notin Mutating \cup {"rollback", "back"}
      <4>1. pc \in Mutating \cup {"rollback", "back"} => SomePrev /\ pc # "dark"
               /\ pc \notin {"publish", "exchange"}
        BY PrevNow DEF Mutating
      <4> QED BY <1>1, <4>1, PrevNow DEF Deployed
    <3>1. fs[o] \in Left(o)
      BY <1>o, LeftNow DEF Base
    <3>2. CASE Kept(o)
      BY <1>o, <2>1, <3>2 DEF Kept
    <3>3. CASE Alone(o) /\ (TurnForget(o) \/ TurnShelve(o))
      <4>1. fs'[o]["leaf"] = fs[o]["leaf"]
        BY <3>3 DEF TurnForget, TurnShelve, Becomes
      <4> QED BY <1>o, <2>1, <3>1, <3>3, <4>1 DEF Alone
    <3>4. ~TurnEdit(o)
      BY DEF TurnEdit
    <3> QED BY <1>o, <2>3, <3>p, <3>2, <3>3, <3>4, EachTarget, TurnPlaces
  <2> QED BY <2>2, <2>3
<1>2. CASE ~Deployed
  <2>1. ~(\E c \in LeftCat' : c.cur = "next")
    <3>1. CASE cuts' = cuts /\ UNCHANGED catalog
      BY <1>2, <3>1 DEF LeftCat, catalog, Deployed
    <3>2. CASE LeftCat' \subseteq LeftCat
      BY <1>2, <3>2 DEF Deployed
    <3>3. CASE /\ LeftCat' \subseteq LeftCat \cup {cat'}
               /\ (pc \in {"publish", "clean"} /\ cat'.cur = cat.cur)
                     \/ pc \in {"exchange", "unstage"}
      <4>1. cat \in LeftCat /\ pc # "exchange" /\ (pc = "unstage" => cat.cur = "next")
        BY <1>2, PrevNow DEF Deployed
      <4> QED BY <1>2, <3>3, <4>1 DEF Deployed
    <3> QED BY <3>1, <3>2, <3>3, CatalogKept
  <2>2. VerifyApplied /\ pc' = "publish"
    BY <1>2, <2>1, Flow DEF Deployed
  <2> QED BY <1>o, <2>2, VerifiedNow
<1> QED BY <1>1, <1>2

-----------------------------------------------------------------------------
\* The journal is gone for good only after remove_journal.
LEMMA JournalStays ==
  ASSUME Base, Accepted, [Next]_vars, ~RemoveJournal, ~Journaled'
  PROVE  ~Journaled
<1>0. cuts \in Nat /\ cuts' \in Nat /\ jrn \in jdur /\ jrn' \in jdur'
  BY BaseStep DEF Base, ControlType, StoreType
<1>1. NoJournal \in jdur'
  BY <1>0 DEF Journaled
<1>2. NoJournal \in jdur
  BY <1>1, JournalKept DEF Keeps
<1>3. CASE cuts # 0
  BY <1>2, <1>3 DEF Journaled
<1>4. CASE cuts = 0
  <2>1. ~PowerLoss /\ cuts' = 0
    <3>1. ~(cuts > 0)
      BY <1>4
    <3> QED BY <1>4, <3>1, Spending DEF PowerLoss, Spent
  <2>2. jrn' = NoJournal
    BY <2>1 DEF Journaled
  <2>3. pc \notin Mutating
    BY <1>2, MutatingFacts
  <2>4. UNCHANGED journal \/ Begin
    BY <2>1, <2>3, JournalSteps
  <2>5. jrn = NoJournal
    BY <2>2, <2>4 DEF journal, Begin
  <2> QED BY <1>4, <2>5 DEF Journaled
<1> QED BY <1>3, <1>4

\* Every step keeps Closed.
LEMMA ClosedStep ==
  ASSUME Base, Accepted, Done, Closed, [Next]_vars
  PROVE  Closed'
<1>0. plan' = plan /\ Ops' = Ops /\ PlanOK /\ TargetType /\ took \subseteq took' /\ jrn \in jdur
  BY PlanNext, Turning DEF Base, StoreType
<1> SUFFICES ASSUME ~Journaled', SomePrev', NEW o \in Ops PROVE Reverted(o)'
  BY <1>0 DEF Closed
<1>1. SomePrev
  BY PrevKept
<1>2. CASE RemoveJournal
  <2>1. pc = "unjournal" /\ UNCHANGED target /\ cuts' = cuts /\ took' = took
    BY <1>2, DieFacts DEF RemoveJournal, Exit, Dead, budget
  <2>2. Reverted(o)
    BY <1>1, <2>1, PrevNow DEF Done
  <2>3. Left(o)' = Left(o)
    BY <1>0, <2>1, LeftSame
  <2> QED BY <1>0, <2>1, <2>2, <2>3 DEF Reverted
<1>3. CASE ~RemoveJournal
  <2>1. ~Journaled
    BY <1>3, JournalStays
  <2>2. Reverted(o)
    BY <1>1, <2>1 DEF Closed
  <2>3. pc \in {"down", "dark"}
    <3>1. cuts \in Nat
      BY DEF Base, ControlType
    <3>2. pc \notin {"down", "dark"} => jrn # NoJournal /\ (cuts > 0 => NoJournal \notin jdur)
      BY DEF Base, Controlled
    <3> QED BY <2>1, <3>1, <3>2 DEF Journaled
  <2>4. CASE PowerLoss
    <3>1. took' = took /\ (Left(o)' \subseteq Left(o) \/ (Nested(o) /\ Left(o)' = {NoNames}))
      BY <2>4, PowerLossFacts
    <3>2. Nested(o) => plan[o].seen = "none"
      BY <1>0, NestedFacts
    <3>3. NoNames["leaf"] = "none"
      BY NoNamesFacts DEF Names
    <3> QED BY <1>0, <2>2, <3>1, <3>2, <3>3 DEF Reverted
  <2>5. CASE ~PowerLoss /\ Kept(o)
    BY <1>0, <2>2, <2>5 DEF Kept, Reverted
  <2>6. CASE ~PowerLoss /\ TurnEdit(o)
    <3>1. /\ Left(o)' = {fs'[o]} /\ o \in took' /\ fs'[o]["leaf"] # "next"
      BY <2>6, EachTarget DEF TurnEdit, Left, Becomes
    <3> QED BY <1>0, <3>1 DEF Reverted
  <2> QED BY <2>3, <2>4, <2>5, <2>6, EachTarget, TurnPlaces DEF Mutating
<1> QED BY <1>2, <1>3
-----------------------------------------------------------------------------
\* The inductive invariant.
IInv ==
  /\ Base /\ Accepted
  /\ Covering /\ Named /\ Mine /\ Preserving /\ CreatedFirst
  /\ Compared /\ Applying /\ Housed /\ Synced
  /\ Undone /\ Finished /\ Done /\ Verified /\ Closed

\* A run has losses of power, or deaths of the process and edits, not both: what a
\* process that died has not synced is taken for done by recovery, and a loss of
\* power after that takes it back (the limit the README describes).  Any of them
\* may come any number of times, and system calls may fail in both.
FaultsApart == \A s \in Scenarios : s.cuts = 0 \/ (s.kills = 0 /\ s.edits = 0)

\* It holds before anything is committed.
LEMMA Initially ==
  ASSUME Init, FaultsApart
  PROVE  IInv
<1>1. PICK s \in Scenarios : plan = s.plan /\ kills = s.kills /\ cuts = s.cuts /\ ioErrs = s.ioErrs
                                /\ edits = s.edits
  BY DEF Init
<1>2. /\ PlanOK /\ kills \in Nat /\ cuts \in Nat /\ ioErrs \in Nat /\ edits \in Nat /\ Apart
  <2>1. /\ s.plan \in Seq(Operation) /\ Len(s.plan) > 0
              /\ \A o \in 1 .. Len(s.plan) : Covered(s.plan, o)
        /\ s.kills \in Nat /\ s.cuts \in Nat /\ s.ioErrs \in Nat /\ s.edits \in Nat
    BY CommitConstants
  <2>2. s.cuts = 0 \/ (s.kills = 0 /\ s.edits = 0)
    BY DEF FaultsApart
  <2> QED BY <1>1, <2>1, <2>2 DEF PlanOK, Ops, N, Apart
<1>3. /\ jrn = NoJournal /\ jdur = {NoJournal} /\ cat = CatAt("prev", "none")
            /\ cdur = {CatAt("prev", "none")}
      /\ pc = "down" /\ idx = 0 /\ at = "" /\ mem = NoMem /\ raced = {} /\ err = "" /\ took = {}
  BY DEF Init
<1>4. N \in Nat /\ Ops = 1 .. N /\ \A o \in Ops : plan[o].seen \in {"none", "prior"}
  BY <1>2, PlanFacts
<1>n. Names = {"leaf", "new", "bak", "delc", "delb"} /\ {"none", "prior"} \subseteq Objects
  BY DEF Names, Objects
<1>5. \A o \in Ops : /\ fs[o] \in Listing /\ disk[o] = {fs[o]} /\ fs[o]["leaf"] = plan[o].seen
                     /\ \A n \in Private : fs[o][n] = "none"
  BY <1>4, <1>n DEF Init, Listing, Private
<1>6. TargetType
  BY <1>5 DEF TargetType, Init
<1>7. \A o \in Ops : Left(o) = {fs[o]}
  BY <1>5 DEF Left
<1>8. \A o \in Ops : /\ fs[o]["leaf"] = plan[o].seen /\ fs[o]["new"] = "none"
         /\ fs[o]["bak"] = "none"
                     /\ fs[o]["delc"] = "none" /\ fs[o]["delb"] = "none" /\ fs[o]["leaf"] # "next"
  BY <1>4, <1>5, <1>n DEF Private
<1>c. LeftCat = {CatAt("prev", "none")} /\ CatAt("prev", "none").cur = "prev"
         /\ CatAt("prev", "none").stage = "none"
  BY <1>3, CatFields DEF LeftCat
<1>9. StoreType
  <2>1. CatAt("prev", "none") \in Catalogs
    BY DEF CatAt, Catalogs
  <2> QED BY <1>3, <2>1 DEF StoreType, NoMem
<1>10. ControlType
  <2>1. pc \in Pcs /\ at \in Points
    BY <1>3 DEF Pcs, Points
  <2>2. idx \in 0 .. N + 1
    <3>1. 0 \in 0 .. N + 1
      BY <1>4
    <3> QED BY <1>3, <3>1
  <2>3. raced \subseteq Ops /\ took \subseteq Ops /\ err \in {"", "error", "keep", "failed"}
    BY <1>3
  <2> QED BY <1>2, <2>1, <2>2, <2>3 DEF ControlType
<1>p. pc \notin Mutating /\ pc \notin Steps
  BY <1>3 DEF Mutating, Steps
<1>11. Controlled /\ Scheduled
  <2>1. Controlled
    BY <1>3, <1>p DEF Controlled
  <2>2. SerialAt /\ PhasedAt /\ FinishAt /\ UndoAt /\ Recorded
    BY <1>3 DEF SerialAt, PhasedAt, FinishAt, UndoAt, Recorded
  <2> QED BY <2>1, <2>2 DEF Scheduled
<1>12. Selected
  BY <1>3, <1>c DEF Selected, CatFor, Mutating
<1>13. Base
  BY <1>2, <1>6, <1>9, <1>10, <1>11, <1>12 DEF Base
<1>14. Accepted
  BY <1>3, <1>c DEF Accepted, NoMem
<1>15. Covering /\ Named /\ CreatedFirst
  BY <1>7, <1>8 DEF Covering, CoveredBy, Named, NamedWell, CreatedFirst
<1>16. Mine /\ Preserving
  <2>1. ASSUME NEW o \in Ops, NEW n \in Names
        PROVE  fs[o][n] # "foreign" /\ (fs[o][n] = "prior" => plan[o].seen = "prior")
    <3>1. n \in {"leaf", "new", "bak", "delc", "delb"}
      BY <1>n
    <3>2. CASE n = "leaf"
      <4>1. fs[o][n] = plan[o].seen
        BY <1>8, <3>2
      <4> QED BY <1>4, <4>1
    <3>3. CASE n # "leaf"
      <4>1. fs[o][n] = "none"
        BY <1>8, <3>1, <3>3
      <4> QED BY <4>1
    <3> QED BY <3>2, <3>3
  <2>2. \A o \in Ops : \A f \in Left(o) : f = fs[o]
    BY <1>7
  <2>3. Mine
    BY <1>3, <2>1, <2>2 DEF Mine
  <2>4. Preserving
    BY <1>8, <2>2 DEF Preserving
  <2> QED BY <2>3, <2>4
<1>17. Compared /\ Applying /\ Synced /\ Undone /\ Finished /\ Done
  BY <1>3, <1>7 DEF Compared, Applying, Synced, Undone, Finished, Done, Mutating
<1>18. Housed
  <2>1. ASSUME NEW o \in Ops, Nested(o) PROVE fs[o] = NoNames
    <3>1. plan[o].seen = "none"
      BY <1>2, <2>1, NestedFacts
    <3> QED BY <1>5, <1>8, <3>1, AllNone
  <2>2. ASSUME NEW o \in Ops, Nested(o) PROVE Left(o) = {NoNames}
    BY <1>7, <2>1, <2>2
  <2> QED BY <2>1, <2>2 DEF Housed
<1>19. Verified /\ Closed
  BY <1>3, <1>7, <1>8, <1>c DEF Verified, Deployed, Closed, Reverted
<1> QED BY <1>13, <1>14, <1>15, <1>16, <1>17, <1>18, <1>19 DEF IInv

\* Every step keeps it.
LEMMA Inductive ==
  ASSUME IInv, [Next]_vars
  PROVE  IInv'
<1>1. /\ Base /\ Accepted /\ Covering /\ Named /\ Mine /\ Preserving /\ CreatedFirst
      /\ Compared /\ Applying /\ Housed /\ Synced /\ Undone /\ Finished /\ Done /\ Verified
            /\ Closed
  BY DEF IInv
<1>2. Base' /\ Accepted' /\ Compared' /\ Applying'
  BY <1>1, BaseStep, AcceptedStep, ComparedStep, ApplyingStep
<1>3. Covering' /\ Named' /\ Mine' /\ Preserving' /\ CreatedFirst'
  BY <1>1, CoveringStep, NamedStep, MineStep, PreservingStep, CreatedFirstStep
<1>4. Housed' /\ Synced' /\ Undone' /\ Finished'
  BY <1>1, HousedStep, SyncedStep, UndoneStep, FinishedStep
<1>5. Done' /\ Verified' /\ Closed'
  BY <1>1, DoneStep, VerifiedStep, ClosedStep
<1> QED BY <1>2, <1>3, <1>4, <1>5 DEF IInv

\* Without a journal, every target is what the catalog says.
LEMMA Settled ==
  ASSUME IInv, jrn = NoJournal, NEW o \in Ops \ took
  PROVE  fs[o]["leaf"] = IF cat.cur = "prev" THEN plan[o].seen ELSE Goal(o)
<1>1. Base /\ Verified /\ Closed
  BY DEF IInv
<1>2. cat \in LeftCat /\ fs[o] \in Left(o) /\ cat.cur \in {"prev", "next"}
         /\ (cat.cur = "prev" => SomePrev)
  BY <1>1, PrevNow, LeftNow DEF Base
<1>3. ~Journaled
  BY <1>1 DEF Journaled, Base, StoreType
<1>4. CASE cat.cur = "prev"
  BY <1>1, <1>2, <1>3, <1>4 DEF Closed, Reverted
<1>5. CASE cat.cur = "next"
  BY <1>1, <1>2, <1>5 DEF Verified, Deployed
<1> QED BY <1>2, <1>4, <1>5

\* It implies what the runs check.
LEMMA Ready ==
  ASSUME IInv
  PROVE  RecoveryReady /\ SettledAtomic
<1>1. Base /\ Accepted /\ Covering /\ Preserving /\ Verified /\ Closed
  BY DEF IInv
<1>2. jrn \in jdur /\ cat \in LeftCat /\ (\A o \in Ops : fs[o] \in Left(o))
         /\ (cat.cur = "prev" => SomePrev)
  BY <1>1, PrevNow, LeftNow DEF Base, StoreType
<1>3. WriteAhead
  BY <1>1, <1>2 DEF WriteAhead, Covering, CoveredBy
<1>4. PriorPreserved
  BY <1>1, <1>2 DEF PriorPreserved, Preserving
<1>5. Recoverable
  BY <1>1, <1>2 DEF Recoverable, Accepted, Legal, LegalAll, Complete, Completes
<1>6. StagingNeedsJournal
  BY <1>1, <1>2 DEF StagingNeedsJournal, Base, Selected, Journaled
<1>7. SettledAtomic
  BY Settled DEF SettledAtomic
<1> QED BY <1>3, <1>4, <1>5, <1>6, <1>7 DEF RecoveryReady

\* For every plan, however often power is lost or the process dies and whichever
\* calls fail: recovery finds an intent or an identity for every private name, the
\* prior objects, a journal it accepts, and no staged catalog without a journal
\* (commit_v1, recover_v1).
THEOREM RecoverySafe ==
  ASSUME FaultsApart
  PROVE  Spec => []RecoveryReady
<1>1. Init => IInv
  BY Initially
<1>2. IInv /\ [Next]_vars => IInv'
  BY Inductive
<1>3. IInv => RecoveryReady
  BY Ready
<1> QED BY <1>1, <1>2, <1>3, PTL DEF Spec

\* For every plan: once no journal is left, the transaction happened at all of the
\* targets that nobody else changed or at none of them, as the catalog says.
THEOREM AtomicSafe ==
  ASSUME FaultsApart
  PROVE  Spec => []SettledAtomic
<1>1. Init => IInv
  BY Initially
<1>2. IInv /\ [Next]_vars => IInv'
  BY Inductive
<1>3. IInv => SettledAtomic
  BY Ready
<1> QED BY <1>1, <1>2, <1>3, PTL DEF Spec

-----------------------------------------------------------------------------
\* Before the rename to the backup name.
Early == {"", "staged", "recorded", "check", "rename"}

\* The mutation has not named o's staging entry yet.
Unstaged(o) ==
  \/ pc = "serial" /\ (o \notin Of(Canonical) \/ o > idx \/ (o = idx /\ at = ""))
  \/ pc = "link" /\ o \in Files /\ o >= idx

\* It has not moved o's leaf aside yet.
Unmoved(o) ==
  \/ pc = "serial" /\ (o \notin Of(Canonical) \/ o > idx \/ (o = idx /\ at \in Early))
  \/ pc = "link" /\ o \notin Of(Canonical)
  \/ pc = "move" /\ o \in Backed /\ o >= idx

\* Wherever the code renames to, nothing is in the way; and the quarantine of the
\* backups never holds what somebody else made.
Room ==
  /\ \A o \in Ops : /\ fs[o]["delb"] # "foreign"
                    /\ Unstaged(o) => fs[o]["new"] = "none"
                    /\ Unmoved(o) => fs[o]["bak"] = "none"
  /\ at = "placed" => fs[idx]["new"] = "none"

\* How the mutation goes on.
Onward ==
  \/ pc' = pc /\ idx' = idx /\ at' = at
  \/ pc = "serial" /\ pc' = "serial" /\ idx' = idx /\ at' # "" /\ (at' \in Early => at \in Early)
  \/ pc = "serial" /\ pc' = "serial" /\ idx' > idx
  \/ pc = "serial" /\ pc' = "link"
  \/ pc = "link" /\ pc' = "link" /\ idx' > idx
  \/ pc = "link" /\ pc' = "move"
  \/ pc = "move" /\ pc' = "move" /\ idx' >= idx
  \/ pc' = "place"

\* The mutation takes its schedules in order.
LEMMA GoesOnward ==
  ASSUME Base, [Next]_vars, pc \in Mutating, pc' \in Mutating
  PROVE  Onward
<1>0. PlanOK /\ N \in Nat /\ Ops = 1 .. N /\ idx \in 0 .. N + 1
  BY PlanFacts DEF Base, ControlType
<1>1. \A q \in Ops : /\ q \in Nat /\ q >= q /\ After(Serial, q) > q /\ After(Files, q) > q
                     /\ After(Backed, q) > q /\ After(Backed, q) >= q
  <2>1. \A q \in Ops : q \in 0 .. N /\ q \in Nat /\ q >= q
    BY <1>0
  <2>2. Serial \in SUBSET Ops /\ Files \in SUBSET Ops /\ Backed \in SUBSET Ops
    BY OpSets
  <2>3. \A q \in Ops : /\ After(Serial, q) > q /\ After(Files, q) > q /\ After(Backed, q) > q
                       /\ After(Backed, q) \in 1 .. N + 1
    BY <1>0, <2>1, <2>2, AfterFacts
  <2> QED BY <1>0, <2>1, <2>3
<1>2. ASSUME NEW q \in Ops, AssertAbsent(q) \/ SerialStage(q) \/ CheckSource(q) \/ MoveAside(q)
      PROVE  Onward
  <2>1. \/ pc = "serial" /\ pc' = "serial" /\ idx = q /\ idx' = After(Serial, q)
        \/ pc = "serial" /\ pc' = "serial" /\ idx = q /\ idx' = q /\ at' # ""
              /\ (at' \in Early => at \in Early)
        \/ pc = "move" /\ pc' = "move" /\ idx = q /\ idx' \in {q, After(Backed, q)}
    BY <1>2, RollsBack DEF AssertAbsent, SerialStage, CheckSource, MoveAside, Goto, Early
  <2> QED BY <1>1, <2>1 DEF Onward
<1>3. ASSUME NEW q \in Ops, SerialRecord(q) \/ SerialIntent(q) \/ SerialIdentify(q) PROVE Onward
  <2>1. pc = "serial" /\ idx = q /\ at \in {"staged", "recorded", "moved"}
    BY <1>3 DEF SerialRecord, SerialIntent, SerialIdentify
  <2>2. pc' = "serial" /\ idx' = q /\ at' # "" /\ (at' \in Early => at \in Early)
    <3>1. CASE SerialRecord(q)
      <4>1. pc' = "serial" /\ idx' = q /\ at' = "recorded" /\ at = "staged"
        BY <3>1, SavedMutating DEF SerialRecord
      <4> QED BY <4>1 DEF Early
    <3>2. CASE SerialIntent(q)
      <4>1. ASSUME SaveJournal(Backup(mem, {q}, "intent"), "serial", q, "check")
            PROVE  pc' = "serial" /\ idx' = q /\ at' = "check"
        BY <4>1, SavedMutating
      <4>2. pc' = "serial" /\ idx' = q /\ at' \in {"place", "check"} /\ at = "recorded"
        BY <3>2, <4>1, RollsBack DEF SerialIntent, Goto
      <4> QED BY <4>2 DEF Early
    <3>3. CASE SerialIdentify(q)
      <4>1. SaveJournal(Backup(mem, {q}, "identified"), "serial", q, "place")
        BY <3>3, RollsBack DEF SerialIdentify
      <4>2. pc' = "serial" /\ idx' = q /\ at' = "place"
        BY <4>1, SavedMutating
      <4> QED BY <4>2 DEF Early
    <3> QED BY <1>3, <3>1, <3>2, <3>3
  <2> QED BY <2>1, <2>2 DEF Onward
<1>4. ASSUME NEW q \in Ops, Place(q) \/ Placed(q) \/ Unplace(q) PROVE Onward
  <2>1. \/ pc' = "place"
        \/ pc = "serial" /\ pc' = "serial" /\ idx = q /\ idx' = After(Serial, q)
        \/ pc = "serial" /\ pc' = "serial" /\ idx = q /\ idx' = q /\ at' # "" /\ at' \notin Early
    BY <1>4, RollsBack DEF Place, Placed, Unplace, Goto, Early
  <2> QED BY <1>1, <2>1 DEF Onward
<1>5. ASSUME NEW q \in Ops, Link(q) PROVE Onward
  <2>1. pc = "link" /\ pc' = "link" /\ idx = q /\ idx' = After(Files, q)
    BY <1>5, RollsBack DEF Link, Goto
  <2> QED BY <1>1, <2>1 DEF Onward
<1>6. CASE StageFiles
  <2>1. pc = "serial" /\ pc' = "link"
    BY <1>6, RollsBack, SavedMutating DEF StageFiles, Goto
  <2> QED BY <2>1 DEF Onward
<1>7. CASE PinSources
  <2>1. pc = "link" /\ pc' = "move"
    BY <1>7, RollsBack, SavedMutating DEF PinSources, Goto
  <2> QED BY <2>1 DEF Onward
<1>8. CASE IdentifyBackups
  <2>1. pc' = "place"
    BY <1>8, RollsBack, SavedMutating DEF IdentifyBackups, Goto
  <2> QED BY <2>1 DEF Onward
<1>9. CASE (\E q \in Ops : Edit(q)) \/ UNCHANGED vars
  BY <1>9 DEF Edit, local, vars, Onward
<1>10. ~Begin
  BY DEF Begin, Mutating
<1> QED BY <1>2, <1>3, <1>4, <1>5, <1>6, <1>7, <1>8, <1>9, <1>10, Flow DEF SerialStep

\* It does not go back to a target.
LEMMA RoomKept ==
  ASSUME Base, [Next]_vars, pc \in Mutating, pc' \in Mutating, NEW o \in Ops
  PROVE  (Unstaged(o)' => Unstaged(o)) /\ (Unmoved(o)' => Unmoved(o))
<1>0. N \in Nat /\ o \in Nat /\ idx \in Nat /\ idx' \in Nat
  <2>1. PlanOK /\ idx \in 0 .. N + 1 /\ PlanOK' /\ idx' \in 0 .. N' + 1
    BY BaseStep DEF Base, ControlType
  <2>2. N \in Nat /\ N' = N /\ Ops = 1 .. N
    BY <2>1, PlanFacts, PlanNext
  <2> QED BY <2>1, <2>2
<1>1. Of(Canonical)' = Of(Canonical) /\ Files' = Files /\ Backed' = Backed
  BY PlanNext
<1>2. Files \cap Of(Canonical) = {} /\ Backed \cap Of(Canonical) = {}
  BY DEF Files, Backed, Phased, Of, Canonical
<1>3. Onward
  BY GoesOnward
<1>4. \A i, k \in Nat : k > i => (o > k \/ o = k \/ o >= k => o > i /\ o >= i)
  BY <1>0
<1>5. \A i, k \in Nat : k >= i => (o >= k => o >= i)
  BY <1>0
<1>6. CASE pc' = pc /\ idx' = idx /\ at' = at
  BY <1>1, <1>6 DEF Unstaged, Unmoved
<1>7. CASE pc = "serial" /\ pc' = "serial" /\ idx' = idx /\ at' # ""
              /\ (at' \in Early => at \in Early)
  BY <1>1, <1>7 DEF Unstaged, Unmoved
<1>8. CASE pc = "serial" /\ pc' = "serial" /\ idx' > idx
  BY <1>0, <1>1, <1>4, <1>8 DEF Unstaged, Unmoved
<1>8b. CASE pc = "link" /\ pc' = "link" /\ idx' > idx
  BY <1>0, <1>1, <1>4, <1>8b DEF Unstaged, Unmoved
<1>9. CASE pc' = "place"
  BY <1>9 DEF Unstaged, Unmoved
<1>10. CASE (pc = "serial" /\ pc' = "link") \/ (pc = "link" /\ pc' = "move")
  BY <1>1, <1>2, <1>10 DEF Unstaged, Unmoved
<1>11. CASE pc = "move" /\ pc' = "move" /\ idx' >= idx
  BY <1>0, <1>1, <1>5, <1>11 DEF Unstaged, Unmoved
<1> QED BY <1>3, <1>6, <1>7, <1>8, <1>8b, <1>9, <1>10, <1>11 DEF Onward

\* A turn fills a private name only at the point that empties Unstaged or Unmoved.
LEMMA RoomTurn ==
  ASSUME Base, Accepted, Room, [Next]_vars, NEW o \in Ops, Alone(o), Turned(o)
  PROVE  /\ fs'[o]["delb"] # "foreign"
         /\ pc \in Mutating /\ pc' \in Mutating /\ Unstaged(o) /\ Unstaged(o)'
               => fs'[o]["new"] = "none"
         /\ pc \in Mutating /\ pc' \in Mutating /\ Unmoved(o) /\ Unmoved(o)'
               => fs'[o]["bak"] = "none"
<1>0. PlanOK /\ N \in Nat /\ Ops = 1 .. N /\ o \in Nat /\ plan' = plan /\ o # N + 1
  BY PlanFacts, PlanNext DEF Base
<1>1. /\ fs[o]["delb"] # "foreign" /\ (Unstaged(o) => fs[o]["new"] = "none")
            /\ (Unmoved(o) => fs[o]["bak"] = "none")
  BY DEF Room
<1>2. \/ TurnEdit(o)
      \/ pc \in Mutating /\ (TurnStage(o) \/ TurnAside(o) \/ TurnPlace(o) \/ TurnDisplace(o)
              \/ TurnRestore(o))
      \/ /\ pc \in {"rollback", "back"} /\ idx = o
         /\ TurnRestore(o) \/ TurnDelete(o) \/ TurnPutBack(o) \/ TurnNew(o) \/ TurnLeaf(o)
      \/ pc \in {"finish", "forward"} /\ idx = o /\ (TurnForget(o) \/ TurnShelve(o))
  BY TurnPlaces
<1>3. pc \in {"rollback", "back", "finish", "forward"} => pc \notin Mutating
  BY DEF Mutating
<1>4. CASE TurnEdit(o)
  BY <1>1, <1>4 DEF TurnEdit, Becomes
<1>5. CASE TurnRestore(o) \/ TurnPlace(o)
  BY <1>1, <1>5 DEF TurnRestore, TurnPlace, Becomes
<1>6. CASE pc \in {"rollback", "back"}
              /\ (TurnDelete(o) \/ TurnPutBack(o) \/ TurnNew(o) \/ TurnLeaf(o))
  BY <1>1, <1>3, <1>6 DEF TurnDelete, TurnPutBack, TurnNew, TurnLeaf, Becomes
<1>7. CASE pc \in {"finish", "forward"} /\ (TurnForget(o) \/ TurnShelve(o))
  BY <1>1, <1>3, <1>7 DEF TurnForget, TurnShelve, Becomes
<1>8. CASE TurnStage(o)
  <2>1. /\ fs'[o]["delb"] = fs[o]["delb"] /\ fs'[o]["bak"] = fs[o]["bak"] /\ idx = o
        /\ (pc = "serial" /\ pc' = "serial" /\ idx' = o /\ at' = "staged")
              \/ (pc = "link" /\ pc' = "link" /\ idx' = After(Files, o))
    BY <1>8 DEF TurnStage, Becomes
  <2>2. ~Unstaged(o)'
    <3>1. CASE pc = "serial" /\ pc' = "serial" /\ idx' = o /\ at' = "staged"
      <4>1. o \in Of(Canonical)
        <5>1. o \in Serial /\ plan[o].kind \in Placing
          BY <1>0, <1>8, <3>1 DEF Base, Scheduled, SerialAt, TurnStage
        <5> QED BY <5>1 DEF Serial, Of, Placing, Canonical
      <4>2. Of(Canonical)' = Of(Canonical) /\ ~(o > o)
        BY <1>0, PlanNext
      <4> QED BY <3>1, <4>1, <4>2 DEF Unstaged
    <3>2. CASE pc = "link" /\ pc' = "link" /\ idx' = After(Files, o)
      <4>1. o \in 0 .. N /\ Files \in SUBSET Ops
        BY <1>0, OpSets
      <4>2. After(Files, o) > o /\ After(Files, o) \in 1 .. N + 1
        BY <1>0, <4>1, AfterFacts
      <4>3. ~(o >= After(Files, o))
        BY <1>0, <4>2
      <4> QED BY <3>2, <4>3 DEF Unstaged
    <3> QED BY <2>1, <3>1, <3>2
  <2> QED BY <1>1, <2>1, <2>2
<1>9. CASE TurnAside(o)
  <2>1. /\ fs'[o]["delb"] = fs[o]["delb"] /\ fs'[o]["new"] = fs[o]["new"] /\ idx = o
              /\ at = "rename"
        /\ (pc = "serial" /\ pc' = "serial" /\ idx' = o /\ at' = "moved")
              \/ (pc = "move" /\ pc' = "move" /\ idx' = After(Backed, o))
    BY <1>9 DEF TurnAside, Becomes
  <2>2. ~Unmoved(o)'
    <3>1. CASE pc = "serial" /\ pc' = "serial" /\ idx' = o /\ at' = "moved"
      <4>1. o \in Of(Canonical)
        BY <2>1, <3>1 DEF Base, Scheduled, SerialAt
      <4>2. Of(Canonical)' = Of(Canonical) /\ ~(o > o) /\ "moved" \notin Early
        BY <1>0, PlanNext DEF Early
      <4> QED BY <3>1, <4>1, <4>2 DEF Unmoved
    <3>2. CASE pc = "move" /\ pc' = "move" /\ idx' = After(Backed, o)
      <4>1. o \in 0 .. N /\ Backed \in SUBSET Ops
        BY <1>0, OpSets
      <4>2. After(Backed, o) > o /\ After(Backed, o) \in 1 .. N + 1
        BY <1>0, <4>1, AfterFacts
      <4>3. ~(o >= After(Backed, o))
        BY <1>0, <4>2
      <4> QED BY <3>2, <4>3 DEF Unmoved
    <3> QED BY <2>1, <3>1, <3>2
  <2> QED BY <1>1, <2>1, <2>2
<1>10. CASE TurnDisplace(o)
  <2>1. /\ fs'[o]["delb"] = fs[o]["delb"] /\ fs'[o]["bak"] = fs[o]["bak"]
        /\ pc \in {"serial", "place"} /\ idx = o /\ at = "placed"
    BY <1>10 DEF TurnDisplace, Becomes
  <2>2. ~Unstaged(o)
    <3>1. pc = "serial" => o \in Of(Canonical)
      BY <2>1 DEF Base, Scheduled, SerialAt
    <3>2. ~(o > o)
      BY <1>0
    <3> QED BY <2>1, <3>1, <3>2 DEF Unstaged
  <2> QED BY <1>1, <2>1, <2>2
<1> QED BY <1>2, <1>4, <1>5, <1>6, <1>7, <1>8, <1>9, <1>10

\* Every step keeps Room.
LEMMA RoomStep ==
  ASSUME Base, Accepted, Mine, Compared, Room, [Next]_vars
  PROVE  Room'
<1>0. PlanOK /\ TargetType /\ N \in Nat /\ Ops = 1 .. N /\ Ops' = Ops
  BY PlanFacts, PlanNext DEF Base
<1>1. ASSUME NEW o \in Ops
      PROVE  /\ fs'[o]["delb"] # "foreign"
             /\ Unstaged(o)' => fs'[o]["new"] = "none"
             /\ Unmoved(o)' => fs'[o]["bak"] = "none"
  <2>0. fs[o]["delb"] # "foreign" /\ (Unstaged(o) => fs[o]["new"] = "none")
           /\ (Unmoved(o) => fs[o]["bak"] = "none")
    BY DEF Room
  <2>1. Unstaged(o)' \/ Unmoved(o)' => pc' \in Mutating
    BY DEF Unstaged, Unmoved, Mutating
  <2>2. CASE PowerLoss
    <3>1. cuts > 0 /\ pc' = "down" /\ fs'[o] \in Left(o) \cup {NoNames}
      BY <2>2, PowerLossFacts
    <3>2. took = {} /\ "delb" \in Names
      BY <3>1 DEF Mine, Names
    <3>3. fs'[o]["delb"] # "foreign"
      BY <3>1, <3>2, NoNamesFacts DEF Mine
    <3> QED BY <2>1, <3>1, <3>3 DEF Mutating
  <2>3. CASE Begin
    <3>1. fs' = fs /\ \A n \in Private : fs[o][n] = "none"
      BY <2>3 DEF Begin, target
    <3>2. {"new", "bak", "delb"} \subseteq Private
      BY DEF Private, Names
    <3> QED BY <3>1, <3>2
  <2>4. CASE ~PowerLoss /\ ~Begin
    <3>1. pc' \in Mutating => pc \in Mutating
      BY <2>4, Flow
    <3>2. pc' \in Mutating => (Unstaged(o)' => Unstaged(o)) /\ (Unmoved(o)' => Unmoved(o))
      BY <3>1, RoomKept
    <3>3. Kept(o) \/ (Alone(o) /\ Turned(o))
      BY <2>4, EachTarget
    <3>4. CASE Kept(o)
      BY <2>0, <2>1, <3>2, <3>4 DEF Kept
    <3>5. CASE Alone(o) /\ Turned(o)
      BY <2>1, <3>1, <3>2, <3>5, RoomTurn
    <3> QED BY <3>3, <3>4, <3>5
  <2> QED BY <2>2, <2>3, <2>4
<1>2. ASSUME at' = "placed" PROVE fs'[idx']["new"] = "none"
  <2>1. ASSUME NEW o \in Ops, Edit(o) PROVE fs'[idx']["new"] = "none"
    <3>1. idx' = idx /\ at = "placed" /\ idx \in Ops
      BY <1>2, <2>1 DEF Edit, local, Compared
    <3>2. fs[idx]["new"] = "none"
      BY <3>1 DEF Room
    <3>3. fs'[o]["new"] = fs[o]["new"] /\ \A q \in Ops \ {o} : fs'[q] = fs[q]
      BY <2>1, EditFacts DEF Becomes
    <3> QED BY <3>1, <3>2, <3>3
  <2>2. CASE UNCHANGED vars
    BY <1>2, <2>2 DEF vars, Room
  <2>3. ASSUME NEW o \in Ops, idx' = o, Place(o), fs[o]["leaf"] = "none"
        PROVE  fs'[idx']["new"] = "none"
    <3>1. fs[o] \in Listing /\ "new" \in Names /\ "leaf" \in Names /\ "new" # "leaf"
      BY <1>0 DEF TargetType, Names
    <3>2. Move(fs[o], "new", "leaf") \in Listing /\ Move(fs[o], "new", "leaf")["new"] = "none"
      BY <3>1, MoveFacts
    <3>3. Put(o, Move(fs[o], "new", "leaf"))
      BY <2>3 DEF Place
    <3> QED BY <1>0, <2>3, <3>2, <3>3, PutFacts
  <2> QED BY <1>2, <2>1, <2>2, <2>3, ComparePoints
<1> QED BY <1>0, <1>1, <1>2 DEF Room

\* No step overwrites or unlinks what somebody else made: renames go to free names,
\* and what is unlinked was compared in quarantine.
LEMMA ForeignKept ==
  ASSUME IInv, Room, [Next]_vars, edits' = edits, cuts' = cuts, NEW o \in Ops,
         Holds(fs[o], "foreign")
  PROVE  Holds(fs'[o], "foreign")
<1>0. Base /\ Accepted /\ Compared /\ PlanOK /\ N \in Nat /\ Ops = 1 .. N /\ o \in Nat /\ o # N + 1
         /\ o >= o
  BY PlanFacts DEF IInv, Base
<1>n. Names = {"leaf", "new", "bak", "delc", "delb"}
  BY DEF Names
<1>1. \/ fs[o]["leaf"] = "foreign" \/ fs[o]["new"] = "foreign" \/ fs[o]["bak"] = "foreign"
      \/ fs[o]["delc"] = "foreign" \/ fs[o]["delb"] = "foreign"
  BY <1>n DEF Holds
<1>2. SUFFICES \/ fs'[o]["leaf"] = "foreign" \/ fs'[o]["new"] = "foreign"
                     \/ fs'[o]["bak"] = "foreign"
               \/ fs'[o]["delc"] = "foreign" \/ fs'[o]["delb"] = "foreign"
  BY <1>n DEF Holds
<1>3. ~PowerLoss /\ ~Edit(o)
  <2>1. cuts \in Nat /\ edits \in Nat
    BY <1>0 DEF Base, ControlType
  <2>2. cuts - 1 # cuts /\ edits - 1 # edits
    BY <2>1
  <2> QED BY <2>2 DEF PowerLoss, Edit
<1>4. Kept(o) \/ Turned(o)
  BY <1>0, <1>3, EachTarget
<1>5. CASE Kept(o)
  BY <1>1, <1>5 DEF Kept
<1>r. /\ fs[o]["delb"] # "foreign" /\ (Unstaged(o) => fs[o]["new"] = "none")
            /\ (Unmoved(o) => fs[o]["bak"] = "none")
      /\ at = "placed" /\ idx = o => fs[o]["new"] = "none"
  BY DEF Room
<1>6. CASE TurnStage(o)
  <2>1. Unstaged(o)
    <3>1. pc = "link" /\ idx = o => o \in Files
      BY <1>0 DEF Base, Scheduled, PhasedAt
    <3> QED BY <1>0, <1>6, <3>1 DEF TurnStage, Unstaged
  <2> QED BY <1>1, <1>6, <1>r, <2>1 DEF TurnStage, Becomes
<1>7. CASE TurnAside(o)
  <2>1. Unmoved(o)
    <3>1. pc = "move" /\ idx = o => o \in Backed
      BY <1>0 DEF Base, Scheduled, PhasedAt
    <3> QED BY <1>0, <1>7, <3>1 DEF TurnAside, Unmoved, Early
  <2> QED BY <1>1, <1>7, <1>r, <2>1 DEF TurnAside, Becomes
<1>8. CASE TurnPlace(o) \/ TurnRestore(o) \/ TurnPutBack(o)
  BY <1>1, <1>8 DEF TurnPlace, TurnRestore, TurnPutBack, Becomes
<1>9. CASE TurnDisplace(o)
  BY <1>1, <1>9, <1>r DEF TurnDisplace, Becomes
<1>10. CASE TurnDelete(o) \/ TurnForget(o) \/ TurnShelve(o) \/ TurnNew(o)
  BY <1>1, <1>10, <1>r DEF TurnDelete, TurnForget, TurnShelve, TurnNew, Becomes
<1>11. CASE TurnLeaf(o)
  <2>1. fs[o]["delc"] = "none"
    BY <1>0, <1>11 DEF TurnLeaf, Compared
  <2> QED BY <1>1, <1>11, <2>1 DEF TurnLeaf, Becomes
<1> QED BY <1>3, <1>4, <1>5, <1>6, <1>7, <1>8, <1>9, <1>10, <1>11 DEF Turned, TurnEdit

\* Before anything is committed there are no private names.
LEMMA RoomInit ==
  ASSUME Init
  PROVE  Room
<1>1. \A o \in Ops : \A n \in Private : fs[o][n] = "none"
  BY DEF Init, Private
<1>2. {"new", "bak", "delb"} \subseteq Private
  BY DEF Private, Names
<1>3. at = ""
  BY DEF Init
<1> QED BY <1>1, <1>2, <1>3 DEF Room

\* For every plan and any number of faults and edits, what somebody else put at a
\* target is moved aside and back, and never deleted by commit_v1 or recover_v1.
THEOREM ForeignSafe ==
  ASSUME FaultsApart
  PROVE  Spec => ForeignNeverDeleted
<1> DEFINE Kept1 == (edits' = edits /\ cuts' = cuts)
                   => \A o \in Ops : Holds(fs[o], "foreign") => Holds(fs'[o], "foreign")
<1>1. Init => IInv /\ Room
  BY Initially, RoomInit
<1>2. IInv /\ Room /\ [Next]_vars => (IInv /\ Room)'
  <2> SUFFICES ASSUME IInv, Room, [Next]_vars PROVE IInv' /\ Room'
    OBVIOUS
  <2>1. Base /\ Accepted /\ Mine /\ Compared
    BY DEF IInv
  <2> QED BY <2>1, Inductive, RoomStep
<1>3. IInv /\ Room /\ [Next]_vars => Kept1
  BY ForeignKept
<1> QED BY <1>1, <1>2, <1>3, PTL DEF Spec, ForeignNeverDeleted

-----------------------------------------------------------------------------
\* Power may be lost any number of times and system calls may fail; nobody kills
\* the process or edits a target.
PowerOnly == \A s \in Scenarios : s.kills = 0 /\ s.edits = 0

\* Between losses of power the catalog is on disk, and a journal that may turn out
\* not to exist is one that was just published.
Lit ==
  /\ kills = 0 /\ edits = 0 /\ took = {}
  /\ pc # "dark" \/ jrn = NoJournal => cdur = {cat}
  /\ pc # "dark" /\ NoJournal \in jdur => jrn = NoJournal
  /\ jrn # NoJournal /\ NoJournal \in jdur => cdur = {cat} /\ cat.cur = "prev"

\* That holds before anything is committed.
LEMMA LitInit ==
  ASSUME Init, PowerOnly
  PROVE  Lit
<1>1. PICK s \in Scenarios : kills = s.kills /\ edits = s.edits
  BY DEF Init
<1>2. kills = 0 /\ edits = 0
  BY <1>1 DEF PowerOnly
<1>3. took = {} /\ cdur = {cat} /\ jrn = NoJournal
  BY DEF Init
<1> QED BY <1>2, <1>3 DEF Lit

\* Only a loss of power stops the process.
LEMMA LitFaults ==
  ASSUME Base, Lit, [Next]_vars
  PROVE  /\ ~Killed /\ (\A o \in Ops : ~Edit(o)) /\ ~Kill
         /\ Die => pc' = "dark"
         /\ kills' = 0 /\ edits' = 0 /\ took' = {}
<1>0. kills = 0 /\ edits = 0 /\ took = {}
  BY DEF Lit
<1>1. ~(kills > 0) /\ ~(edits > 0)
  BY <1>0
<1>2. ~Killed /\ (\A o \in Ops : ~Edit(o)) /\ ~Kill
  BY <1>1 DEF Killed, Edit, Kill
<1>3. Die => pc' = "dark"
  BY <1>2 DEF Die, Gone
<1>4. kills' = 0 /\ edits' = 0 /\ took' = {}
  BY <1>0, <1>1, <1>2, Spending DEF Spent
<1> QED BY <1>2, <1>3, <1>4

\* What a step can do to the catalog.
LEMMA CatalogSteps ==
  ASSUME Base, Lit, [Next]_vars, ~PowerLoss
  PROVE  \/ UNCHANGED catalog
         \/ /\ UNCHANGED journal
            /\ pc \in {"publish", "exchange", "unstage", "clean"}
            /\ cdur' = {cat'} \/ (cdur' = cdur \cup {cat'} /\ pc' = "dark")
            /\ cat.cur = "next" => cat'.cur = "next"
<1> DEFINE Saves == /\ UNCHANGED journal
                    /\ pc \in {"publish", "exchange", "unstage", "clean"}
                    /\ cdur' = {cat'} \/ (cdur' = cdur \cup {cat'} /\ pc' = "dark")
                    /\ cat.cur = "next" => cat'.cur = "next"
<1>1. Die => pc' = "dark"
  BY LitFaults
<1>2. CASE StageCatalog \/ ExchangeCatalog \/ UnstageCatalog
  <2>1. CatAt("next", "prev").cur = "next" /\ CatAt("next", "none").cur = "next"
    BY CatFields
  <2>2. pc = "publish" => cat.cur # "next"
    BY PrevNow
  <2>3. ASSUME NEW c, NEW p, NEW i, SaveCatalog(c, p, i)
        PROVE  UNCHANGED journal /\ cat' = c
                  /\ (cdur' = {cat'} \/ (cdur' = cdur \cup {cat'} /\ pc' = "dark"))
    BY <1>1, <2>3 DEF SaveCatalog
  <2> QED BY <1>2, <2>1, <2>2, <2>3 DEF StageCatalog, ExchangeCatalog, UnstageCatalog
<1>3. CASE CleanCatalog
  <2>1. CatAt(cat.cur, "none").cur = cat.cur
    BY CatFields
  <2> QED BY <1>1, <1>3, <2>1 DEF CleanCatalog
<1>6. ASSUME NEW o \in Ops, SerialStep(o) PROVE UNCHANGED catalog
  BY <1>6 DEF SerialStep, AssertAbsent, SerialStage, SerialRecord, SerialIntent, CheckSource,
     MoveAside,
     SerialIdentify, Place, Placed, Unplace, Link
<1>7. ASSUME NEW o \in Ops, FinishStep(o) \/ UndoStep(o) \/ Edit(o) PROVE UNCHANGED catalog
  BY <1>7 DEF FinishStep, UndoStep, Edit, FinishRefuses, QuarantineBackup, DeleteBackup,
     FinishNext, UndoSkip,
     UndoRefuses, UndoDone, QuarantineNew, CheckCreated, QuarantineLeaf, DeleteCreated,
     RestoreBackup
<1>8. StageFiles \/ PinSources \/ IdentifyBackups \/ VerifyApplied \/ FinishDone \/ RollbackDone
       \/ RecoverRolledBack \/ RemoveJournal \/ Begin \/ Recover \/ Kill \/ IoError
             \/ UNCHANGED vars => UNCHANGED catalog
  BY DEF StageFiles, PinSources, IdentifyBackups, VerifyApplied, FinishDone, RollbackDone,
     RecoverRolledBack, RemoveJournal, Begin, Recover, Kill, IoError, vars, catalog
<1> QED BY <1>2, <1>3, <1>6, <1>7, <1>8 DEF Next, Work, Environment

\* Which steps open and close the journal.
LEMMA OpenSteps ==
  ASSUME Base, Accepted, Lit, [Next]_vars
  PROVE  \/ PowerLoss
         \/ UNCHANGED journal
         \/ /\ Begin /\ jrn = NoJournal /\ jrn' # NoJournal /\ UNCHANGED catalog
            /\ pc' # "dark" => NoJournal \notin jdur'
         \/ RemoveJournal /\ pc = "unjournal" /\ jrn # NoJournal /\ jrn' = NoJournal
               /\ UNCHANGED <<fs, catalog>>
         \/ pc \in Mutating /\ jrn # NoJournal /\ jrn' # NoJournal /\ NoJournal \notin jdur'
<1>0. PlanOK /\ StoreType /\ Controlled /\ NoJournal \notin Journals
  BY PlanFacts DEF Base
<1>1. CASE Begin
  <2>1. [o \in Ops |-> Blank] # NoJournal
    BY <1>0, BlankFacts
  <2>2. Die => pc' = "dark"
    BY LitFaults
  <2> QED BY <1>1, <2>1, <2>2 DEF Begin
<1>2. CASE RemoveJournal
  <2>1. pc = "unjournal" /\ jrn' = NoJournal /\ UNCHANGED <<fs, catalog>>
    BY <1>2 DEF RemoveJournal, target
  <2>2. jrn # NoJournal
    BY <1>0, <2>1 DEF Controlled
  <2> QED BY <1>2, <2>1, <2>2
<1>3. ASSUME pc \in Mutating, jdur = {jrn}, NEW m, Extends(m), jdur' \subseteq {jrn, m}
      PROVE  jrn # NoJournal /\ jrn' # NoJournal /\ NoJournal \notin jdur'
  <2>1. jrn = mem /\ mem \in Journals
    BY <1>3, MutatingFacts
  <2>2. m \in Journals
    BY <1>3, <2>1, JournalFacts DEF Extends
  <2>3. jrn' \in jdur'
    BY BaseStep DEF Base, StoreType
  <2> QED BY <1>0, <1>3, <2>1, <2>2, <2>3
<1> QED BY <1>1, <1>2, <1>3, JournalSteps

\* Every step keeps Lit.
LEMMA LitStep ==
  ASSUME Base, Accepted, Lit, [Next]_vars
  PROVE  Lit'
<1>0. kills' = 0 /\ edits' = 0 /\ took' = {}
  BY LitFaults
<1>1. CASE PowerLoss
  <2>1. cdur' = {cat'} /\ jdur' = {jrn'}
    BY <1>1 DEF PowerLoss
  <2> QED BY <1>0, <2>1 DEF Lit
<1>2. CASE UNCHANGED vars
  BY <1>2 DEF vars, Lit
<1>3. CASE ~PowerLoss /\ ~(UNCHANGED vars)
  <2>1. pc # "dark"
    BY <1>3, Flow
  <2>2. cdur = {cat} /\ (NoJournal \in jdur => jrn = NoJournal)
    BY <2>1 DEF Lit
  <2>3. CASE UNCHANGED catalog
    <3>1. cdur' = {cat'} /\ cat' = cat
      BY <2>2, <2>3 DEF catalog
    <3>2. CASE UNCHANGED journal
      BY <1>0, <2>2, <3>1, <3>2 DEF Lit, journal
    <3>3. CASE Begin /\ (pc' # "dark" => NoJournal \notin jdur')
      <4>1. cat.cur = "prev"
        BY <3>3, CatFields DEF Begin
      <4> QED BY <1>0, <3>1, <3>3, <4>1 DEF Lit
    <3>4. CASE jrn' = NoJournal
      BY <1>0, <3>1, <3>4 DEF Lit
    <3>5. CASE NoJournal \notin jdur'
      BY <1>0, <3>1, <3>5 DEF Lit
    <3> QED BY <1>3, <3>2, <3>3, <3>4, <3>5, OpenSteps
  <2>4. CASE /\ UNCHANGED journal /\ pc \in {"publish", "exchange", "unstage", "clean"}
             /\ cdur' = {cat'} \/ (cdur' = cdur \cup {cat'} /\ pc' = "dark")
    <3>1. jrn # NoJournal
      BY <2>4 DEF Base, Controlled
    <3>2. jrn' # NoJournal /\ NoJournal \notin jdur'
      BY <2>2, <2>4, <3>1 DEF journal
    <3> QED BY <1>0, <2>4, <3>2 DEF Lit
  <2> QED BY <1>3, <2>3, <2>4, CatalogSteps
<1> QED BY <1>1, <1>2, <1>3

\* The refinement mapping, by name: the targets while nothing is pending, ...
Shown == IF jrn = NoJournal THEN [o \in Ops |-> fs[o]["leaf"]] ELSE <<>>
\* ... what they were, ...
Before == [o \in Ops |-> plan[o].seen]
\* ... what the plan makes of them, ...
Then == [o \in Ops |-> Goal(o)]
\* ... and whether the next catalog is selected for good.
Final == \A c \in cdur : c.cur = "next"

\* Without a journal, the targets are one or the other.
ShownRight == jrn = NoJournal => Shown = IF cat.cur = "prev" THEN Before ELSE Then

\* That follows from the invariant ...
LEMMA ShownSettled == IInv /\ Lit => ShownRight
<1> SUFFICES ASSUME IInv, Lit, jrn = NoJournal
             PROVE  Shown = IF cat.cur = "prev" THEN Before ELSE Then
  BY DEF ShownRight
<1>1. \A o \in Ops : fs[o]["leaf"] = IF cat.cur = "prev" THEN plan[o].seen ELSE Goal(o)
  BY Settled DEF Lit
<1> QED BY <1>1 DEF Shown, Before, Then

\* ... in the next state too.
LEMMA ShownNext == (IInv /\ Lit)' => ShownRight'
BY ShownSettled, PTL

\* What a step is at the level of the deployment.
LEMMA DeployStep ==
  ASSUME IInv, Lit, [Next]_vars
  PROVE  \/ /\ jrn = NoJournal /\ jrn' # NoJournal /\ cat'.cur = cat.cur /\ (Final' <=> Final)
         \/ /\ jrn # NoJournal /\ jrn' # NoJournal /\ ~Final
            /\ cat'.cur \in {"prev", "next"} /\ (Final' => cat'.cur = "next")
         \/ /\ jrn # NoJournal /\ jrn' = NoJournal /\ (cat.cur = "next" => Final)
            /\ cat'.cur = cat.cur /\ (Final' <=> Final)
            /\ Shown' = IF cat.cur = "prev" THEN Before ELSE Then
         \/ /\ jrn # NoJournal /\ jrn' = NoJournal /\ ~Final
            /\ cat'.cur = "prev" /\ (Final' <=> Final) /\ Shown' = Before
         \/ (jrn' = NoJournal <=> jrn = NoJournal) /\ cat'.cur = cat.cur /\ (Final' <=> Final)
               /\ Shown' = Shown
<1>0. /\ Base /\ Accepted /\ Done /\ IInv' /\ Lit' /\ plan' = plan /\ Ops' = Ops
      /\ Before' = Before /\ Then' = Then /\ took = {} /\ took' = {}
  <2>1. Base /\ Accepted /\ Done /\ IInv'
    BY Inductive DEF IInv
  <2>2. Lit'
    BY <2>1, LitStep
  <2>3. plan' = plan /\ Ops' = Ops /\ \A o : Goal(o)' = Goal(o)
    BY <2>1, PlanNext
  <2> QED BY <2>1, <2>2, <2>3 DEF Before, Then, Lit
<1>1. /\ cat \in cdur /\ cat' \in cdur' /\ cat.cur \in {"prev", "next"}
            /\ cat'.cur \in {"prev", "next"}
      /\ jrn \in jdur /\ jrn' \in jdur'
  <2>1. StoreType /\ StoreType'
    BY <1>0 DEF IInv, Base
  <2> QED BY <2>1 DEF StoreType, Catalogs
<1>2. /\ jrn = NoJournal => Shown = IF cat.cur = "prev" THEN Before ELSE Then
      /\ jrn # NoJournal => Shown = <<>>
  BY ShownSettled DEF Shown, ShownRight
<1>3. /\ jrn' = NoJournal => Shown' = IF cat'.cur = "prev" THEN Before ELSE Then
      /\ jrn' # NoJournal => Shown' = <<>>
  <2>1. ShownRight'
    BY <1>0, ShownNext
  <2> QED BY <1>0, <2>1 DEF Shown, ShownRight
<1>4. CASE UNCHANGED vars
  BY <1>0, <1>4 DEF vars, Shown, Final
<1>5. CASE PowerLoss
  <2>1. jrn' \in jdur /\ cat' \in cdur /\ cdur' = {cat'}
    BY <1>5 DEF PowerLoss
  <2>2. /\ Final => cat'.cur = "next" /\ cat.cur = "next" /\ Final'
        /\ Final' <=> cat'.cur = "next"
    BY <1>1, <2>1 DEF Final
  <2>3. CASE jrn = NoJournal
    <3>1. cdur = {cat}
      BY <2>3 DEF Lit
    <3>2. cat' = cat /\ (Final' <=> Final)
      BY <2>1, <3>1 DEF Final
    <3> QED BY <1>2, <1>3, <2>3, <3>2
  <2>4. CASE jrn # NoJournal /\ jrn' # NoJournal
    BY <1>1, <1>2, <1>3, <2>2, <2>4
  <2>5. CASE jrn # NoJournal /\ jrn' = NoJournal
    <3>1. cdur = {cat} /\ cat.cur = "prev"
      BY <2>1, <2>5 DEF Lit
    <3>2. cat'.cur = "prev" /\ ~Final /\ ~Final'
      BY <2>1, <2>2, <3>1
    <3> QED BY <1>3, <2>5, <3>2
  <2> QED BY <2>3, <2>4, <2>5
<1>6. CASE ~PowerLoss /\ ~(UNCHANGED vars)
  <2>1. cdur = {cat} /\ pc # "dark"
    <3>1. pc # "dark"
      BY <1>0, <1>6, Flow
    <3> QED BY <3>1 DEF Lit
  <2>2. Final <=> cat.cur = "next"
    BY <2>1 DEF Final
  <2>3. CASE UNCHANGED catalog
    <3>1. cat' = cat /\ (Final' <=> Final)
      BY <2>3 DEF catalog, Final
    <3>2. CASE jrn = NoJournal /\ jrn' = NoJournal
      BY <1>2, <1>3, <3>1, <3>2
    <3>3. CASE jrn = NoJournal /\ jrn' # NoJournal
      BY <3>1, <3>3
    <3>4. CASE jrn # NoJournal /\ jrn' = NoJournal
      BY <1>3, <2>2, <3>1, <3>4
    <3>5. CASE jrn # NoJournal /\ jrn' # NoJournal
      BY <1>2, <1>3, <3>1, <3>5
    <3> QED BY <3>2, <3>3, <3>4, <3>5
  <2>4. CASE /\ UNCHANGED journal /\ pc \in {"publish", "exchange", "unstage", "clean"}
             /\ cat.cur = "next" => cat'.cur = "next"
             /\ cdur' = {cat'} \/ (cdur' = cdur \cup {cat'} /\ pc' = "dark")
    <3>1. jrn # NoJournal /\ jrn' # NoJournal
      BY <1>0, <2>4 DEF Base, Controlled, journal
    <3>2. Final' => cat'.cur = "next"
      BY <1>1 DEF Final
    <3>3. Final => cat'.cur = "next" /\ cat.cur = "next" /\ Final'
      BY <2>1, <2>2, <2>4 DEF Final
    <3> QED BY <1>1, <1>2, <1>3, <3>1, <3>2, <3>3
  <2> QED BY <1>0, <1>6, <2>3, <2>4, CatalogSteps
<1> QED BY <1>4, <1>5, <1>6

\* Every step is one of AtomicDeploy's, or changes nothing there.
LEMMA DeployMapped ==
  ASSUME IInv, Lit, [Next]_vars
  PROVE  [Deploy!DeployNext]_(Deploy!deployVars)
<1>0. Before' = Before /\ Then' = Then
  <2>1. Base
    BY DEF IInv
  <2>2. plan' = plan /\ Ops' = Ops /\ \A o : Goal(o)' = Goal(o)
    BY <2>1, PlanNext
  <2> QED BY <2>2 DEF Before, Then
<1>1. jrn' # NoJournal => Shown' = <<>>
  BY DEF Shown
<1>2. jrn # NoJournal => Shown = <<>>
  BY DEF Shown
<1>3. CASE jrn = NoJournal /\ jrn' # NoJournal /\ cat'.cur = cat.cur /\ (Final' <=> Final)
  <2>1. Deploy!Open
    BY <1>1, <1>3 DEF Deploy!Open, Deploy!InFlux, Shown, Final
  <2> QED BY <1>0, <2>1 DEF Deploy!DeployNext, Before, Then
<1>4. CASE /\ jrn # NoJournal /\ jrn' # NoJournal /\ ~Final
           /\ cat'.cur \in {"prev", "next"} /\ (Final' => cat'.cur = "next")
  <2>1. Deploy!Decide
    BY <1>1, <1>2, <1>4 DEF Deploy!Decide, Shown, Final
  <2> QED BY <1>0, <2>1 DEF Deploy!DeployNext, Before, Then
<1>5. CASE /\ jrn # NoJournal /\ jrn' = NoJournal /\ (cat.cur = "next" => Final)
           /\ cat'.cur = cat.cur /\ (Final' <=> Final)
           /\ Shown' = IF cat.cur = "prev" THEN Before ELSE Then
  <2>1. Deploy!Close
    BY <1>5 DEF Deploy!Close, Shown, Final, Before, Then
  <2> QED BY <1>0, <2>1 DEF Deploy!DeployNext, Before, Then
<1>6. CASE /\ jrn # NoJournal /\ jrn' = NoJournal /\ ~Final
           /\ cat'.cur = "prev" /\ (Final' <=> Final) /\ Shown' = Before
  <2>1. Deploy!Cut
    BY <1>6 DEF Deploy!Cut, Shown, Final, Before
  <2> QED BY <1>0, <2>1 DEF Deploy!DeployNext, Before, Then
<1>7. CASE (jrn' = NoJournal <=> jrn = NoJournal) /\ cat'.cur = cat.cur /\ (Final' <=> Final)
              /\ Shown' = Shown
  BY <1>0, <1>7 DEF Deploy!deployVars, Shown, Final, Before, Then
<1> QED BY <1>3, <1>4, <1>5, <1>6, <1>7, DeployStep

\* For every plan and any number of losses of power and failed calls, commit_v1
\* and recover_v1 together are one atomic deployment: its outcome is decided under
\* the journal, is final once the catalog is on disk, and the targets show one
\* outcome or the other whenever the journal is gone.
THEOREM CommitImplementsDeploy ==
  ASSUME PowerOnly
  PROVE  Spec => ImplementsDeploy
<1>1. Init => IInv /\ Lit
  <2>1. FaultsApart
    BY DEF PowerOnly, FaultsApart
  <2> QED BY <2>1, Initially, LitInit
<1>2. IInv /\ Lit /\ [Next]_vars => (IInv /\ Lit)'
  <2> SUFFICES ASSUME IInv, Lit, [Next]_vars PROVE IInv' /\ Lit'
    OBVIOUS
  <2>1. Base /\ Accepted
    BY DEF IInv
  <2> QED BY <2>1, Inductive, LitStep
<1>3. Init => Deploy!DeployInit
  <2> SUFFICES ASSUME Init PROVE Deploy!DeployInit
    OBVIOUS
  <2>1. jrn = NoJournal /\ cat = CatAt("prev", "none") /\ cdur = {CatAt("prev", "none")}
    BY DEF Init
  <2>2. cat.cur = "prev" /\ ~(\A c \in cdur : c.cur = "next")
    BY <2>1, CatFields
  <2>3. \A o \in Ops : fs[o]["leaf"] = plan[o].seen
    BY DEF Init, Names
  <2> QED BY <2>1, <2>2, <2>3 DEF Deploy!DeployInit
<1>4. IInv /\ Lit /\ [Next]_vars => [Deploy!DeployNext]_(Deploy!deployVars)
  BY DeployMapped
<1> QED BY <1>1, <1>2, <1>3, <1>4, PTL DEF Spec, ImplementsDeploy, Deploy!DeploySpec
-----------------------------------------------------------------------------
\* No call fails that commit_v1 handles, or no entry of the plan is named before
\* its identity can be recorded.
Spared == ioErrs = 0 \/ Of(Canonical) = {}

\* Something may be left at one of o's names.
Has(o, n) == \E f \in Left(o) : f[n] # "none"

\* Neither a staging entry nor one in quarantine may be left at o.
Cleared(o) == ~Has(o, "new") /\ ~Has(o, "delc")
\* Of the private names, only the backup may be left.
Bare(o) == Cleared(o) /\ ~Has(o, "delb")

\* Only what is placed is staged, and only what is placed or removed is shelved.
Fitting ==
  \A o \in Ops : /\ Has(o, "new") \/ Has(o, "delc") => plan[o].kind \in Placing
                 /\ Has(o, "delb") => plan[o].kind \in Placing \cup {"remove"}

\* A backup is not shelved while recovery may still have to roll back, nor is a
\* created entry once it may have to roll forward or while the plan is applied.
Shelving ==
  /\ SomePrev => \A o \in Ops : ~Has(o, "delb")
  /\ pc \in Mutating \/ Deployed => \A o \in Ops : ~Has(o, "delc")

\* The staging entry of o has its name, and its identity is about to be recorded.
JustNamed(o) == pc = "serial" /\ idx = o /\ at = "staged"

\* What is staged has its identity in memory before anything can be rolled back.
Identified ==
  /\ pc \in Mutating => \A o \in Ops : Has(o, "new") => mem[o].created \/ JustNamed(o)
  /\ pc = "rollback" => \A o \in Ops : Has(o, "new") \/ Has(o, "delc") => mem[o].created

\* What a rollback has behind it is gone, or will go with its directory.
Discarded ==
  pc = "back" \/ (pc = "rollback" /\ err = "error") =>
    \A o \in Ops : o > idx => Cleared(o) \/ Pending(o)

\* What finish_incomplete has behind it has no staging entry and no backup left.
Dropped ==
  pc \in {"finish", "forward"} =>
    /\ \A o \in ToFinish : o < idx => ~Has(o, "new") /\ ~Has(o, "delb")
    /\ at = "delete" => ~Has(idx, "new")

\* Before the journal goes, and when it may be gone, nothing is left.
Emptiness == pc \in {"clean", "unjournal"} \/ ~Journaled => \A o \in Ops : Bare(o)

\* The names that the transaction uses, in addition to the invariant.
Sweeping == Spared /\ Fitting /\ Shelving /\ Identified /\ Discarded /\ Dropped /\ Emptiness

\* Which steps put something at a private name.
LEMMA NamesTurn ==
  ASSUME Base, Accepted, [Next]_vars, NEW o \in Ops
  PROVE  /\ Has(o, "new")' => Has(o, "new") \/ (~PowerLoss /\ (TurnStage(o) \/ TurnDisplace(o)))
         /\ Has(o, "delc")' => Has(o, "delc") \/ (~PowerLoss /\ (TurnNew(o) \/ TurnLeaf(o)))
         /\ Has(o, "delb")' => Has(o, "delb") \/ (~PowerLoss /\ TurnShelve(o))
<1>1. fs[o] \in Left(o)
  BY Turning
<1>n. {"new", "delc", "delb"} \subseteq Names
  BY DEF Names
<1>2. ASSUME Left(o)' \subseteq Left(o) PROVE \A n : Has(o, n)' => Has(o, n)
  BY <1>2 DEF Has
<1>3. CASE PowerLoss
  <2>1. Left(o)' = {fs'[o]} /\ fs'[o] \in Left(o) \cup {NoNames}
    BY <1>3, PowerLossFacts
  <2>2. CASE fs'[o] \in Left(o)
    BY <1>2, <2>1, <2>2
  <2>3. CASE fs'[o] = NoNames
    BY <1>n, <2>1, <2>3, NoNamesFacts DEF Has
  <2> QED BY <2>1, <2>2, <2>3
<1>4. CASE ~PowerLoss
  <2>1. CASE Kept(o)
    BY <1>2, <2>1 DEF Kept
  <2>2. CASE Alone(o) /\ Turned(o)
    <3>1. \A f \in Left(o)' : f \in Left(o) \/ f = fs'[o]
      BY <2>2 DEF Alone
    <3>2. \A n : Has(o, n)' => Has(o, n) \/ fs'[o][n] # "none"
      BY <3>1 DEF Has
    <3>3. /\ fs'[o]["new"] # "none" => fs[o]["new"] # "none" \/ TurnStage(o) \/ TurnDisplace(o)
          /\ fs'[o]["delc"] # "none" => fs[o]["delc"] # "none" \/ TurnNew(o) \/ TurnLeaf(o)
          /\ fs'[o]["delb"] # "none" => fs[o]["delb"] # "none" \/ TurnShelve(o)
      <4>1. CASE TurnStage(o) \/ TurnAside(o) \/ TurnPlace(o) \/ TurnDisplace(o)
        BY <4>1 DEF TurnStage, TurnAside, TurnPlace, TurnDisplace, Becomes
      <4>2. CASE TurnRestore(o) \/ TurnDelete(o) \/ TurnPutBack(o) \/ TurnForget(o)
        BY <4>2 DEF TurnRestore, TurnDelete, TurnPutBack, TurnForget, Becomes
      <4>3. CASE TurnShelve(o) \/ TurnNew(o) \/ TurnLeaf(o) \/ TurnEdit(o)
        BY <4>3 DEF TurnShelve, TurnNew, TurnLeaf, TurnEdit, Becomes
      <4> QED BY <2>2, <4>1, <4>2, <4>3 DEF Turned
    <3>4. \A n : fs[o][n] # "none" => Has(o, n)
      BY <1>1 DEF Has
    <3> QED BY <1>4, <3>2, <3>3, <3>4
  <2> QED BY <1>4, <2>1, <2>2, EachTarget
<1> QED BY <1>3, <1>4

\* A target that is left alone, or that somebody else changes, gets no private
\* name.
LEMMA NamesKept ==
  ASSUME Base, Accepted, [Next]_vars, NEW o \in Ops, PowerLoss \/ Kept(o) \/ TurnEdit(o)
  PROVE  \A n \in {"new", "delc", "delb"} : Has(o, n)' => Has(o, n)
<1>1. fs[o] \in Left(o)
  BY Turning
<1>2. CASE PowerLoss
  BY <1>2, NamesTurn
<1>3. CASE Kept(o)
  BY <1>3 DEF Kept, Has
<1>4. CASE TurnEdit(o) /\ ~PowerLoss
  <2>1. cuts' = cuts /\ cuts = 0
    BY <1>4, EachTarget DEF TurnEdit
  <2>2. Left(o)' = {fs'[o]}
    BY <2>1 DEF Left
  <2>3. \A n \in {"new", "delc", "delb"} : fs'[o][n] = fs[o][n]
    BY <1>4 DEF TurnEdit, Becomes
  <2> QED BY <1>1, <2>2, <2>3 DEF Has
<1> QED BY <1>2, <1>3, <1>4

\* Every step keeps Spared.
LEMMA SparedStep ==
  ASSUME Base, Spared, [Next]_vars
  PROVE  Spared'
<1>1. Of(Canonical)' = Of(Canonical)
  BY PlanNext
<1>2. ioErrs = 0 => ioErrs' = 0
  BY Spending DEF Spent
<1> QED BY <1>1, <1>2 DEF Spared

\* Every step keeps Fitting.
LEMMA FittingStep ==
  ASSUME Base, Accepted, Covering, Fitting, [Next]_vars
  PROVE  Fitting'
<1>0. plan' = plan /\ Ops' = Ops /\ PlanOK
  BY PlanNext DEF Base
<1> SUFFICES ASSUME NEW o \in Ops
             PROVE  /\ Has(o, "new")' \/ Has(o, "delc")' => plan[o].kind \in Placing
                    /\ Has(o, "delb")' => plan[o].kind \in Placing \cup {"remove"}
  BY <1>0 DEF Fitting
<1>1. fs[o] \in Left(o)
  BY Turning
<1>2. TurnStage(o) \/ TurnDisplace(o) => plan[o].kind \in Placing
  BY DEF TurnStage, TurnDisplace
<1>3. TurnNew(o) \/ TurnLeaf(o) => plan[o].kind \in Placing
  <2>1. TurnNew(o) \/ TurnLeaf(o) => mem[o].created /\ pc \in {"rollback", "back"}
    BY DEF TurnNew, TurnLeaf
  <2>2. pc \in {"rollback", "back"} => mem # NoJournal
    BY DEF Base, Controlled, NoMem
  <2> QED BY <2>1, <2>2 DEF Accepted, LegalAll, LegalRecord
<1>4. TurnShelve(o) => plan[o].kind \in Placing \cup {"remove"}
  <2>1. TurnShelve(o) => pc \in {"finish", "forward"} /\ fs[o]["bak"] # "none"
    BY DEF TurnShelve
  <2>2. pc \in {"finish", "forward"} => jrn # NoJournal /\ jrn \in jdur
    BY DEF Base, Controlled, StoreType
  <2> QED BY <1>1, <2>1, <2>2 DEF Covering, CoveredBy, Accepted, LegalAll, LegalRecord
<1> QED BY <1>2, <1>3, <1>4, NamesTurn DEF Fitting

\* The next catalog is about to be selected only after verify_applied.
LEMMA DeployedFrom ==
  ASSUME Base, [Next]_vars, ~Deployed, Deployed'
  PROVE  VerifyApplied /\ pc' = "publish"
<1>1. ~(\E c \in LeftCat' : c.cur = "next")
  <2>1. CASE cuts' = cuts /\ UNCHANGED catalog
    BY <2>1 DEF LeftCat, catalog, Deployed
  <2>2. CASE LeftCat' \subseteq LeftCat
    BY <2>2 DEF Deployed
  <2>3. CASE /\ LeftCat' \subseteq LeftCat \cup {cat'}
             /\ \/ pc \in {"publish", "clean"} /\ cat'.cur = cat.cur
                \/ pc \in {"exchange", "unstage"}
    <3>1. cat \in LeftCat /\ pc # "exchange" /\ (pc = "unstage" => cat.cur = "next")
      BY PrevNow DEF Deployed
    <3> QED BY <2>3, <3>1 DEF Deployed
  <2> QED BY <2>1, <2>2, <2>3, CatalogKept
<1> QED BY <1>1, Flow DEF Deployed

\* Without a journal at first, there is none that may come back.
LEMMA BeginBare ==
  ASSUME Base, Emptiness, Begin
  PROVE  pc = "down" /\ \A o \in Ops : Bare(o)
<1>1. jrn = NoJournal /\ jrn \in jdur /\ pc = "down"
  BY DEF Begin, Base, StoreType
<1> QED BY <1>1 DEF Emptiness, Journaled

\* Every step keeps Shelving.
LEMMA ShelvingStep ==
  ASSUME Base, Accepted, Shelving, Emptiness, [Next]_vars
  PROVE  Shelving'
<1>0. Ops' = Ops
  BY PlanNext
<1>1. ASSUME SomePrev', NEW o \in Ops, Has(o, "delb")' PROVE FALSE
  <2>1. SomePrev
    BY <1>1, PrevKept
  <2>2. ~TurnShelve(o)
    BY <2>1, PrevNow DEF TurnShelve
  <2> QED BY <1>1, <2>1, <2>2, NamesTurn DEF Shelving
<1>2. ASSUME pc' \in Mutating \/ Deployed', NEW o \in Ops, Has(o, "delc")' PROVE FALSE
  <2>1. CASE pc \in Mutating
    <3>1. ~TurnNew(o) /\ ~TurnLeaf(o)
      BY <2>1 DEF TurnNew, TurnLeaf, Mutating
    <3> QED BY <1>2, <2>1, <3>1, NamesTurn DEF Shelving
  <2>2. CASE Deployed
    <3>1. pc \notin {"rollback", "back"}
      BY <2>2, PrevNow DEF Deployed
    <3>2. ~TurnNew(o) /\ ~TurnLeaf(o)
      BY <3>1 DEF TurnNew, TurnLeaf
    <3> QED BY <1>2, <2>2, <3>2, NamesTurn DEF Shelving
  <2>3. CASE Begin
    <3>1. pc = "down" /\ ~Has(o, "delc")
      BY <2>3, BeginBare DEF Bare, Cleared
    <3>2. ~TurnNew(o) /\ ~TurnLeaf(o)
      BY <3>1 DEF TurnNew, TurnLeaf
    <3> QED BY <1>2, <3>1, <3>2, NamesTurn
  <2>4. CASE VerifyApplied
    BY <2>1, <2>4 DEF VerifyApplied, Mutating
  <2> QED BY <1>2, <2>1, <2>2, <2>3, <2>4, Flow, DeployedFrom
<1> QED BY <1>0, <1>1, <1>2 DEF Shelving

\* An identity in memory stays there as long as the process runs.
LEMMA CreatedStays ==
  ASSUME Base, Accepted, [Next]_vars, pc \in Mutating, pc' \in Mutating \cup {"rollback"},
         NEW o \in Ops, mem[o].created
  PROVE  mem'[o].created
<1>1. jrn = mem /\ mem \in Journals /\ pc # "down" /\ ~RemoveJournal
  BY MutatingFacts DEF Mutating, RemoveJournal
<1>2. mem' # NoMem
  <2>1. pc' \notin {"down", "dark"}
    BY DEF Mutating
  <2>2. pc' \notin {"down", "dark"} => mem' # NoMem
    BY BaseStep DEF Base, Controlled
  <2> QED BY <2>1, <2>2
<1>3. CASE mem' \in {mem, NoMem, jrn}
  BY <1>1, <1>2, <1>3
<1>4. ASSUME NEW m, Extends(m), mem' = m PROVE mem'[o].created
  <2>1. ASSUME NEW S, m = Created(mem, S) PROVE mem'[o].created
    BY <1>1, <1>4, <2>1, JournalFacts
  <2>2. ASSUME NEW S, NEW b \in {"intent", "identified"}, m = Backup(mem, S, b)
        PROVE  mem'[o].created
    BY <1>1, <1>4, <2>2, JournalFacts
  <2> QED BY <1>4, <2>1, <2>2 DEF Extends
<1>5. ~Begin
  BY <1>1 DEF Begin
<1> QED BY <1>1, <1>2, <1>3, <1>4, <1>5, JournalSteps

\* After a staging entry is named, its identity is recorded next.
LEMMA StagedSteps ==
  ASSUME Base, Spared, [Next]_vars, pc = "serial", at = "staged",
         pc' \in Mutating \cup {"rollback"}
  PROVE  mem'[idx].created \/ (pc' = "serial" /\ idx' = idx /\ at' = "staged")
<1>0. idx \in Of(Canonical) /\ mem \in Journals
  BY MutatingFacts DEF Base, Scheduled, SerialAt, Mutating
<1>1. idx \in Ops /\ plan[idx].kind \in Canonical /\ idx # N + 1
  BY <1>0, PlanFacts DEF Of, Base
<1>2. ~FailsIo
  <2>1. ioErrs = 0
    BY <1>0 DEF Spared
  <2>2. ~(ioErrs > 0)
    BY <2>1
  <2> QED BY <2>2 DEF FailsIo
<1>3. ~Die /\ ~Killed /\ ~PowerLoss
  BY DieFacts DEF Dead, Killed, PowerLoss, Gone, Mutating
<1>4. ASSUME NEW o \in Ops, SerialStep(o) PROVE mem'[idx].created
  <2>1. ~AssertAbsent(o)
    BY <1>1 DEF AssertAbsent, Canonical
  <2>2. CASE SerialRecord(o)
    <3>1. mem' = Created(mem, {o}) /\ idx = o
      BY <1>2, <1>3, <2>2 DEF SerialRecord, SaveJournal
    <3> QED BY <1>0, <3>1, JournalFacts
  <2> QED BY <1>4, <2>1, <2>2 DEF SerialStep, SerialStage, SerialIntent, CheckSource, MoveAside,
             SerialIdentify, Place, Placed, Unplace, Link
<1>5. ASSUME NEW o \in Ops, FinishStep(o) \/ UndoStep(o) PROVE FALSE
  BY <1>5 DEF FinishStep, FinishRefuses, QuarantineBackup, DeleteBackup, FinishNext, UndoStep,
     UndoSkip, UndoRefuses, UndoDone, QuarantineNew, CheckCreated, QuarantineLeaf, DeleteCreated,
     RestoreBackup, Undoing
<1>6. ~(StageFiles \/ PinSources \/ IdentifyBackups \/ VerifyApplied \/ StageCatalog
           \/ ExchangeCatalog \/ UnstageCatalog \/ FinishDone \/ RollbackDone
           \/ RecoverRolledBack \/ CleanCatalog \/ RemoveJournal \/ Begin \/ Recover \/ IoError
           \/ Kill)
  BY <1>1, <1>2, <1>3 DEF StageFiles, PinSources, IdentifyBackups, VerifyApplied, StageCatalog,
     ExchangeCatalog, UnstageCatalog, FinishDone, RollbackDone, RecoverRolledBack, CleanCatalog,
     RemoveJournal, Begin, Recover, IoError, Kill
<1>7. ASSUME UNCHANGED vars \/ \E o \in Ops : Edit(o)
      PROVE  pc' = "serial" /\ idx' = idx /\ at' = "staged"
  BY <1>7 DEF vars, local, Edit
<1> QED BY <1>3, <1>4, <1>5, <1>6, <1>7 DEF Next, Work, Environment

\* Every step keeps Identified.
LEMMA IdentifiedStep ==
  ASSUME Base, Accepted, Spared, Shelving, Identified, Emptiness, [Next]_vars
  PROVE  Identified'
<1>0. plan' = plan /\ Ops' = Ops /\ PlanOK
  BY PlanNext DEF Base
<1>l. ASSUME pc' \in Mutating \cup {"rollback"} PROVE ~PowerLoss
  BY <1>l DEF PowerLoss, Gone, Mutating
<1>1. ASSUME NEW o \in Ops, Has(o, "new")', pc \in Mutating, pc' \in Mutating \cup {"rollback"}
      PROVE  mem'[o].created \/ (pc' = "serial" /\ idx' = o /\ at' = "staged")
  <2>1. CASE mem[o].created
    BY <1>1, <2>1, CreatedStays
  <2>2. CASE JustNamed(o)
    BY <1>1, <2>2, StagedSteps DEF JustNamed
  <2>3. CASE TurnStage(o)
    <3>1. plan[o].kind = "file" => mem[o].created
      BY <2>3 DEF TurnStage
    <3>2. plan[o].kind # "file" => pc' = "serial" /\ idx' = o /\ at' = "staged"
      BY <2>3 DEF TurnStage, Placing
    <3> QED BY <2>1, <3>1, <3>2
  <2>4. CASE TurnDisplace(o)
    BY <2>1, <2>4 DEF TurnDisplace
  <2> QED BY <1>1, <2>1, <2>2, <2>3, <2>4, NamesTurn DEF Identified
<1>2. ASSUME pc' \in Mutating, NEW o \in Ops, Has(o, "new")' PROVE mem'[o].created \/ JustNamed(o)'
  <2>1. CASE Begin
    <3>1. pc = "down" /\ ~Has(o, "new")
      BY <2>1, BeginBare DEF Bare, Cleared
    <3>2. ~TurnStage(o) /\ ~TurnDisplace(o)
      BY <3>1 DEF TurnStage, TurnDisplace
    <3> QED BY <1>2, <3>1, <3>2, NamesTurn
  <2>2. CASE pc \in Mutating
    BY <1>1, <1>2, <2>2 DEF JustNamed
  <2> QED BY <1>2, <2>1, <2>2, Flow
<1>3. ASSUME pc' = "rollback", NEW o \in Ops, Has(o, "new")' \/ Has(o, "delc")'
      PROVE  mem'[o].created
  <2>1. CASE pc = "rollback"
    <3>1. mem' = mem
      BY <1>3, <2>1, UndoSteps
    <3>2. ~TurnStage(o) /\ ~TurnDisplace(o)
      BY <2>1 DEF TurnStage, TurnDisplace
    <3>3. TurnNew(o) \/ TurnLeaf(o) => mem[o].created
      BY DEF TurnNew, TurnLeaf
    <3> QED BY <1>3, <2>1, <3>1, <3>2, <3>3, NamesTurn DEF Identified
  <2>2. CASE pc \in Mutating
    <3>1. ~Has(o, "delc") /\ ~TurnNew(o) /\ ~TurnLeaf(o)
      BY <2>2 DEF Shelving, TurnNew, TurnLeaf, Mutating
    <3>2. Has(o, "new")'
      BY <1>3, <3>1, NamesTurn
    <3> QED BY <1>1, <1>3, <2>2, <3>2
  <2> QED BY <1>3, <2>1, <2>2, Flow
<1> QED BY <1>0, <1>2, <1>3 DEF Identified

\* The targets that a rollback has cleared stay so.
LEMMA DiscardedBehind ==
  ASSUME Base, Accepted, Compared, Housed, [Next]_vars, pc \in {"rollback", "back"}, pc' = pc,
         NEW o \in Ops, o > idx, Cleared(o) \/ Pending(o)
  PROVE  Cleared(o)' \/ (Nested(o) /\ Dir(o) <= idx /\ fs'[Dir(o)]["delc"] = "next")
<1>0. plan' = plan /\ PlanOK /\ TargetType /\ ~PowerLoss /\ pc # "dark" /\ pc' # "dark"
  BY PlanNext DEF Base, PowerLoss, Gone
<1>i. o # idx
  <2>1. o \in Nat
    BY <1>0, PlanFacts
  <2> QED BY <2>1
<1>1. CASE Cleared(o)
  <2>1. ~TurnStage(o) /\ ~TurnDisplace(o) /\ ~TurnNew(o) /\ ~TurnLeaf(o)
    BY <1>i DEF TurnStage, TurnDisplace, TurnNew, TurnLeaf
  <2> QED BY <1>1, <2>1, NamesTurn DEF Cleared
<1>2. CASE Pending(o)
  <2> DEFINE d == Dir(o)
  <2>0. Nested(o) /\ d <= idx /\ fs[d]["delc"] = "next" /\ d \in Ops /\ d # o /\ o \in Below(d)
    BY <1>0, <1>2, NestedFacts DEF Pending, Below, Dir
  <2>1. CASE Kept(d)
    BY <2>0, <2>1 DEF Kept
  <2>2. CASE ~Kept(d)
    <3>1. Turned(d) /\ Kept(o)
      BY <1>0, <2>0, <2>2, EachTarget
    <3>2. CASE TurnDelete(d)
      <4>1. fs[o] = NoNames
        BY <2>0, <3>2 DEF TurnDelete, Emptied
      <4>2. Left(o) = {NoNames}
        BY <1>0, <2>0, <4>1 DEF Housed
      <4>3. \A f \in Left(o)' : f["new"] = "none" /\ f["delc"] = "none"
        BY <3>1, <4>2, NoNamesFacts DEF Kept, Names
      <4> QED BY <4>3 DEF Cleared, Has
    <3>3. CASE TurnRestore(d) \/ TurnEdit(d)
      BY <2>0, <3>3 DEF TurnRestore, TurnEdit, Becomes
    <3>4. ~TurnPutBack(d) /\ ~TurnNew(d) /\ ~TurnLeaf(d)
      BY <2>0 DEF TurnPutBack, TurnNew, TurnLeaf, Compared
    <3> QED BY <1>0, <2>0, <3>1, <3>2, <3>3, <3>4, TurnPlaces DEF Mutating
  <2> QED BY <2>1, <2>2
<1> QED BY <1>1, <1>2

\* The operation that a rollback is done with is cleared.
LEMMA DiscardedHere ==
  ASSUME Base, Accepted, Compared, Housed, Fitting, Identified, [Next]_vars,
         pc \in {"rollback", "back"}, pc' = pc, pc = "back" \/ err' = "error", NEW o \in Ops,
         \/ UndoSkip(o) \/ UndoDone(o) \/ RestoreBackup(o)
         \/ DeleteCreated(o) /\ fs[o]["delc"] = "next" /\ at = "leaf" /\ idx = o
  PROVE  Cleared(o)' \/ (Nested(o) /\ Dir(o) <= o - 1 /\ fs'[Dir(o)]["delc"] = "next")
<1>0. plan' = plan /\ Ops' = Ops /\ PlanOK /\ TargetType /\ ~PowerLoss /\ pc # "dark"
         /\ pc' # "dark" /\ pc \notin {"down", "dark"}
  BY PlanNext DEF Base, PowerLoss, Gone
<1>1. fs[o] \in Left(o) /\ plan[o].seen \in {"none", "prior"} /\ cuts' = cuts
  BY <1>0, LeftNow, PlanFacts, EachTarget
<1>n. Names = {"leaf", "new", "bak", "delc", "delb"} /\ fs[o] \in Listing
  BY <1>0 DEF Names, TargetType
<1>2. ASSUME Cleared(o), Left(o)' \subseteq Left(o) PROVE Cleared(o)'
  BY <1>2 DEF Cleared, Has
<1>p. plan[o].kind \notin Placing => Cleared(o)
  BY DEF Fitting, Cleared
<1>3. CASE UndoSkip(o)
  <2>1. UNCHANGED target /\ took' = took /\ pc = "rollback" /\ mem[o] = Blank
    BY <1>3 DEF UndoSkip, Goto, budget, Untouched
  <2>2. Left(o)' = Left(o)
    BY <1>0, <1>1, <2>1, LeftSame
  <2>3. Cleared(o)
    BY <2>1, BlankFacts DEF Identified, Cleared
  <2> QED BY <1>2, <2>2, <2>3
<1>4. CASE UndoDone(o)
  <2>1. took' = took /\ Undo(o) = "done" /\ fs' = fs
    BY <1>4 DEF UndoDone, Goto, budget, Undoing, SyncTargets
  <2>2. /\ Left(o)' \subseteq Left(o)
        /\ plan[o].kind \in Placing /\ Reached(o) => Left(o)' = {fs[o]}
    <3>1. PICK S : SyncTargets(S) /\ (plan[o].kind \in Placing /\ Reached(o) => o \in S)
      <4>1. plan[o].kind \in Placing => plan[o].kind # "remove"
        BY DEF Placing, Canonical
      <4> QED BY <1>4, <4>1 DEF UndoDone
    <3>2. Still /\ \A q \in S \cap Ops : Left(q)' = {fs[q]}
      BY <1>0, <1>1, <2>1, <3>1, LeftSync
    <3> QED BY <3>1, <3>2 DEF Still
  <2>3. plan[o].kind \in Placing => View(o)["delc"] = "none" /\ View(o)["new"] = "none"
    BY <1>1, <2>1, UndoDoneFacts
  <2>4. CASE plan[o].kind \notin Placing
    BY <1>2, <1>p, <2>2, <2>4
  <2>5. CASE plan[o].kind \in Placing /\ Reached(o)
    <3>1. fs[o]["new"] = "none" /\ fs[o]["delc"] = "none"
      BY <2>3, <2>5, ViewFacts
    <3> QED BY <2>2, <2>5, <3>1 DEF Cleared, Has
  <2>6. CASE plan[o].kind \in Placing /\ ~Reached(o)
    <3>1. Nested(o)
      BY <1>0, <2>6, NestedFacts DEF Placing, Canonical
    <3>2. Dir(o) \in Ops /\ Dir(o) < o /\ fs[Dir(o)]["leaf"] # "next"
      BY <1>0, <2>6, <3>1, NestedFacts DEF Reached, Nested, Dir
    <3>3. CASE fs[o] = NoNames
      <4>1. Left(o) = {NoNames}
        BY <1>0, <3>1, <3>3 DEF Housed
      <4>2. NoNames["new"] = "none" /\ NoNames["delc"] = "none"
        BY <1>n, NoNamesFacts
      <4>3. Cleared(o)
        BY <4>1, <4>2 DEF Cleared, Has
      <4> QED BY <1>2, <2>2, <4>3
    <3>4. CASE fs[o] # NoNames
      <4>1. fs[Dir(o)]["delc"] = "next"
        BY <3>1, <3>2, <3>4 DEF Housed
      <4>2. Dir(o) <= o - 1
        <5>1. o \in Nat /\ Dir(o) \in Nat
          BY <1>0, <3>2, PlanFacts
        <5> QED BY <3>2, <5>1
      <4> QED BY <2>1, <3>1, <4>1, <4>2
    <3> QED BY <3>3, <3>4
  <2> QED BY <2>4, <2>5, <2>6
<1>5. CASE RestoreBackup(o)
  <2>1. Undo(o) = "restore" /\ ~Die
    BY <1>0, <1>5, DieFacts DEF RestoreBackup, Undoing, Dead
  <2>2. fs[o]["new"] = "none" /\ fs[o]["delc"] = "none"
    <3>1. CASE plan[o].kind \in Placing
      BY <1>1, <2>1, <3>1, UndoFacts
    <3>2. CASE plan[o].kind \notin Placing
      BY <1>1, <1>p, <3>2 DEF Cleared, Has
    <3> QED BY <3>1, <3>2
  <2>3. PutSynced(o, Move(fs[o], "bak", "leaf"))
    BY <1>5, <2>1 DEF RestoreBackup, Settle
  <2>4. /\ Move(fs[o], "bak", "leaf") \in Listing
        /\ Move(fs[o], "bak", "leaf")["new"] = "none" /\ Move(fs[o], "bak", "leaf")["delc"] = "none"
    BY <1>n, <2>2, MoveFacts
  <2>5. Left(o)' = {Move(fs[o], "bak", "leaf")}
    BY <1>0, <1>1, <2>3, <2>4, LeftPutSynced DEF Changed
  <2> QED BY <2>4, <2>5 DEF Cleared, Has
<1>6. CASE DeleteCreated(o) /\ fs[o]["delc"] = "next" /\ at = "leaf" /\ idx = o
  <2>1. PutSynced(o, Unlink(fs[o], "delc"))
    <3>1. ~Die /\ ~UndoFails(o)
      BY <1>0, DieFacts DEF Dead, UndoFails, Exit, Gone
    <3> QED BY <1>6, <3>1 DEF DeleteCreated, Settle
  <2>2. /\ Unlink(fs[o], "delc") \in Listing /\ Unlink(fs[o], "delc")["delc"] = "none"
        /\ Unlink(fs[o], "delc")["new"] = fs[o]["new"]
    BY <1>n, UnlinkFacts
  <2>3. fs[o]["new"] = "none"
    BY <1>6 DEF Compared
  <2>4. Left(o)' = {Unlink(fs[o], "delc")}
    BY <1>0, <1>1, <2>1, <2>2, LeftPutSynced DEF Changed
  <2> QED BY <2>2, <2>3, <2>4 DEF Cleared, Has
<1> QED BY <1>3, <1>4, <1>5, <1>6

\* Every step keeps Discarded.
LEMMA DiscardedStep ==
  ASSUME Base, Accepted, Compared, Housed, Undone, Fitting, Identified, Discarded, [Next]_vars
  PROVE  Discarded'
<1>0. plan' = plan /\ Ops' = Ops /\ N' = N /\ PlanOK /\ N \in Nat /\ Ops = 1 .. N
  BY PlanNext, PlanFacts DEF Base
<1> SUFFICES ASSUME pc' = "back" \/ (pc' = "rollback" /\ err' = "error"), NEW o \in Ops, o > idx'
             PROVE  Cleared(o)' \/ Pending(o)'
  BY <1>0 DEF Discarded
<1>1. CASE pc' # pc
  <2>1. idx' = N
    BY <1>1, UndoBegins
  <2> QED BY <1>0, <2>1
<1>2. CASE pc' = pc
  <2>0. pc \in {"rollback", "back"} /\ (pc = "back" \/ err' = "error")
    BY <1>2
  <2>1. \/ idx' = idx /\ err' = err
        \/ /\ idx \in Ops /\ idx' = idx - 1 /\ err' = err
           /\ \/ UndoSkip(idx) \/ UndoDone(idx) \/ RestoreBackup(idx)
              \/ DeleteCreated(idx) /\ fs[idx]["delc"] = "next" /\ at = "leaf"
                    /\ plan[idx].seen = "none"
    BY <1>2, <2>0, UndoSteps
  <2>2. Nested(o)' = Nested(o) /\ Dir(o)' = Dir(o)
    BY <1>0 DEF Nested, Dir
  <2>3. o > idx => Cleared(o) \/ Pending(o)
    BY <2>0, <2>1 DEF Discarded
  <2>4. o > idx => Cleared(o)' \/ (Nested(o) /\ Dir(o) <= idx /\ fs'[Dir(o)]["delc"] = "next")
    BY <1>2, <2>0, <2>3, DiscardedBehind
  <2>5. CASE idx' = idx
    BY <1>0, <2>4, <2>5, <2>2 DEF Pending
  <2>6. CASE /\ idx \in Ops /\ idx' = idx - 1
             /\ \/ UndoSkip(idx) \/ UndoDone(idx) \/ RestoreBackup(idx)
                \/ DeleteCreated(idx) /\ fs[idx]["delc"] = "next" /\ at = "leaf"
                      /\ plan[idx].seen = "none"
    <3>1. CASE o = idx
      <4>1. Cleared(o)' \/ (Nested(o) /\ Dir(o) <= o - 1 /\ fs'[Dir(o)]["delc"] = "next")
        BY <1>2, <2>0, <2>6, <3>1, DiscardedHere
      <4> QED BY <2>2, <2>6, <3>1, <4>1 DEF Pending
    <3>2. CASE o # idx
      <4>1. o > idx /\ idx \in Nat
        BY <1>0, <2>6, <3>2
      <4>2. Nested(o) => Dir(o) \in Nat /\ plan[Dir(o)].kind \in Placing
               /\ plan[Dir(o)].seen = "none" /\ Reached(Dir(o))
        BY <1>0, NestedFacts DEF Placing, Canonical
      <4>3. Nested(o) /\ Dir(o) = idx => fs'[Dir(o)]["delc"] # "next"
        BY <1>2, <2>0, <2>6, <4>2, DirectoryUndone
      <4>4. Nested(o) /\ Dir(o) <= idx /\ Dir(o) # idx => Dir(o) <= idx'
        BY <2>6, <4>1, <4>2
      <4> QED BY <2>2, <2>4, <4>1, <4>3, <4>4 DEF Pending
    <3> QED BY <3>1, <3>2
  <2> QED BY <2>1, <2>5, <2>6
<1> QED BY <1>1, <1>2
-----------------------------------------------------------------------------
\* Every step keeps Dropped.
LEMMA DroppedStep ==
  ASSUME Base, Accepted, Fitting, Dropped, [Next]_vars
  PROVE  Dropped'
<1>0. plan' = plan /\ Ops' = Ops /\ N' = N /\ PlanOK /\ TargetType /\ N \in Nat /\ Ops = 1 .. N
  BY PlanNext, PlanFacts DEF Base
<1>1. \A o \in Ops : fs[o] \in Left(o) /\ o \in Nat /\ o \in 0 .. N /\ fs[o] \in Listing
  BY <1>0, LeftNow
<1>n. Names = {"leaf", "new", "bak", "delc", "delb"}
  BY DEF Names
<1>a. ASSUME NEW S \in SUBSET Ops, NEW i \in 0 .. N, NEW o \in S, o < After(S, i) PROVE o <= i
  <2>1. After(S, i) \in Nat /\ \A q \in S : q > i => After(S, i) <= q
    BY <1>0, AfterFacts
  <2>2. o \in Nat /\ i \in Nat /\ (o > i => After(S, i) <= o)
    BY <1>0, <1>1, <2>1
  <2> QED BY <1>a, <2>1, <2>2
<1>s. ToFinish \in SUBSET Ops /\ Of(Kinds \ {"assert-exact"}) \in SUBSET Ops /\ Ops \in SUBSET Ops
  BY OpSets
<1> SUFFICES ASSUME pc' \in {"finish", "forward"} PROVE Dropped'
  BY DEF Dropped
<1>2. CASE pc' # pc
  <2>1. ASSUME NEW S \in SUBSET Ops, idx' = After(S, 0), ToFinish' = S, at' = "" PROVE Dropped'
    <3>1. \A o \in S : o < After(S, 0) => o <= 0
      BY <1>0, <1>a
    <3>2. \A o \in S : ~(o <= 0)
      BY <1>0
    <3> QED BY <2>1, <3>1, <3>2 DEF Dropped
  <2>2. CASE UnstageCatalog
    <3>1. pc' = "finish" /\ idx' = After(Of(Kinds \ {"assert-exact"}), 0) /\ at' = ""
      <4>1. ~Die
        BY DieFacts DEF Dead
      <4> QED BY <2>2, <4>1 DEF UnstageCatalog, SaveCatalog, Goto
    <3>2. ToFinish' = Of(Kinds \ {"assert-exact"})
      BY <1>0, <3>1, PlanNext DEF ToFinish
    <3> QED BY <1>s, <2>1, <3>1, <3>2
  <2>3. CASE Recover
    <3>1. pc' = "forward" /\ idx' = After(Ops, 0) /\ at' = ""
      BY <2>3 DEF Recover, Goto
    <3>2. ToFinish' = Ops
      BY <1>0, <3>1 DEF ToFinish
    <3> QED BY <1>s, <2>1, <3>1, <3>2
  <2> QED BY <1>2, <2>2, <2>3, Flow
<1>3. CASE pc' = pc
  <2>0. pc \in {"finish", "forward"} /\ ~PowerLoss /\ cuts' = cuts
    BY <1>3, Spending DEF PowerLoss, Gone, Spent
  <2>t. ToFinish' = ToFinish
    BY <1>0, <1>3, PlanNext DEF ToFinish
  <2>1. CASE idx' = idx /\ at' = at /\ \A o \in Ops : Kept(o) \/ TurnEdit(o)
    <3>1. at = "delete" => idx \in Ops
      BY <1>s, <2>0 DEF Base, Scheduled, FinishAt
    <3>2. \A o \in Ops : (Has(o, "new")' => Has(o, "new")) /\ (Has(o, "delb")' => Has(o, "delb"))
      BY <2>1, NamesKept
    <3> QED BY <1>s, <2>0, <2>1, <2>t, <3>1, <3>2 DEF Dropped
  <2>k. ASSUME NEW i \in Ops, Finishable(i) PROVE fs[i]["new"] = "none"
    <3>1. CASE plan[i].kind \in Placing
      <4>1. View(i)["leaf"] = "next" /\ View(i)["new"] = "none"
        BY <2>k, <3>1 DEF Finishable, Goal
      <4> QED BY <4>1, ViewFacts
    <3>2. CASE plan[i].kind \notin Placing
      BY <1>1, <3>2 DEF Fitting, Has
    <3> QED BY <3>1, <3>2
  <2>w. ASSUME NEW i \in Ops, idx = i, NEW f, Left(i)' = {f}, f["new"] = "none",
               \A o \in Ops \ {i} : Left(o)' \subseteq Left(o),
               \/ idx' = i /\ at' = "delete"
               \/ idx' = After(ToFinish, i) /\ at' = "" /\ f["delb"] = "none"
        PROVE  Dropped'
    <3>1. /\ ~Has(i, "new")' /\ (at' = "" => ~Has(i, "delb")')
          /\ \A o \in Ops \ {i} : \A n : Has(o, n)' => Has(o, n)
      BY <2>w DEF Has
    <3>2. ASSUME NEW o \in ToFinish, o < idx' PROVE o < i \/ (o = i /\ at' = "")
      <4>1. o \in Nat /\ i \in Nat /\ i \in 0 .. N
        BY <1>1, <1>s
      <4>2. CASE idx' = After(ToFinish, i) /\ at' = ""
        <5>1. o <= i
          BY <1>a, <1>s, <3>2, <4>1, <4>2
        <5>2. o < i \/ o = i
          BY <4>1, <5>1
        <5> QED BY <4>2, <5>2
      <4>3. CASE idx' = i
        BY <3>2, <4>3
      <4> QED BY <2>w, <4>2, <4>3
    <3>3. \A o \in ToFinish : o < i => o \in Ops \ {i} /\ ~Has(o, "new") /\ ~Has(o, "delb")
      <4>1. \A o \in Ops : o < i => o # i
        BY <1>1
      <4> QED BY <1>s, <2>0, <2>w, <4>1 DEF Dropped
    <3>4. \A o \in ToFinish : o < idx' => ~Has(o, "new")' /\ ~Has(o, "delb")'
      BY <3>1, <3>2, <3>3
    <3>5. at' = "delete" => ~Has(idx, "new")'
      BY <2>w, <3>1
    <3>6. at' = "delete" => idx' = idx
      BY <2>w
    <3> QED BY <2>t, <3>4, <3>5, <3>6 DEF Dropped, Has
  <2>o. ASSUME NEW i \in Ops, NEW f \in Listing, PutSynced(i, f)
        PROVE  Left(i)' = {f} /\ \A o \in Ops \ {i} : Left(o)' \subseteq Left(o)
    BY <1>0, <2>0, <2>o, LeftPutSynced DEF Changed
  <2>2. ASSUME NEW i \in Ops, idx = i, PutSynced(i, Move(fs[i], "bak", "delb")),
               idx' = i, at' = "delete", Finishable(i)
        PROVE  Dropped'
    <3>1. Move(fs[i], "bak", "delb") \in Listing /\ Move(fs[i], "bak", "delb")["new"] = "none"
      BY <1>1, <1>n, <2>2, <2>k, MoveFacts
    <3> QED BY <2>2, <2>o, <2>w, <3>1
  <2>3. ASSUME NEW i \in Ops, idx = i, PutSynced(i, Unlink(fs[i], "delb")),
               idx' = After(ToFinish, i), at' = "", at = "delete" \/ Finishable(i)
        PROVE  Dropped'
    <3>1. at = "delete" => fs[i]["new"] = "none"
      BY <1>1, <2>0, <2>3 DEF Dropped, Has
    <3>2. fs[i]["new"] = "none" /\ fs[i] \in Listing
      BY <1>1, <2>3, <2>k, <3>1
    <3>3. /\ Unlink(fs[i], "delb") \in Listing /\ Unlink(fs[i], "delb")["delb"] = "none"
          /\ Unlink(fs[i], "delb")["new"] = "none"
      BY <1>n, <3>2, UnlinkFacts
    <3> QED BY <2>3, <2>o, <2>w, <3>3
  <2>4. ASSUME NEW i \in Ops, idx = i, FinishNext(i), SyncTargets({i}), took' = took,
               idx' = After(ToFinish, i), at' = "", Finishable(i)
        PROVE  Dropped'
    <3>1. Still /\ Left(i)' = {fs[i]}
      BY <1>0, <2>0, <2>4, LeftSync
    <3>2. fs[i]["delb"] = "none"
      BY <2>4 DEF FinishNext
    <3> QED BY <2>4, <2>k, <2>w, <3>1, <3>2 DEF Still
  <2> QED BY <1>3, <2>0, <2>1, <2>2, <2>3, <2>4, FinishSteps
<1> QED BY <1>2, <1>3

\* Every step keeps Emptiness: a rollback that failed somewhere and a refusal
\* leave the journal.
LEMMA EmptinessStep ==
  ASSUME Base, Accepted, Fitting, Shelving, Discarded, Dropped, Emptiness, [Next]_vars
  PROVE  Emptiness'
<1>0. plan' = plan /\ Ops' = Ops /\ PlanOK /\ TargetType /\ N \in Nat /\ Ops = 1 .. N
  BY PlanNext, PlanFacts DEF Base
<1> SUFFICES ASSUME pc' \in {"clean", "unjournal"} \/ ~Journaled', NEW o \in Ops PROVE Bare(o)'
  BY <1>0 DEF Emptiness
<1>1. ASSUME Bare(o), PowerLoss \/ Kept(o) \/ TurnEdit(o) PROVE Bare(o)'
  BY <1>1, NamesKept DEF Bare, Cleared
<1>2. CASE pc \in {"clean", "unjournal"} \/ ~Journaled
  <2>1. pc \in {"clean", "unjournal", "down", "dark"}
    <3>1. cuts \in Nat
      BY DEF Base, ControlType
    <3>2. pc \notin {"down", "dark"} => jrn # NoJournal /\ (cuts > 0 => NoJournal \notin jdur)
      BY DEF Base, Controlled
    <3> QED BY <1>2, <3>1, <3>2 DEF Journaled
  <2>2. Turned(o) => TurnEdit(o)
    BY <2>1, TurnPlaces DEF Mutating
  <2> QED BY <1>1, <1>2, <2>2, EachTarget DEF Emptiness
<1>3. CASE FinishDone
  <2>0. /\ pc \in {"finish", "forward"} /\ idx = N + 1 /\ UNCHANGED target
        /\ cuts' = cuts /\ took' = took
    BY <1>3 DEF FinishDone, Goto, budget
  <2>1. ~Has(o, "delc")
    BY <2>0, PrevNow DEF Shelving, Deployed
  <2>2. ~Has(o, "new") /\ ~Has(o, "delb")
    <3>1. CASE o \in ToFinish
      BY <1>0, <2>0, <3>1 DEF Dropped
    <3>2. CASE o \notin ToFinish
      <4>1. plan[o].kind = "assert-exact"
        <5>1. plan[o].kind \in Kinds
          BY <1>0, PlanFacts
        <5> QED BY <3>2, <5>1 DEF ToFinish, Of
      <4> QED BY <4>1 DEF Fitting, Placing, Canonical
    <3> QED BY <3>1, <3>2
  <2>3. Kept(o)
    BY <1>0, <2>0, LeftSame DEF Still, Kept
  <2> QED BY <1>1, <2>1, <2>2, <2>3 DEF Bare, Cleared
<1>4. CASE (RollbackDone \/ RecoverRolledBack) /\ pc' \in {"clean", "unjournal"}
  <2>0. pc = "back" \/ (pc = "rollback" /\ err = "error")
    BY <1>4 DEF RollbackDone, RecoverRolledBack, Exit, Gone
  <2>1. idx = 0 /\ UNCHANGED target /\ cuts' = cuts /\ took' = took
    BY <1>4 DEF RollbackDone, RecoverRolledBack, Goto, Exit, budget
  <2>2. o > idx
    BY <1>0, <2>1
  <2>3. ~Pending(o)
    <3>1. Nested(o) => ~(Dir(o) <= 0)
      BY <1>0 DEF Nested, Dir
    <3> QED BY <2>1, <3>1 DEF Pending
  <2>4. Cleared(o) /\ ~Has(o, "delb")
    BY <2>0, <2>2, <2>3, PrevNow DEF Discarded, Shelving
  <2>5. Kept(o)
    BY <1>0, <2>1, LeftSame DEF Still, Kept
  <2> QED BY <1>1, <2>4, <2>5 DEF Bare
<1>5. RemoveJournal => pc = "unjournal"
  BY DEF RemoveJournal
<1> QED BY <1>2, <1>3, <1>4, <1>5, Flow, JournalStays
-----------------------------------------------------------------------------
\* Either no call fails that commit_v1 handles, or the plan has no directory,
\* symlink or tree.  One that fails after mkdirat or symlinkat has named the
\* staging entry, and before its identity is in memory, leaves the entry where no
\* rollback looks for it (the limit the README describes).
CallsApart ==
  \A s \in Scenarios :
    s.ioErrs = 0 \/ \A o \in 1 .. Len(s.plan) : s.plan[o].kind \notin Canonical

\* Before anything is committed there are no private names.
LEMMA NamesInit ==
  ASSUME Init, CallsApart
  PROVE  Sweeping
<1>1. PICK s \in Scenarios : plan = s.plan /\ ioErrs = s.ioErrs
  BY DEF Init
<1>2. Spared
  BY <1>1 DEF CallsApart, Spared, Of, Ops, N
<1>3. \A o \in Ops : \A n \in Private : fs[o][n] = "none" /\ disk[o] = {fs[o]}
  BY DEF Init, Private
<1>4. {"new", "delc", "delb"} \subseteq Private
  BY DEF Private, Names
<1>5. \A o \in Ops : \A n \in Private : ~Has(o, n)
  BY <1>3 DEF Has, Left
<1>6. pc = "down"
  BY DEF Init
<1> QED BY <1>2, <1>4, <1>5, <1>6 DEF Sweeping, Fitting, Shelving, Identified, Discarded, Dropped,
           Emptiness, Bare, Cleared, Mutating

\* For every plan, however often power is lost or the process dies: a journal is
\* removed only when every staging name, backup and quarantine name of its
\* transaction is gone (remove_journal in commit_v1 and recover_v1).
THEOREM BehindSafe ==
  ASSUME FaultsApart, CallsApart
  PROVE  Spec => []NothingLeftBehind
<1>1. Init => IInv /\ Sweeping
  BY Initially, NamesInit
<1>2. IInv /\ Sweeping /\ [Next]_vars => (IInv /\ Sweeping)'
  <2> SUFFICES ASSUME IInv, Sweeping, [Next]_vars PROVE IInv' /\ Sweeping'
    OBVIOUS
  <2>1. /\ Base /\ Accepted /\ Covering /\ Compared /\ Housed /\ Undone
        /\ Spared /\ Fitting /\ Shelving /\ Identified /\ Discarded /\ Dropped /\ Emptiness
    BY DEF IInv, Sweeping
  <2>2. Spared' /\ Fitting' /\ Shelving' /\ Identified'
    BY <2>1, SparedStep, FittingStep, ShelvingStep, IdentifiedStep
  <2>3. Discarded' /\ Dropped' /\ Emptiness'
    BY <2>1, DiscardedStep, DroppedStep, EmptinessStep
  <2> QED BY <2>2, <2>3, Inductive DEF Sweeping
<1>3. IInv /\ Sweeping => NothingLeftBehind
  <2> SUFFICES ASSUME IInv, Sweeping, jrn = NoJournal, NEW o \in Ops, NEW n \in Private
               PROVE  fs[o][n] = "none"
    BY DEF NothingLeftBehind
  <2>1. Base /\ Covering /\ Emptiness
    BY DEF IInv, Sweeping
  <2>2. fs[o] \in Left(o) /\ jrn \in jdur /\ ~Journaled
    BY <2>1, LeftNow DEF Base, StoreType, Journaled
  <2>3. fs[o]["bak"] = "none"
    BY <2>1, <2>2 DEF Covering, CoveredBy
  <2>4. fs[o]["new"] = "none" /\ fs[o]["delc"] = "none" /\ fs[o]["delb"] = "none"
    BY <2>1, <2>2 DEF Emptiness, Bare, Cleared, Has
  <2>5. n \in {"new", "bak", "delc", "delb"}
    BY DEF Private, Names
  <2> QED BY <2>3, <2>4, <2>5
<1> QED BY <1>1, <1>2, <1>3, PTL DEF Spec
=============================================================================
