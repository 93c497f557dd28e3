------------------------- MODULE JournalFileProofs -------------------------
(***************************************************************************)
(* Proofs about JournalFile, for any plan, any identities and any number   *)
(* of faults: the type invariant, that load_journal accepts every state a  *)
(* fault can leave, that an acknowledged phase survives every fault, and   *)
(* that the two directory entries implement a DurableRegister.             *)
(***************************************************************************)
EXTENDS JournalFile, TLAPS

-----------------------------------------------------------------------------
\* The strengthening.  While a transaction is alive its position fixes the two
\* entries; after a fault only the entries' provenance is known.

\* A directory state that holds nothing but the last acknowledged journal and
\* the one being written, and holds at least one of them.
Holds(d) ==
  /\ d.current \in {acked, next, NoJournal}
  /\ d.update \in {acked, next, NoJournal}
  /\ d # EmptyDir

Position ==
  /\ pc = "publish" =>
        /\ dir = [current |-> next, update |-> NoJournal]
        /\ next # NoJournal
        /\ acked = NoJournal
  /\ pc = "open" =>
        /\ dir = [current |-> next, update |-> NoJournal]
        /\ onDisk = {dir}
        /\ acked = next
        /\ next # NoJournal
  /\ pc \in {"staged", "staged-synced"} =>
        /\ dir = [current |-> acked, update |-> next]
        /\ Progresses(acked, next)
  /\ pc \in {"exchanged", "exchanged-synced"} =>
        /\ dir = [current |-> next, update |-> acked]
        /\ Progresses(acked, next)
  /\ pc = "unlinked" => dir = [current |-> next, update |-> NoJournal]
  /\ pc \in {"staged", "staged-synced", "exchanged", "exchanged-synced",
             "unlinked"} =>
        acked # NoJournal /\ next # NoJournal /\ acked # next
  /\ pc = "remove-other" \/ pc = "remove-last" =>
        (dir.current = NoJournal \/ dir.update = NoJournal)
  /\ pc \in {"failed", "recover", "remove-other", "remove-last"} => dir # EmptyDir
  /\ pc = "removed" => acked = NoJournal /\ dir = EmptyDir

Provenance ==
  acked # NoJournal => next # NoJournal /\ \A d \in onDisk : Holds(d)

IInv == TypeOK /\ LoadNeverRejects /\ Position /\ Provenance

-----------------------------------------------------------------------------
\* Every journal commit_v1 publishes is a journal.
LEMMA FreshIsJournal == \A t \in Txn : FreshJournal(t) \in Journal
BY DEF FreshJournal, Journal, Record, Backup, EmptyRecord, NoBackup

\* The entries of a directory that load_journal does not reject are ordered.
LEMMA StagedValid ==
  ASSUME NEW d \in Dir
  PROVE  Staged(d) # "Invalid" <=>
           \/ d.update = NoJournal
           \/ d.current = NoJournal
           \/ Progresses(d.current, d.update)
           \/ Progresses(d.update, d.current)
BY DEF Staged

THEOREM InitIInv == Init => IInv
<1> SUFFICES ASSUME Init PROVE IInv
  OBVIOUS
<1> USE DEF Init, EmptyDir
<1>1. TypeOK
  BY JournalConstants DEF TypeOK, Dir, Entry
<1>2. LoadNeverRejects
  BY DEF LoadNeverRejects, Staged
<1>3. Position /\ Provenance
  BY DEF Position, Provenance
<1> QED BY <1>1, <1>2, <1>3 DEF IInv

THEOREM NextIInv == IInv /\ [Next]_vars => IInv'
<1> SUFFICES ASSUME IInv, [Next]_vars PROVE IInv'
  OBVIOUS
<1> USE NoJournalIsNone, JournalConstants
<1> USE DEF IInv, TypeOK, LoadNeverRejects, Position, Provenance, Holds, Dir, Entry,
            EmptyDir, Change, Fsync, Staged
<1>1. ASSUME NEW t \in Txn, PublishLink(t) PROVE IInv'
  BY <1>1, FreshIsJournal DEF PublishLink
<1>2. CASE PublishSync
  BY <1>2 DEF PublishSync
<1>3. ASSUME NEW j \in Journal, ReplaceStage(j) PROVE IInv'
  BY <1>3 DEF ReplaceStage
<1>4. CASE ReplaceSyncStaged
  BY <1>4 DEF ReplaceSyncStaged
<1>5. CASE ReplaceExchange
  BY <1>5 DEF ReplaceExchange
<1>6. CASE ReplaceSyncExchanged
  BY <1>6 DEF ReplaceSyncExchanged
<1>7. CASE ReplaceUnlink
  BY <1>7 DEF ReplaceUnlink
<1>8. CASE ReplaceSync
  BY <1>8 DEF ReplaceSync
<1>9. CASE Recover
  BY <1>9 DEF Recover
<1>10. CASE RemoveOther
  BY <1>10 DEF RemoveOther
<1>11. CASE RemoveOtherSync
  BY <1>11 DEF RemoveOtherSync
<1>12. CASE RemoveLast
  BY <1>12 DEF RemoveLast
<1>13. CASE RemoveSync
  BY <1>13 DEF RemoveSync
<1>14. CASE ReplaceFails
  BY <1>14 DEF ReplaceFails
<1>15. CASE Kill
  BY <1>15 DEF Kill
<1>16. CASE PowerLoss
  BY <1>16 DEF PowerLoss
<1>17. CASE UNCHANGED vars
  BY <1>17 DEF vars
<1> QED
  BY <1>1, <1>2, <1>3, <1>4, <1>5, <1>6, <1>7, <1>8, <1>9, <1>10, <1>11, <1>12,
     <1>13, <1>14, <1>15, <1>16, <1>17 DEF Next, Writer, Remover, Faults

\* The type invariant of the journal files.
THEOREM TypeCorrect == Spec => []TypeOK
<1>1. IInv => TypeOK
  BY DEF IInv
<1> QED BY <1>1, InitIInv, NextIInv, PTL DEF Spec

\* load_journal accepts whatever any number of kills, losses of power and
\* failed system calls leave in transactions/.
THEOREM LoadSafe == Spec => []LoadNeverRejects
<1>1. IInv => LoadNeverRejects
  BY DEF IInv
<1> QED BY <1>1, InitIInv, NextIInv, PTL DEF Spec

\* What publish_journal and replace_journal acknowledged is what every later
\* load finds, unless the one successor being written is found instead.
THEOREM AckedSafe == Spec => []AckedSurvives
<1>1. IInv => AckedSurvives
  <2> SUFFICES ASSUME IInv, acked # NoJournal, NEW d \in onDisk
               PROVE  Loaded(d) \in {acked, next}
    BY DEF AckedSurvives
  <2>1. Holds(d) /\ d \in Dir
    BY DEF IInv, Provenance, TypeOK
  <2> QED BY <2>1 DEF Holds, Loaded, Staged, EmptyDir, Dir, IInv, LoadNeverRejects
<1> QED BY <1>1, InitIInv, NextIInv, PTL DEF Spec

-----------------------------------------------------------------------------
\* Two backup states that progress to each other are the same state.
LEMMA BackupAntisymmetric ==
  ASSUME NEW a \in Backup, NEW b \in Backup,
         BackupProgresses(a, b), BackupProgresses(b, a)
  PROVE  a = b
BY DEF Backup, BackupProgresses, NoBackup, Intent, Identified

\* Progression is antisymmetric: the older of two distinct versions is never
\* taken for the newer one, so load_journal can tell a candidate from a
\* previous version.
LEMMA ProgressesAntisymmetric ==
  ASSUME NEW a \in Journal, NEW b \in Journal,
         Progresses(a, b), Progresses(b, a)
  PROVE  a = b
<1>1. ASSUME NEW o \in Op PROVE a.ops[o] = b.ops[o]
  <2>1. a.ops[o] \in Record /\ b.ops[o] \in Record
    BY DEF Journal
  <2>2. RecordProgresses(a.ops[o], b.ops[o]) /\ RecordProgresses(b.ops[o], a.ops[o])
    BY DEF Progresses
  <2>3. a.ops[o].backup = b.ops[o].backup
    BY <2>1, <2>2, BackupAntisymmetric DEF RecordProgresses, Record
  <2>4. a.ops[o].created = b.ops[o].created
    BY <2>1, <2>2 DEF RecordProgresses, Record
  <2> QED BY <2>1, <2>3, <2>4 DEF Record
<1>2. a.txn = b.txn
  BY DEF Progresses
<1>3. a.ops = b.ops
  BY <1>1 DEF Journal
<1> QED BY <1>2, <1>3 DEF Journal

-----------------------------------------------------------------------------
\* What each kind of directory step is for the register.

LEMMA QuietChange ==
  ASSUME NEW d \in Dir, dir \in onDisk, Change(d), Loaded(d) = Loaded(dir)
  PROVE  UNCHANGED Register!regVars
<1>1. Loaded(dir)' = Loaded(dir)
  BY DEF Change, Loaded, Staged
<1>2. {Loaded(x) : x \in onDisk}' = {Loaded(x) : x \in onDisk}
  BY DEF Change, Loaded, Staged
<1> QED BY <1>1, <1>2 DEF Register!regVars

LEMMA WriteChange ==
  ASSUME NEW d \in Dir, Change(d), JournalSucc(Loaded(dir), Loaded(d)),
         Loaded(d) \in Entry
  PROVE  Register!RegNext
<1>1. Loaded(dir)' = Loaded(d)
  BY DEF Change, Loaded, Staged
<1>2. {Loaded(x) : x \in onDisk}' = {Loaded(x) : x \in onDisk} \cup {Loaded(d)}
  BY DEF Change, Loaded, Staged
<1>3. Register!RegWrite(Loaded(d))
  BY <1>1, <1>2 DEF Register!RegWrite
<1> QED BY <1>3 DEF Register!RegNext

LEMMA FsyncSyncs ==
  ASSUME Fsync
  PROVE  Register!RegNext
<1>1. Loaded(dir)' = Loaded(dir)
  BY DEF Fsync, Loaded, Staged
<1>2. {Loaded(x) : x \in onDisk}' = {Loaded(dir)}
  BY DEF Fsync, Loaded, Staged
<1> QED BY <1>1, <1>2 DEF Register!RegNext, Register!RegSync

\* Every step of the journal files is a step of the register, or none.
LEMMA StepRefines ==
  IInv /\ [Next]_vars => [Register!RegNext]_(Register!regVars)
<1> SUFFICES ASSUME IInv, [Next]_vars
             PROVE  Register!RegNext \/ UNCHANGED Register!regVars
  OBVIOUS
<1>t. dir \in Dir /\ dir \in onDisk /\ next \in Entry /\ acked \in Entry
  BY DEF IInv, TypeOK
<1> USE NoJournalIsNone
<1>1. ASSUME NEW t \in Txn, PublishLink(t)
      PROVE  Register!RegNext \/ UNCHANGED Register!regVars
  <2> DEFINE d == [current |-> FreshJournal(t), update |-> NoJournal]
  <2>1. d \in Dir /\ Loaded(d) = FreshJournal(t) /\ Loaded(dir) = NoJournal
    BY <1>1, FreshIsJournal DEF PublishLink, EmptyDir, Dir, Entry, Loaded, Staged
  <2>2. Change(d)
    BY <1>1 DEF PublishLink, EmptyDir
  <2>3. JournalSucc(Loaded(dir), Loaded(d)) /\ Loaded(d) \in Entry
    BY <2>1, FreshIsJournal DEF JournalSucc, Entry
  <2> QED BY <2>1, <2>2, <2>3, WriteChange
<1>3. ASSUME NEW j \in Journal, ReplaceStage(j)
      PROVE  Register!RegNext \/ UNCHANGED Register!regVars
  <2> DEFINE d == [current |-> dir.current, update |-> j]
  <2>1. d \in Dir /\ Loaded(d) = j /\ Loaded(dir) = dir.current
    BY <1>3, <1>t DEF ReplaceStage, Dir, Entry, Loaded, Staged
  <2>2. Change(d)
    BY <1>3 DEF ReplaceStage
  <2>3. JournalSucc(Loaded(dir), Loaded(d)) /\ Loaded(d) \in Entry
    BY <1>3, <2>1 DEF ReplaceStage, JournalSucc, Entry
  <2> QED BY <2>1, <2>2, <2>3, WriteChange
<1>5. CASE ReplaceExchange
  <2> DEFINE d == [current |-> dir.update, update |-> dir.current]
  <2>1. /\ dir = [current |-> acked, update |-> next]
        /\ acked # NoJournal /\ next # NoJournal /\ acked # next
        /\ Progresses(acked, next)
    BY <1>5 DEF ReplaceExchange, IInv, Position
  <2>2. ~Progresses(next, acked)
    BY <1>t, <2>1, ProgressesAntisymmetric DEF Entry
  <2>3. d \in Dir /\ Loaded(d) = next /\ Loaded(dir) = next
    BY <1>t, <2>1, <2>2 DEF Dir, Loaded, Staged
  <2> QED BY <1>5, <1>t, <2>3, QuietChange DEF ReplaceExchange
<1>7. CASE ReplaceUnlink
  <2> DEFINE d == [current |-> dir.current, update |-> NoJournal]
  <2>1. /\ dir = [current |-> next, update |-> acked]
        /\ acked # NoJournal /\ next # NoJournal /\ acked # next
        /\ Progresses(acked, next)
    BY <1>7 DEF ReplaceUnlink, IInv, Position
  <2>2. ~Progresses(next, acked)
    BY <1>t, <2>1, ProgressesAntisymmetric DEF Entry
  <2>3. d \in Dir /\ Loaded(d) = next /\ Loaded(dir) = next
    BY <1>t, <2>1, <2>2 DEF Dir, Entry, Loaded, Staged
  <2> QED BY <1>7, <1>t, <2>3, QuietChange DEF ReplaceUnlink
<1>10. CASE RemoveOther
  <2>1. CASE /\ Staged(dir) = "Candidate"
             /\ dir.current # NoJournal
             /\ Change([current |-> NoJournal, update |-> dir.update])
    <3> DEFINE d == [current |-> NoJournal, update |-> dir.update]
    <3>1. d \in Dir /\ Loaded(d) = Loaded(dir)
      BY <1>t, <2>1 DEF Dir, Entry, Loaded, Staged
    <3> QED BY <1>t, <2>1, <3>1, QuietChange
  <2>2. CASE /\ Staged(dir) = "Previous"
             /\ Change([current |-> dir.current, update |-> NoJournal])
    <3> DEFINE d == [current |-> dir.current, update |-> NoJournal]
    <3>1. d \in Dir /\ Loaded(d) = Loaded(dir)
      BY <1>t, <2>2 DEF Dir, Entry, Loaded, Staged
    <3> QED BY <1>t, <2>2, <3>1, QuietChange
  <2> QED BY <1>10, <2>1, <2>2 DEF RemoveOther
<1>12. CASE RemoveLast
  <2>1. EmptyDir \in Dir /\ Loaded(EmptyDir) = NoJournal
    BY DEF Dir, Entry, EmptyDir, Loaded, Staged
  <2>2. Loaded(dir) # NoJournal
    <3>1. dir # EmptyDir
      BY <1>12 DEF RemoveLast, IInv, Position, EmptyDir
    <3>2. dir.current = NoJournal \/ dir.update = NoJournal
      BY <1>12 DEF RemoveLast, IInv, Position
    <3> QED BY <1>t, <3>1, <3>2 DEF Loaded, Staged, Dir, EmptyDir
  <2>3. JournalSucc(Loaded(dir), Loaded(EmptyDir)) /\ Loaded(EmptyDir) \in Entry
    BY <2>1, <2>2 DEF JournalSucc, Entry
  <2> QED BY <1>12, <2>1, <2>3, WriteChange DEF RemoveLast
<1>16. CASE PowerLoss
  <2>1. PICK d \in onDisk : dir' = d /\ onDisk' = {d}
    BY <1>16 DEF PowerLoss
  <2>2. Loaded(dir)' = Loaded(d)
    BY <2>1 DEF Loaded, Staged
  <2>3. {Loaded(x) : x \in onDisk}' = {Loaded(d)}
    BY <2>1 DEF Loaded, Staged
  <2> QED BY <2>2, <2>3 DEF Register!RegNext, Register!RegPowerLoss
<1>17. CASE PublishSync \/ ReplaceSyncStaged \/ ReplaceSyncExchanged \/ ReplaceSync
            \/ RemoveOtherSync \/ RemoveSync
  BY <1>17, FsyncSyncs DEF PublishSync, ReplaceSyncStaged, ReplaceSyncExchanged,
                          ReplaceSync, RemoveOtherSync, RemoveSync
<1>18. CASE Recover \/ ReplaceFails \/ Kill \/ UNCHANGED vars
  BY <1>18 DEF Recover, ReplaceFails, Kill, vars, Register!regVars, Loaded, Staged
<1> QED
  BY <1>1, <1>3, <1>5, <1>7, <1>10, <1>12, <1>16, <1>17, <1>18
     DEF Next, Writer, Remover, Faults

\* The journal files implement an atomically written register, whatever faults
\* strike them.
THEOREM FilesImplementRegister == Spec => ImplementsRegister
<1>1. Init => Register!RegInit
  BY DEF Init, Register!RegInit, Loaded, Staged, EmptyDir, Entry
<1> QED BY <1>1, InitIInv, NextIInv, StepRefines, PTL
        DEF Spec, ImplementsRegister, Register!RegSpec
=============================================================================
