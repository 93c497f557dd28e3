---------------------------- MODULE JournalFile ----------------------------
(***************************************************************************)
(* The transaction journal as two directory entries of transactions/:      *)
(* current.json and .current.json.update.                                  *)
(*                                                                         *)
(* publish_journal links a complete, synced file as current.json.          *)
(* replace_journal links the next version as the update, exchanges the two *)
(* names and unlinks the prior version; remove_journal takes the names     *)
(* away in an order that depends on which of the two is authoritative.     *)
(* Every directory operation is an action of its own, so a process may be  *)
(* killed, power may be lost and an operation may fail between any two.    *)
(*                                                                         *)
(* "dir" is the directory as every process sees it.  "onDisk" holds the    *)
(* directory's states since its last fsync: a loss of power leaves one of  *)
(* them (metadata operations of one directory reach the disk in order).    *)
(***************************************************************************)
EXTENDS Naturals

CONSTANTS Txn,        \* the immutable fields of a journal, taken together
          Op,         \* the operations of a plan
          Identity,   \* file identities (device, inode, owner, mode, times)
          Digest,     \* content digests of a source, "not a regular file" included
          NoIdentity, \* Option::None of a created identity
          NoJournal,  \* there is no such directory entry
          MaxFaults   \* bound on kills, losses of power and failed system calls

ASSUME JournalConstants ==
  /\ NoIdentity \notin Identity
  /\ MaxFaults \in Nat

VARIABLES dir,     \* [current, update]: the two entries as processes see them
          onDisk,  \* the directory states a loss of power may leave
          pc,      \* where the process that holds transaction.lock is
          next,    \* the journal that process is writing, or has written last
          acked,   \* history: the last journal whose write was acknowledged
          faults   \* history: faults so far

vars == <<dir, onDisk, pc, next, acked, faults>>

-----------------------------------------------------------------------------
\* JournalBackupV1: nothing, an intent, or an identified backup.
NoBackup == [state |-> "none"]
Intent(d) == [state |-> "intent", digest |-> d]
Identified(i, d) == [state |-> "identified", identity |-> i, digest |-> d]

Backup ==
  {NoBackup} \cup {Intent(d) : d \in Digest}
             \cup {Identified(i, d) : i \in Identity, d \in Digest}

\* JournalOperationV1.
Record == [created : Identity \cup {NoIdentity}, backup : Backup]

\* TransactionJournalV1.
Journal == [txn : Txn, ops : [Op -> Record]]

EmptyRecord == [created |-> NoIdentity, backup |-> NoBackup]

\* The journal commit_v1 publishes before its first mutation.
FreshJournal(t) == [txn |-> t, ops |-> [o \in Op |-> EmptyRecord]]

\* The legal moves of one operation's backup.
BackupProgresses(b, a) ==
  \/ a = b
  \/ b.state = "none" /\ a.state = "intent"
  \/ b.state = "intent" /\ a.state = "identified" /\ a.digest = b.digest

\* One operation of validate_journal_progression: an established identity never
\* changes, and an identity is never established beside a backup.
RecordProgresses(b, a) ==
  /\ b.created # NoIdentity => a.created = b.created
  /\ (b.created = NoIdentity /\ a.created # NoIdentity)
        => b.backup.state = "none" /\ a.backup.state = "none"
  /\ BackupProgresses(b.backup, a.backup)

\* validate_journal_progression.
Progresses(b, a) ==
  /\ b.txn = a.txn
  /\ \A o \in Op : RecordProgresses(b.ops[o], a.ops[o])

-----------------------------------------------------------------------------
ASSUME NoJournalIsNone == NoJournal \notin Journal

Entry == Journal \cup {NoJournal}
Dir == [current : Entry, update : Entry]

\* load_journal: which entry is authoritative, and what the other one is.
Staged(d) ==
  IF d.update = NoJournal THEN "None"
  ELSE IF d.current = NoJournal \/ Progresses(d.current, d.update) THEN "Candidate"
  ELSE IF Progresses(d.update, d.current) THEN "Previous"
  ELSE "Invalid"

Loaded(d) == IF Staged(d) = "Candidate" THEN d.update ELSE d.current

EmptyDir == [current |-> NoJournal, update |-> NoJournal]

Init ==
  /\ dir = EmptyDir
  /\ onDisk = {EmptyDir}
  /\ pc = "none"
  /\ next = NoJournal
  /\ acked = NoJournal
  /\ faults = 0

\* A change of the directory, not yet synced.
Change(d) ==
  /\ dir' = d
  /\ onDisk' = onDisk \cup {d}

\* fsync(directory).
Fsync ==
  /\ onDisk' = {dir}
  /\ UNCHANGED dir

\* publish_journal: refused while load_journal finds anything; then linkat.
PublishLink(t) ==
  /\ pc = "none"
  /\ dir = EmptyDir
  /\ Change([current |-> FreshJournal(t), update |-> dir.update])
  /\ pc' = "publish"
  /\ next' = FreshJournal(t)
  /\ UNCHANGED <<acked, faults>>

\* Mutant: publish_journal returns without syncing the directory.
PublishSyncSkipped ==
  /\ pc = "publish"
  /\ pc' = "open"
  /\ acked' = next
  /\ UNCHANGED <<dir, onDisk, next, faults>>

PublishSync ==
  /\ pc = "publish"
  /\ Fsync
  /\ pc' = "open"
  /\ acked' = next
  /\ UNCHANGED <<next, faults>>

\* Mutant: replace_journal does not validate the progression.
ReplaceStageUnchecked(j) ==
  /\ pc = "open"
  /\ dir.update = NoJournal
  /\ dir.current # NoJournal
  /\ Change([current |-> dir.current, update |-> j])
  /\ pc' = "staged"
  /\ next' = j
  /\ UNCHANGED <<acked, faults>>

\* replace_journal: the staging name must be free and the new version must be
\* a progression of the current one; then linkat.
ReplaceStage(j) ==
  /\ pc = "open"
  /\ dir.update = NoJournal
  /\ dir.current # NoJournal
  /\ j # dir.current
  /\ Progresses(dir.current, j)
  /\ Change([current |-> dir.current, update |-> j])
  /\ pc' = "staged"
  /\ next' = j
  /\ UNCHANGED <<acked, faults>>

ReplaceSyncStaged ==
  /\ pc = "staged"
  /\ Fsync
  /\ pc' = "staged-synced"
  /\ UNCHANGED <<next, acked, faults>>

\* exchange_pinned_store_entries: renameat2(RENAME_EXCHANGE).
ReplaceExchange ==
  /\ pc = "staged-synced"
  /\ Change([current |-> dir.update, update |-> dir.current])
  /\ pc' = "exchanged"
  /\ UNCHANGED <<next, acked, faults>>

ReplaceSyncExchanged ==
  /\ pc = "exchanged"
  /\ Fsync
  /\ pc' = "exchanged-synced"
  /\ UNCHANGED <<next, acked, faults>>

\* remove_pinned_mutable_entry of the prior version.
ReplaceUnlink ==
  /\ pc = "exchanged-synced"
  /\ Change([current |-> dir.current, update |-> NoJournal])
  /\ pc' = "unlinked"
  /\ UNCHANGED <<next, acked, faults>>

ReplaceSync ==
  /\ pc = "unlinked"
  /\ Fsync
  /\ pc' = "open"
  /\ acked' = next
  /\ UNCHANGED <<next, faults>>

\* Mutant: recovery refuses every journal that has a staged update beside it.
RecoverWithoutUpdate ==
  /\ pc = "none"
  /\ dir # EmptyDir
  /\ Staged(dir) = "None"
  /\ pc' = "recover"
  /\ UNCHANGED <<dir, onDisk, next, acked, faults>>

\* recover_v1 takes the lock and loads the journal it finds.
Recover ==
  /\ pc = "none"
  /\ dir # EmptyDir
  /\ Staged(dir) # "Invalid"
  /\ pc' = "recover"
  /\ UNCHANGED <<dir, onDisk, next, acked, faults>>

\* Mutant: the staged update always goes first.
RemoveOtherUpdateFirst ==
  /\ pc \in {"open", "failed", "recover"}
  /\ dir.update # NoJournal
  /\ dir.current # NoJournal
  /\ Change([current |-> dir.current, update |-> NoJournal])
  /\ pc' = "remove-other"
  /\ UNCHANGED <<next, acked, faults>>

\* remove_journal, called by a finished or rolled back commit and by recovery:
\* the entry that is not authoritative goes first.
RemoveOther ==
  /\ pc \in {"open", "failed", "recover"}
  /\ \/ /\ Staged(dir) = "Candidate"
        /\ dir.current # NoJournal
        /\ Change([current |-> NoJournal, update |-> dir.update])
     \/ /\ Staged(dir) = "Previous"
        /\ Change([current |-> dir.current, update |-> NoJournal])
  /\ pc' = "remove-other"
  /\ UNCHANGED <<next, acked, faults>>

RemoveOtherSync ==
  /\ pc = "remove-other"
  /\ Fsync
  /\ pc' = "remove-last"
  /\ UNCHANGED <<next, acked, faults>>

\* ... and the authoritative entry last (at once, when it is the only one).
RemoveLast ==
  /\ \/ pc = "remove-last"
     \/ pc \in {"open", "failed", "recover"}
        /\ (dir.current = NoJournal \/ dir.update = NoJournal)
  /\ Change(EmptyDir)
  /\ pc' = "removed"
  /\ acked' = NoJournal
  /\ UNCHANGED <<next, faults>>

RemoveSync ==
  /\ pc = "removed"
  /\ Fsync
  /\ pc' = "none"
  /\ next' = NoJournal
  /\ UNCHANGED <<acked, faults>>

-----------------------------------------------------------------------------
\* A system call of replace_journal fails: commit rolls its targets back.
ReplaceFails ==
  /\ faults < MaxFaults
  /\ pc \in {"staged", "staged-synced", "exchanged", "exchanged-synced", "unlinked"}
  /\ pc' = "failed"
  /\ faults' = faults + 1
  /\ UNCHANGED <<dir, onDisk, next, acked>>

\* The process dies, or returns an error that leaves the journal to recovery:
\* the directory stays as it is and transaction.lock is released.
Kill ==
  /\ faults < MaxFaults
  /\ pc # "none"
  /\ pc' = "none"
  /\ faults' = faults + 1
  /\ UNCHANGED <<dir, onDisk, next, acked>>

\* The machine loses power.
PowerLoss ==
  /\ faults < MaxFaults
  /\ \E d \in onDisk : dir' = d /\ onDisk' = {d}
  /\ pc' = "none"
  /\ faults' = faults + 1
  /\ UNCHANGED <<next, acked>>

Writer ==
  \/ \E t \in Txn : PublishLink(t)
  \/ PublishSync
  \/ \E j \in Journal : ReplaceStage(j)
  \/ ReplaceSyncStaged
  \/ ReplaceExchange
  \/ ReplaceSyncExchanged
  \/ ReplaceUnlink
  \/ ReplaceSync

Remover ==
  \/ Recover
  \/ RemoveOther
  \/ RemoveOtherSync
  \/ RemoveLast
  \/ RemoveSync

Faults == ReplaceFails \/ Kill \/ PowerLoss

Next == Writer \/ Remover \/ Faults

Spec == Init /\ [][Next]_vars

\* A transaction that was begun is carried on, and whoever finds a journal
\* runs recovery; starting another transaction is nobody's obligation.
Fairness ==
  /\ WF_vars(Remover)
  /\ WF_vars(PublishSync \/ ReplaceSyncStaged \/ ReplaceExchange
              \/ ReplaceSyncExchanged \/ ReplaceUnlink \/ ReplaceSync)

FairSpec == Spec /\ Fairness

-----------------------------------------------------------------------------
TypeOK ==
  /\ dir \in Dir
  /\ onDisk \in SUBSET Dir
  /\ dir \in onDisk
  /\ pc \in {"none", "publish", "open", "staged", "staged-synced", "exchanged",
             "exchanged-synced", "unlinked", "failed", "recover",
             "remove-other", "remove-last", "removed"}
  /\ next \in Entry
  /\ acked \in Entry
  /\ faults \in 0 .. MaxFaults

\* Whatever a kill, a loss of power or a failed call leaves behind, load_journal
\* accepts it: recovery is never refused because of the update protocol itself.
LoadNeverRejects == \A d \in onDisk : Staged(d) # "Invalid"

\* A phase that replace_journal acknowledged is never forgotten: a later load
\* finds it, or the one successor that was being written.  The mutation that
\* follows an acknowledged phase relies on it.
AckedSurvives ==
  acked # NoJournal => \A d \in onDisk : Loaded(d) \in {acked, next}

\* The files implement a register that is written atomically: no load ever sees
\* anything but a value that was written, updates only progress, and a removal
\* that stops half way never falls back to an older phase.
JournalSucc(v, w) ==
  IF v = NoJournal THEN \E t \in Txn : w = FreshJournal(t)
                   ELSE w = NoJournal \/ Progresses(v, w)

Register == INSTANCE DurableRegister
              WITH Value <- Entry, Succ <- JournalSucc,
                   value <- Loaded(dir), durable <- {Loaded(d) : d \in onDisk}

ImplementsRegister == Register!RegSpec

\* Once a journal exists, finishing or recovering its transaction takes it away:
\* no state of the two names blocks the store for good.
JournalGoesAway == dir # EmptyDir ~> dir = EmptyDir
=============================================================================
