------------------------------- MODULE Commit -------------------------------
(***************************************************************************)
(* commit_v1 and recover_v1: a plan's operations change their targets      *)
(* under a write-ahead journal, the state catalog is the commit point, and *)
(* recovery rolls an interrupted transaction back or forward.              *)
(*                                                                         *)
(* The journal is used as JournalFile proves it can be: a register whose   *)
(* writes are visible at once and durable at the next sync.  Each target   *)
(* keeps the states its parent directory had since the last fsync, and so  *)
(* does the catalog's directory; a loss of power leaves one of them for    *)
(* each, independently (targets and store may be on different              *)
(* filesystems).  A system call and the fsync right after it are one       *)
(* action with three outcomes: both done; done but not synced when the     *)
(* process dies; done but not synced when an error is returned.            *)
(***************************************************************************)
EXTENDS Naturals, Sequences

CONSTANT Scenarios \* plans to commit, each with a bound on every kind of fault

VARIABLES plan,              \* the prepared plan's operations
          fs, disk,          \* per operation: its names, and what a cut may leave
          jrn, jdur,         \* the journal register: value, durable values
          cat, cdur,         \* state/catalog.json and .catalog.json.new; durable
          pc, idx, at,       \* the process holding transaction.lock
          mem, raced, err,   \* its journal in memory, restored races, its error
          kills,             \* how often the process may still die
          cuts,              \* ... power may be lost
          ioErrs,            \* ... a system call may fail that commit_v1 handles
          edits,             \* ... somebody else may change a target
          took               \* operations whose target somebody else changed

target == <<fs, disk>>
journal == <<jrn, jdur>>
catalog == <<cat, cdur>>
local == <<pc, idx, at, mem, raced, err>>
budget == <<kills, cuts, ioErrs, edits, took>>
vars == <<plan, fs, disk, jrn, jdur, cat, cdur, pc, idx, at, mem, raced, err,
          kills, cuts, ioErrs, edits, took>>

-----------------------------------------------------------------------------
\* PreparedOperationV1: ensure-directory, place-symlink and place-tree are
\* placed through a named staging entry, place-file through an anonymous inode.
Canonical == {"dir", "link", "tree"}
Placing == Canonical \cup {"file"}
Kinds == Placing \cup {"remove", "assert-absent", "assert-exact"}

\* An operation's target may lie in a directory that another operation creates
\* (in is its number), or below one that is missing and that the plan does not
\* create (in is larger than every number; only removals and assertions of
\* absence).  Namesake: something else has the leaf's name in the directory
\* where the missing part begins.
Operation == [kind : Kinds, seen : {"none", "prior"}, in : Nat, namesake : BOOLEAN]

\* verify_missing_ancestor_coverage, with directories nested one deep.
Covered(ops, o) ==
  LET d == ops[o].in
  IN IF d = 0 THEN ~ops[o].namesake
     ELSE /\ ops[o].seen = "none"
          /\ IF d > Len(ops) THEN ops[o].kind \in {"remove", "assert-absent"}
             ELSE d < o /\ ops[d].kind = "dir" /\ ops[d].seen = "none" /\ ops[d].in = 0

ASSUME CommitConstants ==
  \A s \in Scenarios :
    /\ s.plan \in Seq(Operation) /\ Len(s.plan) > 0
    /\ \A o \in 1 .. Len(s.plan) : Covered(s.plan, o)
    /\ s.kills \in Nat /\ s.cuts \in Nat /\ s.ioErrs \in Nat /\ s.edits \in Nat

N == Len(plan)
Ops == 1 .. N
Of(K) == {o \in Ops : plan[o].kind \in K}

Serial == Of(Canonical \cup {"assert-absent"}) \* applied one after the other
Files == Of({"file"})
Phased == Of({"file", "remove"})
Backed == {o \in Phased : plan[o].seen = "prior"}

\* What an operation's target is once the plan is applied.
Goal(o) ==
  IF plan[o].kind \in Placing THEN "next"
  ELSE IF plan[o].kind = "assert-exact" THEN "prior" ELSE "none"

\* The names of one operation: the target leaf and the plan's private names
\* beside it (new*, backup, delete-created, delete-backup).
Names == {"leaf", "new", "bak", "delc", "delb"}
Private == Names \ {"leaf"}
Objects == {"none", "prior", "next", "foreign"}

NoNames == [n \in Names |-> "none"]
Move(f, a, b) == [f EXCEPT ![b] = f[a], ![a] = "none"]
Unlink(f, a) == [f EXCEPT ![a] = "none"]

\* The journal's record of one operation.
Record == [created : BOOLEAN, backup : {"none", "intent", "identified"}]
Blank == [created |-> FALSE, backup |-> "none"]
NoJournal == <<>>
NoMem == NoJournal

\* stage_created_identity, stage_backup_intent, stage_backup_identity.
Created(m, S) ==
  [o \in Ops |-> IF o \in S THEN [created |-> TRUE, backup |-> m[o].backup] ELSE m[o]]
Backup(m, S, b) ==
  [o \in Ops |-> IF o \in S THEN [created |-> m[o].created, backup |-> b] ELSE m[o]]

\* The operation after (before) o in S, in plan order.
After(S, o) ==
  IF \E p \in S : p > o THEN CHOOSE p \in S : p > o /\ \A q \in S : q > o => p <= q
                        ELSE N + 1

\* Targets in directories of the plan.
Below(d) == {o \in Ops : plan[o].in = d}

\* complete_pending_pins: the directory is in place, and the target's names are
\* looked up in it.
Reached(o) == plan[o].in = 0 \/ (plan[o].in \in Ops /\ fs[plan[o].in]["leaf"] = "next")

\* pin_target: below a missing directory they are looked up where it is missing.
View(o) ==
  IF Reached(o) THEN fs[o]
  ELSE [NoNames EXCEPT !["leaf"] = IF plan[o].namesake THEN "foreign" ELSE "none"]

\* revalidate_bindings: the directory is the one the transaction created; when
\* recovery opens it, it may be missing.
Bound(o) ==
  plan[o].in \in Ops =>
    \/ Reached(o)
    \/ pc \in {"back", "forward"} /\ fs[plan[o].in]["leaf"] = "none"

\* unlinkat(AT_REMOVEDIR) needs an empty directory.
Emptied(d) == \A o \in Below(d) : fs[o] = NoNames

CatAt(c, s) == [cur |-> c, stage |-> s]

Init ==
  /\ \E s \in Scenarios :
       /\ plan = s.plan
       /\ kills = s.kills /\ cuts = s.cuts /\ ioErrs = s.ioErrs /\ edits = s.edits
  /\ fs = [o \in Ops |-> [n \in Names |-> IF n = "leaf" THEN plan[o].seen ELSE "none"]]
  /\ disk = [o \in Ops |-> {fs[o]}]
  /\ jrn = NoJournal /\ jdur = {NoJournal}
  /\ cat = CatAt("prev", "none") /\ cdur = {CatAt("prev", "none")}
  /\ pc = "down" /\ idx = 0 /\ at = "" /\ mem = NoMem /\ raced = {} /\ err = ""
  /\ took = {}

-----------------------------------------------------------------------------
\* Control.

\* The process goes on.
Goto(p, o, a) ==
  /\ pc' = p /\ idx' = o /\ at' = a
  /\ UNCHANGED <<raced, err, budget>>

\* The process is gone: it forgets everything and releases the lock.
Gone(p) ==
  /\ pc' = p /\ idx' = 0 /\ at' = "" /\ mem' = NoMem /\ raced' = {} /\ err' = ""

Exit == Gone("down") /\ UNCHANGED budget

Killed ==
  /\ kills > 0
  /\ kills' = kills - 1
  /\ Gone("down")
  /\ UNCHANGED <<cuts, ioErrs, edits, took>>

\* The process stops between a system call and its fsync: it is killed, or the
\* machine goes dark until PowerLoss has settled what was written.
Die ==
  \/ Killed
  \/ cuts > 0 /\ Gone("dark") /\ UNCHANGED budget

\* phase_failure: every target is rolled back, in reverse order.
Rollback(class, r) ==
  /\ pc' = "rollback" /\ idx' = N /\ at' = "" /\ err' = class /\ raced' = r

Fails(class) == Rollback(class, raced) /\ UNCHANGED budget

FailsIo ==
  /\ ioErrs > 0
  /\ ioErrs' = ioErrs - 1
  /\ Rollback("error", raced)
  /\ UNCHANGED <<kills, cuts, edits, took>>

\* A change of o's names: not synced, or followed by fsync(parent).
Put(o, f) ==
  /\ fs' = [fs EXCEPT ![o] = f]
  /\ disk' = [disk EXCEPT ![o] = @ \cup {f}]
PutSynced(o, f) ==
  /\ fs' = [fs EXCEPT ![o] = f]
  /\ disk' = [disk EXCEPT ![o] = {f}]

\* A change and its fsync, after which the process does A, or dies before the fsync.
Settle(o, f, A) ==
  \/ PutSynced(o, f) /\ A
  \/ Put(o, f) /\ Die

\* sync_unique_parents.
SyncTargets(S) ==
  /\ disk' = [o \in Ops |-> IF o \in S THEN {fs[o]} ELSE disk[o]]
  /\ UNCHANGED fs

\* replace_journal: the records are set in memory first; then the update is
\* published and synced, or published and not synced, or not published.
SaveJournal(m, p, o, a) ==
  \/ jrn' = m /\ jdur' = {m} /\ mem' = m /\ Goto(p, o, a)
  \/ jrn' = m /\ jdur' = jdur \cup {m} /\ Die
  \/ jrn' = m /\ jdur' = jdur \cup {m} /\ mem' = m /\ FailsIo
  \/ mem' = m /\ FailsIo /\ UNCHANGED journal

-----------------------------------------------------------------------------
\* commit_v1 up to publish_journal: the store is clean, the targets are as the
\* plan observed them, no staging name is in use.  A failure here leaves
\* whatever was linked to recovery.
Begin ==
  /\ pc = "down" /\ jrn = NoJournal /\ cat = CatAt("prev", "none")
  /\ \A o \in Ops : fs[o]["leaf"] = plan[o].seen /\ \A n \in Private : fs[o][n] = "none"
  /\ LET m == [o \in Ops |-> Blank] IN
       /\ jrn' = m
       /\ \/ jdur' = {m} /\ mem' = m /\ Goto("serial", After(Serial, 0), "")
          \/ jdur' = jdur \cup {m} /\ Die
  /\ UNCHANGED <<plan, target, catalog>>

\* PinnedTarget::apply, AssertAbsent.
AssertAbsent(o) ==
  /\ pc = "serial" /\ idx = o /\ plan[o].kind = "assert-absent"
  /\ IF Bound(o) /\ View(o)["leaf"] = "none"
     THEN Goto("serial", After(Serial, o), "") ELSE Fails("error")
  /\ UNCHANGED <<plan, target, journal, catalog, mem>>

\* PinnedTarget::apply for a directory, symlink or tree: the staging entry gets
\* its name (mkdirat, symlinkat) before its identity can be journaled.
SerialStage(o) ==
  /\ pc = "serial" /\ idx = o /\ at = "" /\ plan[o].kind \in Canonical
  /\ IF Bound(o) /\ fs[o]["leaf"] = plan[o].seen
     THEN Put(o, [fs[o] EXCEPT !["new"] = "next"]) /\ Goto("serial", o, "staged")
     ELSE Fails("error") /\ UNCHANGED target
  /\ UNCHANGED <<plan, journal, catalog, mem>>

\* fsync(parent), record_created_identity.
SerialRecord(o) ==
  /\ pc = "serial" /\ idx = o /\ at = "staged"
  /\ SyncTargets({o})
  /\ SaveJournal(Created(mem, {o}), "serial", o, "recorded")
  /\ UNCHANGED <<plan, catalog>>

\* publish_staged_entry: the prior leaf is pinned, its backup intent recorded.
SerialIntent(o) ==
  /\ pc = "serial" /\ idx = o /\ at = "recorded"
  /\ \/ fs[o]["leaf"] # plan[o].seen /\ Fails("error") /\ UNCHANGED <<journal, mem>>
     \/ /\ fs[o]["leaf"] = "none" /\ plan[o].seen = "none"
        /\ Goto("serial", o, "place") /\ UNCHANGED <<journal, mem>>
     \/ /\ fs[o]["leaf"] = "prior" /\ plan[o].seen = "prior"
        /\ SaveJournal(Backup(mem, {o}, "intent"), "serial", o, "check")
  /\ UNCHANGED <<plan, target, catalog>>

\* compare_leaf and require_pinned_entry, right before the backup rename, in
\* publish_staged_entry and in rename_to_backup.
CheckSource(o) ==
  /\ pc \in {"serial", "move"} /\ idx = o /\ at = "check"
  /\ \/ fs[o]["leaf"] = "prior" /\ Goto(pc, o, "rename")
     \/ fs[o]["leaf"] # "prior" /\ Fails("error")
  /\ UNCHANGED <<plan, target, journal, catalog, mem>>

\* The rename to the backup name takes along whatever is at the leaf by now.
MoveAside(o) ==
  /\ pc \in {"serial", "move"} /\ idx = o /\ at = "rename"
  /\ \/ /\ fs[o]["leaf"] # "none"
        /\ Put(o, Move(fs[o], "leaf", "bak"))
        /\ IF pc = "serial" THEN Goto("serial", o, "moved")
                            ELSE Goto("move", After(Backed, o), "check")
     \/ fs[o]["leaf"] = "none" /\ Fails("error") /\ UNCHANGED target
  /\ UNCHANGED <<plan, journal, catalog, mem>>

\* A backup that is not the pinned object is put back (restore_pinned_backup).
RestoreRaced(o) ==
  \/ /\ fs[o]["leaf"] = "none"
     /\ fs' = [fs EXCEPT ![o] = Move(fs[o], "bak", "leaf")]
     /\ Rollback("error", raced \cup {o})
  \/ /\ fs[o]["leaf"] # "none"
     /\ Rollback("keep", raced)
     /\ UNCHANGED fs

\* fsync(parent), verify_relocated_source, record_backup_identity.
SerialIdentify(o) ==
  /\ pc = "serial" /\ idx = o /\ at = "moved"
  /\ \/ /\ fs[o]["bak"] = "prior"
        /\ SyncTargets({o})
        /\ SaveJournal(Backup(mem, {o}, "identified"), "serial", o, "place")
     \/ /\ fs[o]["bak"] # "prior"
        /\ RestoreRaced(o)
        /\ disk' = [disk EXCEPT ![o] = {fs'[o]}]
        /\ UNCHANGED <<journal, mem, budget>>
  /\ UNCHANGED <<plan, catalog>>

\* The staged entry is renamed to the leaf, without replacing anything
\* (publish_staged_entry, rename_into_place).
Place(o) ==
  /\ pc \in {"serial", "place"} /\ idx = o /\ at = "place"
  /\ \/ fs[o]["leaf"] = "none" /\ Put(o, Move(fs[o], "new", "leaf")) /\ Goto(pc, o, "placed")
     \/ fs[o]["leaf"] # "none" /\ Fails("error") /\ UNCHANGED target
  /\ UNCHANGED <<plan, journal, catalog, mem>>

\* require_relocated_pinned_entry.  An entry that took the leaf meanwhile is
\* moved to the staging name (restore_raced_staging).
Placed(o) ==
  /\ pc \in {"serial", "place"} /\ idx = o /\ at = "placed"
  /\ \/ /\ fs[o]["leaf"] = "next"
        /\ \/ pc = "serial" /\ SyncTargets({o}) /\ Goto("serial", After(Serial, o), "")
           \/ pc = "place" /\ UNCHANGED target /\ Goto("place", After(Files, o), "place")
     \/ fs[o]["leaf"] = "none" /\ Fails("error") /\ UNCHANGED target
     \/ /\ fs[o]["leaf"] \notin {"none", "next"}
        /\ PutSynced(o, Move(fs[o], "leaf", "new"))
        /\ IF plan[o].seen = "none" THEN Fails("error") ELSE Goto(pc, o, "unplace")
  /\ UNCHANGED <<plan, journal, catalog, mem>>

\* ... and the backup is restored.
Unplace(o) ==
  /\ pc \in {"serial", "place"} /\ idx = o /\ at = "unplace"
  /\ \/ fs[o]["leaf"] = "none" /\ PutSynced(o, Move(fs[o], "bak", "leaf")) /\ Fails("error")
     \/ fs[o]["leaf"] # "none" /\ Fails("keep") /\ UNCHANGED target
  /\ UNCHANGED <<plan, journal, catalog, mem>>

-----------------------------------------------------------------------------
\* The phased schedule of file placements and removals.

\* revalidate; a target that is not reached has no leaf to compare.
Unchanged(o) == Bound(o) /\ (Reached(o) => fs[o]["leaf"] = plan[o].seen)

\* Every target that is not yet changed is revalidated; phase A records the
\* identities of the anonymous inodes in one journal update.
StageFiles ==
  /\ pc = "serial" /\ idx = N + 1
  /\ LET same == \A o \in Ops \ Of(Canonical) : Unchanged(o) IN
       \/ ~same /\ Fails("error") /\ UNCHANGED <<journal, mem>>
       \/ same /\ Files = {} /\ Goto("link", N + 1, "") /\ UNCHANGED <<journal, mem>>
       \/ same /\ Files # {} /\ SaveJournal(Created(mem, Files), "link", After(Files, 0), "")
  /\ UNCHANGED <<plan, target, catalog>>

\* link_staged_file.
Link(o) ==
  /\ pc = "link" /\ idx = o
  /\ IF Bound(o)
     THEN Put(o, [fs[o] EXCEPT !["new"] = "next"]) /\ Goto("link", After(Files, o), "")
     ELSE Fails("error") /\ UNCHANGED target
  /\ UNCHANGED <<plan, journal, catalog, mem>>

\* Mutant: the backup intents are kept in memory only.
PinSourcesUnsaved ==
  /\ pc = "link" /\ idx = N + 1
  /\ SyncTargets(Files)
  /\ mem' = Backup(mem, Backed, "intent")
  /\ Goto("move", After(Backed, 0), "check")
  /\ UNCHANGED <<plan, journal, catalog>>

\* Parents are synced; phase B pins every prior leaf and records all intents
\* in one journal update.
PinSources ==
  /\ pc = "link" /\ idx = N + 1
  /\ SyncTargets(Files)
  /\ LET stale == {o \in Phased : ~Unchanged(o)} IN
       \/ /\ stale # {}
          /\ mem' = Backup(mem, {o \in Backed : \A q \in stale : o < q}, "intent")
          /\ Fails("error") /\ UNCHANGED journal
       \/ /\ stale = {} /\ Backed = {}
          /\ Goto("move", N + 1, "check") /\ UNCHANGED <<journal, mem>>
       \/ /\ stale = {} /\ Backed # {}
          /\ SaveJournal(Backup(mem, Backed, "intent"), "move", After(Backed, 0), "check")
  /\ UNCHANGED <<plan, catalog>>

\* Mutant: the backup identities are kept in memory only.
IdentifyBackupsUnsaved ==
  /\ pc = "move" /\ idx = N + 1
  /\ SyncTargets(Backed)
  /\ mem' = Backup(mem, Backed, "identified")
  /\ Goto("place", After(Files, 0), "place")
  /\ UNCHANGED <<plan, journal, catalog>>

\* Parents are synced; every backup is verified and journaled in one update.
IdentifyBackups ==
  /\ pc = "move" /\ idx = N + 1
  /\ LET wrong == {o \in Backed : fs[o]["bak"] # "prior"} IN
       \/ /\ wrong # {}
          /\ LET o == After(wrong, 0) IN
               /\ mem' = Backup(mem, {q \in Backed : q < o}, "identified")
               /\ RestoreRaced(o)
          /\ disk' = [o \in Ops |-> IF o \in Backed THEN {fs'[o]} ELSE disk[o]]
          /\ UNCHANGED <<journal, budget>>
       \/ /\ wrong = {} /\ Backed = {}
          /\ Goto("place", After(Files, 0), "place") /\ UNCHANGED <<target, journal, mem>>
       \/ /\ wrong = {} /\ Backed # {}
          /\ SyncTargets(Backed)
          /\ SaveJournal(Backup(mem, Backed, "identified"), "place", After(Files, 0), "place")
  /\ UNCHANGED <<plan, catalog>>

\* verify_applied.
Applied(o) ==
  /\ Bound(o)
  /\ View(o)["leaf"] = Goal(o)
  /\ View(o)["new"] = "none"
  /\ plan[o].kind \in Placing \cup {"remove"} => View(o)["bak"] = plan[o].seen

\* Parents are synced and every target verified before anything is published.
VerifyApplied ==
  /\ pc = "place" /\ idx = N + 1
  /\ SyncTargets(Files)
  /\ \/ (\A o \in Ops : Applied(o)) /\ Goto("publish", 0, "")
     \/ (\E o \in Ops : ~Applied(o)) /\ Fails("error")
  /\ UNCHANGED <<plan, journal, catalog, mem>>

-----------------------------------------------------------------------------
\* Mutant: the catalog's directory is not synced.
SaveCatalogUnsynced(c, p, o) ==
  /\ cat' = c /\ cdur' = cdur \cup {c}
  /\ Goto(p, o, "")
  /\ UNCHANGED <<plan, target, journal, mem>>

\* publish_generation_and_catalog.  From here on an error leaves the decision
\* to recovery: it ends the process like a kill.
SaveCatalog(c, p, o) ==
  /\ cat' = c
  /\ \/ cdur' = {c} /\ Goto(p, o, "") /\ UNCHANGED mem
     \/ cdur' = cdur \cup {c} /\ Die
  /\ UNCHANGED <<plan, target, journal>>

StageCatalog == pc = "publish" /\ SaveCatalog(CatAt("prev", "next"), "exchange", 0)

\* RENAME_EXCHANGE: the commit point.
ExchangeCatalog == pc = "exchange" /\ SaveCatalog(CatAt("next", "prev"), "unstage", 0)

\* Mutant: the journal is removed and the backups are forgotten.
UnstageCatalogThenDone ==
  /\ pc = "unstage"
  /\ SaveCatalog(CatAt("next", "none"), "unjournal", 0)

UnstageCatalog ==
  /\ pc = "unstage"
  /\ SaveCatalog(CatAt("next", "none"), "finish", After(Of(Kinds \ {"assert-exact"}), 0))

-----------------------------------------------------------------------------
\* remove_journal, and the end of the process.
RemoveJournal ==
  /\ pc = "unjournal"
  /\ jrn' = NoJournal
  /\ \/ jdur' = {NoJournal} /\ Exit
     \/ jdur' = jdur \cup {NoJournal} /\ Die
  /\ UNCHANGED <<plan, target, catalog>>

\* finish_incomplete, live ("finish": all but exact assertions) and in
\* recovery ("forward": every operation).
ToFinish == IF pc = "finish" THEN Of(Kinds \ {"assert-exact"}) ELSE Ops

\* What it requires of an operation before it removes the backup.
Finishable(o) ==
  /\ Bound(o)
  /\ View(o)["leaf"] = Goal(o)
  /\ plan[o].kind \in Placing => mem[o].created /\ View(o)["new"] = "none"
  /\ plan[o].kind \in Placing \cup {"remove"} =>
       IF plan[o].seen = "none" THEN View(o)["bak"] = "none" /\ View(o)["delb"] = "none"
       ELSE /\ mem[o].backup = "identified"
            /\ fs[o]["bak"] \in {"none", "prior"} /\ fs[o]["delb"] \in {"none", "prior"}

FinishRefuses(o) ==
  /\ pc \in {"finish", "forward"} /\ idx = o /\ at = ""
  /\ ~Finishable(o)
  /\ Exit
  /\ UNCHANGED <<plan, target, journal, catalog>>

\* finish_prior_backup: the backup goes to its quarantine name ...
QuarantineBackup(o) ==
  /\ pc \in {"finish", "forward"} /\ idx = o /\ at = ""
  /\ Finishable(o) /\ fs[o]["delb"] = "none" /\ fs[o]["bak"] = "prior"
  /\ Settle(o, Move(fs[o], "bak", "delb"), Goto(pc, o, "delete") /\ UNCHANGED mem)
  /\ UNCHANGED <<plan, journal, catalog>>

\* ... and is unlinked from there.
DeleteBackup(o) ==
  /\ pc \in {"finish", "forward"} /\ idx = o
  /\ (at = "delete" \/ (at = "" /\ Finishable(o) /\ fs[o]["delb"] # "none"))
  /\ Settle(o, Unlink(fs[o], "delb"), Goto(pc, After(ToFinish, o), "") /\ UNCHANGED mem)
  /\ UNCHANGED <<plan, journal, catalog>>

\* There is no backup (any more).
FinishNext(o) ==
  /\ pc \in {"finish", "forward"} /\ idx = o /\ at = ""
  /\ Finishable(o) /\ fs[o]["delb"] = "none" /\ fs[o]["bak"] = "none"
  /\ SyncTargets({o})
  /\ Goto(pc, After(ToFinish, o), "")
  /\ UNCHANGED <<plan, journal, catalog, mem>>

FinishDone ==
  /\ pc \in {"finish", "forward"} /\ idx = N + 1
  /\ Goto(IF pc = "finish" THEN "unjournal" ELSE "clean", 0, "")
  /\ UNCHANGED <<plan, target, journal, catalog, mem>>

-----------------------------------------------------------------------------
\* rollback_incomplete_inner, for the live rollback ("rollback") and for
\* recovery ("back"): the next thing it does with operation o.

UndoPlacing(o) ==
  LET f == View(o)
      r == mem[o]
      ours(n) == r.created /\ f[n] = "next"
  IN IF f["delc"] # "none" THEN IF ours("delc") THEN "delete" ELSE "fail"
     ELSE IF f["new"] # "none" THEN IF ours("new") THEN "quarantine-new" ELSE "fail"
     ELSE IF plan[o].seen = "none" THEN
       IF f["bak"] # "none" THEN "fail"
       ELSE IF ours("leaf") THEN "quarantine-leaf"
       ELSE IF r.created /\ f["leaf"] # "none" /\ plan[o].kind \in Canonical
            THEN "fail" ELSE "done"
     ELSE IF o \in raced THEN
       IF f["bak"] = "none" /\ f["leaf"] = "foreign" THEN "done" ELSE "fail"
     ELSE IF f["bak"] = "none" THEN
       IF f["leaf"] = "prior" THEN "done" ELSE "fail"
     ELSE IF r.backup = "none" \/ f["bak"] # "prior" THEN "fail"
     ELSE IF f["leaf"] = "none" THEN "restore"
     ELSE IF ours("leaf") THEN "quarantine-leaf" ELSE "fail"

UndoRemove(o) ==
  LET f == View(o)
      r == mem[o]
  IN IF plan[o].seen = "none" THEN
       IF f["leaf"] = "none" /\ f["bak"] = "none" THEN "done" ELSE "fail"
     ELSE IF o \in raced THEN
       IF f["bak"] = "none" /\ f["leaf"] = "foreign" THEN "done" ELSE "fail"
     ELSE IF f["bak"] = "none" THEN
       IF f["leaf"] = "prior" THEN "done" ELSE "fail"
     ELSE IF r.backup # "none" /\ f["bak"] = "prior" /\ f["leaf"] = "none" THEN "restore"
     ELSE "fail"

Undo(o) ==
  IF pc = "back" /\ ~Bound(o) THEN "fail"
  ELSE IF plan[o].kind \in Placing THEN UndoPlacing(o)
  ELSE IF plan[o].kind = "remove" THEN UndoRemove(o)
  ELSE IF View(o)["leaf"] = plan[o].seen THEN "done" ELSE "fail"

\* Mutant: only operations with a created entry are rolled back.
UntouchedIfNotCreated(o) == pc = "rollback" /\ ~mem[o].created

\* rollback_targets passes over an operation whose record is empty; recovery
\* does not.
Untouched(o) ==
  /\ pc = "rollback"
  /\ mem[o] = Blank
  /\ plan[o].kind \notin {"assert-absent", "assert-exact"}

\* An error ends recovery; the live rollback goes on with the other targets.
UndoFails(o) ==
  \/ pc = "back" /\ Exit
  \/ /\ pc = "rollback"
     /\ idx' = o - 1 /\ at' = "" /\ err' = "failed"
     /\ UNCHANGED <<pc, mem, raced, budget>>

UndoSkip(o) ==
  /\ pc = "rollback" /\ idx = o /\ Untouched(o)
  /\ Goto(pc, o - 1, "")
  /\ UNCHANGED <<plan, target, journal, catalog, mem>>

Undoing(o, step) ==
  /\ pc \in {"rollback", "back"} /\ idx = o /\ ~Untouched(o)
  /\ at = "" /\ Undo(o) = step

UndoRefuses(o) ==
  /\ Undoing(o, "fail")
  /\ UndoFails(o)
  /\ UNCHANGED <<plan, target, journal, catalog>>

\* Nothing is left to undo.  The parent is synced, except for a removal whose
\* leaf was found in place: rollback_incomplete_inner returns from that branch.
UndoDone(o) ==
  /\ Undoing(o, "done")
  /\ SyncTargets(IF (plan[o].kind = "remove" /\ o \notin raced) \/ ~Reached(o) THEN {} ELSE {o})
  /\ Goto(pc, o - 1, "")
  /\ UNCHANGED <<plan, journal, catalog, mem>>

\* quarantine_and_unlink_entry of the staging entry.
QuarantineNew(o) ==
  /\ Undoing(o, "quarantine-new")
  /\ Settle(o, Move(fs[o], "new", "delc"), Goto(pc, o, "new") /\ UNCHANGED mem)
  /\ UNCHANGED <<plan, journal, catalog>>

\* The created leaf was compared ...
CheckCreated(o) ==
  /\ Undoing(o, "quarantine-leaf")
  /\ Goto(pc, o, "created")
  /\ UNCHANGED <<plan, target, journal, catalog, mem>>

\* ... and what is at the leaf by now is moved to the quarantine name.
QuarantineLeaf(o) ==
  /\ pc \in {"rollback", "back"} /\ idx = o /\ at = "created"
  /\ \/ /\ fs[o]["leaf"] # "none"
        /\ Settle(o, Move(fs[o], "leaf", "delc"), Goto(pc, o, "leaf") /\ UNCHANGED mem)
     \/ fs[o]["leaf"] = "none" /\ UndoFails(o) /\ UNCHANGED target
  /\ UNCHANGED <<plan, journal, catalog>>

\* Mutant: what is in quarantine is unlinked without comparing it again.
DeleteCreatedUnchecked(o) ==
  /\ \/ pc \in {"rollback", "back"} /\ idx = o /\ at \in {"new", "leaf"}
     \/ Undoing(o, "delete")
  /\ PutSynced(o, Unlink(fs[o], "delc"))
  /\ Goto(pc, o, "")
  /\ UNCHANGED <<plan, journal, catalog, mem>>

\* The quarantined entry is compared again: it is unlinked only when it is the
\* one this transaction created, and otherwise put back.  A directory that is
\* not empty stays where it is.
DeleteCreated(o) ==
  /\ \/ pc \in {"rollback", "back"} /\ idx = o /\ at \in {"new", "leaf"}
     \/ Undoing(o, "delete")
  /\ \/ /\ fs[o]["delc"] = "next" /\ Emptied(o)
        /\ LET rest == IF at = "leaf" /\ plan[o].seen = "none" THEN o - 1 ELSE o IN
             Settle(o, Unlink(fs[o], "delc"), Goto(pc, rest, "") /\ UNCHANGED mem)
     \/ fs[o]["delc"] = "next" /\ ~Emptied(o) /\ UndoFails(o) /\ UNCHANGED target
     \/ /\ fs[o]["delc"] # "next"
        /\ IF fs[o]["leaf"] = "none" THEN PutSynced(o, Move(fs[o], "delc", "leaf"))
                                     ELSE UNCHANGED target
        /\ UndoFails(o)
  /\ UNCHANGED <<plan, journal, catalog>>

\* restore_pinned_backup.
RestoreBackup(o) ==
  /\ Undoing(o, "restore")
  /\ Settle(o, Move(fs[o], "bak", "leaf"), Goto(pc, o - 1, "") /\ UNCHANGED mem)
  /\ UNCHANGED <<plan, journal, catalog>>

\* The end of phase_failure: the journal goes only if every target was rolled
\* back and the error was not one of the store or the journal.
RollbackDone ==
  /\ pc = "rollback" /\ idx = 0
  /\ IF err = "error" THEN Goto("unjournal", 0, "") /\ UNCHANGED mem ELSE Exit
  /\ UNCHANGED <<plan, target, journal, catalog>>

-----------------------------------------------------------------------------
\* recover_v1.

\* validate_journal: each record is one its operation can have.
LegalRecord(o, r) ==
  /\ r.created => plan[o].kind \in Placing
  /\ r.backup # "none" =>
       /\ plan[o].seen = "prior"
       /\ (plan[o].kind \in Placing /\ r.created) \/ plan[o].kind = "remove"

\* validate_roll_forward_journal.
CompleteRecord(o, r) ==
  /\ r.created = (plan[o].kind \in Placing)
  /\ r.backup = IF plan[o].kind \in Placing \cup {"remove"} /\ plan[o].seen = "prior"
                THEN "identified" ELSE "none"

Legal == \A o \in Ops : LegalRecord(o, jrn[o])
Complete == \A o \in Ops : CompleteRecord(o, jrn[o])

Recover ==
  /\ pc = "down" /\ jrn # NoJournal
  /\ Legal
  /\ \/ cat.cur = "prev" /\ Goto("back", N, "")
     \/ cat.cur = "next" /\ Complete /\ Goto("forward", After(Ops, 0), "")
  /\ mem' = jrn
  /\ UNCHANGED <<plan, target, journal, catalog>>

RecoverRolledBack ==
  /\ pc = "back" /\ idx = 0
  /\ Goto("clean", 0, "")
  /\ UNCHANGED <<plan, target, journal, catalog, mem>>

\* remove_catalog_staging.
CleanCatalog ==
  /\ pc = "clean"
  /\ \/ cat.stage = "none" /\ Goto("unjournal", 0, "") /\ UNCHANGED <<catalog, mem>>
     \/ /\ cat.stage # "none"
        /\ cat' = CatAt(cat.cur, "none")
        /\ \/ cdur' = {cat'} /\ Goto("unjournal", 0, "") /\ UNCHANGED mem
           \/ cdur' = cdur \cup {cat'} /\ Die
  /\ UNCHANGED <<plan, target, journal>>

-----------------------------------------------------------------------------
\* The environment.

\* The process dies between two steps.
Kill ==
  /\ pc \notin {"down", "dark"}
  /\ Killed
  /\ UNCHANGED <<plan, target, journal, catalog>>

\* A system call of the mutation fails before it has any effect, or the fsync
\* that follows one does.
IoError ==
  /\ pc \in {"serial", "link", "move", "place"}
  /\ FailsIo
  /\ UNCHANGED <<plan, target, journal, catalog, mem>>

\* The machine loses power: each directory is left in a state it had since its
\* last sync.  What is in a directory is lost with it.
Drowned(f, o) == plan[o].in \in Ops /\ \A n \in Names : f[plan[o].in][n] # "next"

PowerLoss ==
  /\ cuts > 0
  /\ cuts' = cuts - 1
  /\ \E f \in [Ops -> UNION {disk[o] : o \in Ops}] :
       /\ \A o \in Ops : f[o] \in disk[o]
       /\ fs' = [o \in Ops |-> IF Drowned(f, o) THEN NoNames ELSE f[o]]
       /\ disk' = [o \in Ops |-> {fs'[o]}]
  /\ \E j \in jdur : jrn' = j /\ jdur' = {j}
  /\ \E c \in cdur : cat' = c /\ cdur' = {c}
  /\ Gone("down")
  /\ UNCHANGED <<plan, kills, ioErrs, edits, took>>

\* Somebody else replaces, creates or deletes the target of o, if it is not a
\* directory with something in it.
Edit(o) ==
  /\ edits > 0 /\ Reached(o) /\ Emptied(o)
  /\ edits' = edits - 1
  /\ took' = took \cup {o} \cup ({plan[o].in} \cap Ops) \cup Below(o)
  /\ \E v \in {"none", "foreign"} :
       v # fs[o]["leaf"] /\ Put(o, [fs[o] EXCEPT !["leaf"] = v])
  /\ UNCHANGED <<plan, journal, catalog, local, kills, cuts, ioErrs>>

SerialStep(o) ==
  \/ AssertAbsent(o) \/ SerialStage(o) \/ SerialRecord(o) \/ SerialIntent(o)
  \/ CheckSource(o) \/ MoveAside(o) \/ SerialIdentify(o) \/ Place(o) \/ Placed(o)
  \/ Unplace(o) \/ Link(o)

FinishStep(o) ==
  FinishRefuses(o) \/ QuarantineBackup(o) \/ DeleteBackup(o) \/ FinishNext(o)

UndoStep(o) ==
  \/ UndoSkip(o) \/ UndoRefuses(o) \/ UndoDone(o) \/ QuarantineNew(o) \/ CheckCreated(o)
  \/ QuarantineLeaf(o) \/ DeleteCreated(o) \/ RestoreBackup(o)

Work ==
  \/ \E o \in Ops : SerialStep(o) \/ FinishStep(o) \/ UndoStep(o)
  \/ StageFiles \/ PinSources \/ IdentifyBackups \/ VerifyApplied
  \/ StageCatalog \/ ExchangeCatalog \/ UnstageCatalog
  \/ FinishDone \/ RollbackDone \/ RecoverRolledBack \/ CleanCatalog \/ RemoveJournal

Environment == Kill \/ IoError \/ PowerLoss \/ \E o \in Ops : Edit(o)

Next == Begin \/ Work \/ Recover \/ Environment

Spec == Init /\ [][Next]_vars

\* A process that holds the lock keeps running, a dark machine is started again,
\* and recovery is run again while a journal remains.  Nobody has to begin, and
\* nothing has to fail.
FairSpec ==
  Spec /\ WF_vars(Work) /\ WF_vars(Recover) /\ WF_vars(pc = "dark" /\ PowerLoss)

-----------------------------------------------------------------------------
\* Properties.

\* The write-ahead rule: an entry moved to its backup name is covered by a
\* durable backup intent, and a file's staging name by its durable identity,
\* whatever journal a loss of power may bring back.
WriteAhead ==
  \A o \in Ops, j \in jdur :
    /\ fs[o]["bak"] # "none" => j # NoJournal /\ j[o].backup # "none"
    /\ plan[o].kind = "file" /\ fs[o]["new"] # "none" => j # NoJournal /\ j[o].created

\* Until the catalog names the next state, the object a plan replaces or removes
\* still exists, at its leaf or its backup name, whoever dies and whenever.
PriorPreserved ==
  cat.cur = "prev" =>
    \A o \in Ops \ took : plan[o].seen = "prior" =>
      "prior" \in {fs[o]["leaf"], fs[o]["bak"]}

\* A selected next catalog comes with a journal recovery can roll forward, and
\* the journal is always one that validate_journal accepts.
Recoverable ==
  jrn # NoJournal => Legal /\ (cat.cur = "next" => Complete)

\* Once no journal is left, a transaction happened at all targets or at none,
\* as the catalog says.
SettledAtomic ==
  pc = "down" /\ jrn = NoJournal =>
    \A o \in Ops \ took :
      fs[o]["leaf"] = IF cat.cur = "prev" THEN plan[o].seen ELSE Goal(o)

\* .catalog.json.new exists only under a journal: without one, both commit_v1
\* and recover_v1 refuse the store for good.
StagingNeedsJournal == jrn = NoJournal => cat.stage = "none"

\* Whoever dies and whatever a loss of power brings back, the next recovery
\* finds all it needs: an intent or an identity for every private name, every
\* prior object, a journal it accepts and no staged catalog without one.
RecoveryReady == WriteAhead /\ PriorPreserved /\ Recoverable /\ StagingNeedsJournal

\* A journal is removed only after all of the transaction's private names are.
NothingLeftBehind ==
  jrn = NoJournal => \A o \in Ops, n \in Private : fs[o][n] = "none"

\* What somebody else put at a target is moved aside and back, never deleted.
Holds(f, v) == \E n \in Names : f[n] = v
ForeignNeverDeleted ==
  [][(edits' = edits /\ cuts' = cuts) =>
       \A o \in Ops : Holds(fs[o], "foreign") => Holds(fs'[o], "foreign")]_vars

\* A staging entry that was named when the process died, before its identity was
\* journaled: the contract's fail-closed limit.
UnidentifiedStaging ==
  /\ jrn # NoJournal
  /\ \E o \in Of(Canonical), n \in {"new", "delc"} : fs[o][n] # "none" /\ ~jrn[o].created

\* A target whose directory is missing is looked up one level up, and something
\* else has its name there.
Mistaken == \E o \in Ops : ~Reached(o) /\ plan[o].namesake

\* An interrupted transaction is resolved by running recovery again, except at
\* that limit, where a target is mistaken for another, or where somebody else
\* changed one: recovery then refuses.
Resolves ==
  jrn # NoJournal ~> (jrn = NoJournal \/ UnidentifiedStaging \/ Mistaken \/ took # {})

\* Commit and recovery together are one atomic deployment.
Deploy == INSTANCE AtomicDeploy WITH
            before <- [o \in Ops |-> plan[o].seen],
            after <- [o \in Ops |-> Goal(o)],
            open <- jrn # NoJournal,
            outcome <- cat.cur,
            done <- \A c \in cdur : c.cur = "next",
            shown <- IF jrn = NoJournal THEN [o \in Ops |-> fs[o]["leaf"]] ELSE <<>>
ImplementsDeploy == Deploy!DeploySpec

=============================================================================
