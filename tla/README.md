# A TLA+ model of Malm

Malm deploys configuration files. A source *pack* is captured or fetched and
locked, its configuration is evaluated, a *plan* is prepared from it and reviewed,
and *apply* changes the target files. Everything a plan needs is copied into a store
of immutable objects first; apply runs under a journal, and recovery resolves an
interrupted apply without the original sources. What the program promises is that a
deployment happens at all of its targets or at none, whatever dies in between, and
that the store can always be inspected, recovered and pruned afterwards. Those
promises rest on the order of link, rename, unlink and fsync calls of processes that
share a few directories. A plan is prepared now and committed later, next to other
plans, other namespaces and a user who edits the targets; that the ledger of what
malm owns stays true through all of it is the other promise. In front of both are an
evaluator for two configuration dialects and a machine protocol, whose promise is
that what is asked is what is done.

The modules follow the source under `src/crates` and `src/src/cli`. `PROJECT.json`
maps every definition to its lines.

## 1. Inventory

| Part | State | Operations | What is hard |
|---|---|---|---|
| Transaction journal (`malm-commit/src/lib.rs` 2680-3543) | `transactions/current.json`, `.current.json.update` | load, publish, replace, remove | two names, four unsynced windows per update, an authoritative entry that changes |
| Commit (`commit_v1`, `target.rs`) | target directories, `state/catalog.json`, generations, the journal | serial placements, phased file placements and removals, verification, catalog exchange, finish, live rollback | write-ahead order across directories; directories that are made on the way; races with other programs; errors in the middle |
| Recovery (`recover_v1`) | the same | roll back in reverse order, or roll forward | is itself interrupted; trusts what it sees |
| Store and catalog initialization (`malm-engine/src/lib.rs`, `malm-commit/src/lib.rs`) | the state root, its descriptor, its layout, `catalog.json` | create, open, validate | two initializers; what a killed one left; a directory that is exchanged meanwhile |
| Retention (`prune_v1`, `retention.rs`) | prepared records, generations, blobs, packs, canonical objects | reachability, ordered removal | runs beside prepare; interrupted between directories |
| Prepared plans (`malm-engine/src/prepared_store.rs`) | `prepared/`, `objects/blobs/` | observe targets, reconcile, publish artifacts and record | publication races with prune; objects found by name but not durable |
| Packs and canonical objects (`pack_store.rs`, `canonical_store.rs`) | manifests, blobs, files, symlinks, trees | publish, load closures | reuse of what is there already |
| State generations and ownership (`malm-store`) | records, catalog heads, lineage, retention authority | validate a transition, derive the next generation | long sequences of legal transitions |
| Inspection (`inspection.rs`) | none of its own | status, fsck, history, details, inventory | reads for a long time without a lock |
| Static preparation (`config_prepare.rs`, `authoring_prepare.rs`) | none of its own | choose profile and dialect, evaluate, build a request | a dialect is decided by one node; the deployed profile is read from the head |
| Authoring language (`malm-authoring`) | a workspace under evaluation | include, overlay, resolve, layer, type, expand | precedence along a graph; a checker and an expander that must agree |
| Rich configuration (`malm-config/src/rich*.rs`) | a document under evaluation | capture, order, select, resolve, execute, patch | cycles found in the middle of recursion; provenance of values that change again |
| Lock files and module graph (`lock_operation.rs`, `pack_capture.rs`, `malm-module-graph`) | `malm.lock`, its staging file | resolve, capture twice, publish | sources change while they are read; a second malm; a user who edits the lock |
| Tracked updates (`tracked_update.rs`, `git_acquisition`) | scratch repositories, the head's tracked root | resolve, acquire, prepare | minutes between read and use; a Git child that hangs, forks or floods |
| Machine protocol (`malm-machine`, `src/cli/machine.rs`) | one request and its answer | decode, dispatch, answer | limits found after the operation has happened; five layers of types that must agree |
| Observed cache (`lib.rs` 4737-4979), profile switch, text formats, archives, WebAssembly components, events, the human command line | `observed.json` | compare by identity; parse, print, decode, present | data formats rather than interleavings |

Interactions. The engine and the committer are libraries of short-lived processes;
they meet in the store's directories only. `transaction.lock` serializes commit,
recovery and prune, `maintenance.lock` serializes publication and prune; both are
`flock`s, released when the process dies. commit, recover and prune refuse with
*Busy* instead of waiting; publication polls for five seconds; initialization of the
catalog waits without a limit. Lock operations exclude each other by a `flock` of
the root pack's directory. Inspection takes no lock and compares what it has read at
the end.

The properties that make the parts correct: an acknowledged journal phase survives
every fault; no target is changed before the journal on disk covers the change; the
catalog decides for all targets at once; recovery can be repeated until it is done
and then leaves nothing behind; what another program put at a target is never
deleted; what the catalog selects, what a record names and what a journal needs is
never pruned and never lost; no two namespaces own one target, what the ledger says is
on disk is there and nothing else of malm's is, no history of legal commands makes a
namespace unmanageable, and the user's work is not discarded without approval; a store
that was reported ready is ready for everybody; a lock file describes one state of its
sources; an update is as good as instantaneous; a report is a snapshot or says it is
stale; a source is refused only for a cause in the source; a request that was read is
answered.

## 2. Modules

| Module | What it is |
|---|---|
| `DurableRegister` | abstract: a register whose writes are atomic, visible at once and durable at the next sync |
| `JournalFile`, `JournalFileProofs` | the journal's two directory entries, one action per system call; proofs |
| `AtomicDeploy` | abstract: a deployment that opens, decides once, and closes at all targets or at none |
| `Commit` | `commit_v1` and `recover_v1` over targets, journal register and catalog |
| `CommitProofs` | proofs about `Commit`: types, operators and control; the invariant of targets, journal and catalog; what follows for other programs' files and for `AtomicDeploy` |
| `StoreInit`, `StoreInitProofs` | how a store comes into being and is opened, by several processes at once; proofs |
| `Retention` | the object store under prepare, commit, recover and prune |
| `RetentionProofs` | proofs about `Retention` and `Inspection`: the store is closed under references; the head keeps what rollback and placement need; reports are snapshots, a clean store is sound, what is shown is retained |
| `NatLemmas` | the least-number principle, for the proofs |
| `Inspection` | read-only inspections beside the processes of `Retention` (extends it) |
| `Lifecycle`, `LifecycleProofs` | namespaces, generations and owned targets: what prepare makes of a request and what commit admits; proofs that ownership stays exclusive, that the ledger is true of the disk, that the user's files are not replaced unasked, and what can always be disabled, removed and enabled again |
| `AuthoringValues`, `AuthoringExpand`, `AuthoringInputs`, `Authoring` | the authoring dialect: values, references and types; expansion of outputs under budgets; typing of inputs; the evaluation as a state machine |
| `RichValues`, `RichConfig` | the rich-config dialect: values, expressions and variables; the evaluation as a state machine |
| `StaticPrepare` | composes both dialects under the choice of `config_prepare::prepare` |
| `PackGraph`, `PackLock`, `PackLockProofs` | graphs of packs and locks as operators; lock operations; proofs |
| `GitProcess`, `TrackedRoot`, `TrackedRootProofs` | the supervision of one Git child; tracked deployments that call it; proofs about both |
| `MachineTypes`, `MachineModel`, `MachineWire`, `MachineConvert`, `MachineCodec`, `Machine` | the protocol: descriptions of types, the public model, the wire form, conversions, the codec with its limits; one run of `malm machine` |
| `MC*` | instances for TLC; `MCAuthoring` holds the authoring sources for `MCStaticPrepare` |

`Commit` uses the journal as the register `JournalFile` is proved to implement:
`jrn` is `Loaded(dir)`, `jdur` the values the directory states on disk load as.
`Retention` abstracts a commit to the five steps that touch the store's objects;
what those steps do to targets and catalog file is in `Commit`. `Lifecycle` takes a
commit for one step, which is what `Commit` shows of it (`AtomicDeploy`), and is about
which commits are made. `TrackedRoot` keeps of the store what an update needs: heads,
records and which objects are there.

### Storage

`JournalFile`, `Commit`, `Retention`, `StoreInit` and `PackLock` use one model of a
directory: its content as processes see it, and the set of contents it has had since
its last fsync. A *kill* ends a process and changes nothing else; a *loss of power*
ends every process and leaves each directory with one member of its set. Directories
are independent of each other (targets and store may be on different filesystems);
within a directory, operations reach the disk in order. File contents are synced
before a name is linked in all of the modelled code, so an entry is never torn.

### JournalFile

`dir` holds the two entries and `onDisk` the states a power loss may leave; `pc` is
the place of the process that holds `transaction.lock`. A journal is one immutable
part (`Txn`: plan, catalogs, namespace and so on) and one record per operation: the
created identity, and no backup, an intent with a source digest, or an identified
backup. `Progresses` is `validate_journal_progression`, `Staged` and `Loaded` are
`load_journal`. `ReplaceStage` writes *any* legal successor, not just the ones
commit writes. `ReplaceFails` is a failed call after which commit goes on to roll
back and to call `remove_journal` on whatever is there.

### Commit

An operation is its kind, what the plan observed at its target (`seen`), and the
directory it lies in: one that exists, one another operation of the plan makes (`in`),
or one that is missing. Each operation owns five names in its directory: the leaf and
the plan's private names for the staged entry, the backup and the two quarantines.
Objects are what the plan saw (`prior`), what it wants (`next`), and what somebody else
put there (`foreign`). `pc`, `idx` and `at` follow the code: `serial` (directories,
symlinks, trees and absence checks, one after the other), `link`, `move`, `place`
(phases A, B and C of files and removals), `publish`, `exchange`, `unstage` (the
catalog), `finish`, `unjournal`; `rollback` for the live rollback, and `back`,
`forward`, `clean` for recovery. `mem` is the journal in memory: it is set before the
update is written, so an error in between rolls back with records the file does not
have, as in the code. A system call and the fsync that follows it are one action with
the outcomes *done*, *done but the process died before the fsync*, and *done but an
error was returned*. `Undo` is the decision table of `rollback_incomplete_inner`.

A target counts as pinned once its directory is in place (`Reached`); directories nest
one level deep; a target that is not reached is looked up one level up, as the code
does, where `namesake` says whether something has its name (`Mistaken`). Edits leave
directories alone that have something in them.

Data that is abstracted: identities and digests (an object is told from another
exactly), modes, the content of trees (a tree is materialized in one step, before it
can be named by the journal), the observed cache (comparisons read the content).

### StoreInit

A directory is an object (`Dirs`), the configured path names at most one of them, and a
process works on what it has pinned. `initialize_store` wants a safe state parent,
creates the root in private and renames it into place, links the descriptor, publishes
the catalog under `transaction.lock`, syncs each directory and validates what it has;
`store_status` and `open_ready_store` read. A publisher creates `maintenance.lock`, syncs
it and tries to lock it, again and again up to `LockTries` (200 in the code), and then gives
up as busy (`TryLock`). A marker that is missing is looked for three
times, a layout that changes 32 times. `announced`, `late` and `moved` are history:
whether a store was reported ready, whether a call began after that, whether another
program has interfered.

### Retention

Areas are the directories prune goes through, in its order. A generation goes by its
plan's name: a record contains its expected head, so it yields one generation. `rec` is
the content of records; `dir` and `disk` say which exist. `PreparePlan` checks what
`prepare_inner` checks under `maintenance.lock`, then publishes blob by blob and links
the record last; `CapturePack` and the publication of canonical objects are critical
sections of their own. `CommitBegin` checks what `commit_v1` checks under
`transaction.lock`, with the routine lineage depth; `PruneBegin` computes roots, closure
and removals, and refuses what `prune_store` refuses; `PruneUnlink` and `PruneSync`
remove in its order. Every record that is visible can be committed, also one whose fsync is
still to come; what such a commit relies on before it is durable is remembered in the
history variable `early`. `Recover` loads what `rollback_recovery` and `finish_recovery`
load (`RecoveryLoads`), and prune loads every record and generation with its objects, also
those it is about to remove.

### Inspection

An inspection stats every store directory, reads one part after the other and compares at
the end (`Stale`); `Report` is its answer as a function of what it has read. One area is
read in one step. A status that meets a journal compares the directories and the journal,
not the catalog (`StoppedByJournal`). Directory timestamps are taken to be fine enough that
a change is seen. The limits of a request end a reading early (`HitLimit`, `MaxFindings`).

### Lifecycle

`live` is what is on disk, `head` the catalog, `gens` the generations, `plans` the prepared
records. A state is a kind and a value; a value of `None` is a tombstone, which keeps its
kind as in `absent_target_state`. `Required` and `Mutation` are
`required_target_mutations_v1`; `Matches`, `ManifestValid`, `TransitionValid` and `Admitted`
are the checks that `validate_prepared_ownership_v1` makes for prepare and
`derive_owned_transition` for commit. `prepare_inner` looks at the targets twice, and so
does the model. `Drafted` is the first look, which each lifecycle command begins (`Begin`):
it asks for the required mutations, turns assertions of missing or modified targets into
placements (`Reconciled`) and notes what was modified (`Drifted`). `Plan` is the second,
which `Publish` makes in a step of its own: it observes the targets again (`Seen`), demands
coverage of missing ancestors and lists the approval-required findings. Between the two the
user may edit, and another process may commit. `Commit` applies a plan and drops the plans
it makes stale: `Fresh` says which changes of entries and contents the pinned identities of
a plan notice. The variable `edited` is a history variable for the properties: paths whose
present state is the user's.

Left out: trees, modes, aliases of target authorities, explicit removal and absence
requests, the history bound and pins (in `Retention`), and the target of a link the
user makes (links are taken to dangle when a file is read through them).

### StaticPrepare, Authoring, RichConfig

Sources are what the parsers return. `Authoring` walks the includes from the entry
(`walk`), lays overlays over the documents, resolves modules, types and profiles (`ws`),
checks the profile graph (`dfs`), linearizes the selected profile's ancestors (`lin`),
folds their items into module instances (`fold`), types the inputs and expands the
outputs. Diagnostics are codes; `check_module` of the command line is the operator
`Checked`. `RichConfig` keeps one record: the queue of captured documents, the stack of
the include walk, the declarations, the memo of variables with the set of active ones,
the statements still to do with their frames, the document and its provenance. Values
are tagged tuples, BTreeMap keys come in byte order (`Words`), and all budgets are
constants. Recursion inside one expression is a recursive operator that threads the
evaluator's state; everything longer is a step.

### PackLock, TrackedRoot, GitProcess

`PackLock`: an operation pins the root, takes its `flock`, reads the lock, captures the
root and every pack file by file, captures the local ones again, assembles the graph and
publishes through a staging name. An edit always writes a version never seen before. A
file is a version, a manifest the version of one of the files; `left` are the names a
capture still has to read, in the order of `Names`, and `todo` the packs that are still to
be captured again. A lock file has a number, its writer and the number of the lock it
replaces, which is what the properties compare.
`GitProcess` is one child under supervision: the polls of exit, deadline and scratch
size, the threads that drain the pipes, the kill of the process group and the joins.
`TrackedRoot` makes its Git calls in one step where races of two callers are the
question (`CallAtOnce`), and step by step in a scenario with one unruly child. The root's
canonical objects are published file by file and tree by tree, each under the lock of its
own; one file and one tree stand for them (`PublishFile`, `PublishTree`).

### Machine

A type is described once as data (`MachineTypes`), and the codec's encoders and decoders are
generic operators over the descriptions of the public model and the wire form, with the
conversions between them. The engine answers anything of the operation's type, or any error
class the adapter distinguishes. Its lists have up to `EngineItems` items, a record's
`ArrayItems`; `ShortVec` are the lists whose own limit is no larger than a record's. A
client writes a proper line or a damaged one, may hang up, and reads through the stream
validator.

## 3. Runs

A run's faults are bounded per scenario: most instances start from a set of scenarios,
each with its bounds on calls, deaths, losses of power, failed calls and edits.

| Run | Instance | Shows |
|---|---|---|
| `journal_file` | 2 operations, 2 identities, 1 digest, 2 faults of any kind | `LoadNeverRejects`, `AckedSurvives`; the files implement the register (`ImplementsRegister`); a journal goes away (`JournalGoesAway`) |
| `commit_cuts` | plans of all kinds, up to 4 operations, nested and mistakable ones too; 2 losses of power, 1 failed call | `RecoveryReady` for every journal on disk; always resolved (`Resolves`); implements `AtomicDeploy` (`ImplementsDeploy`) |
| `commit_deaths` | phased plans with 2 deaths and a failed call, canonical, nested and mistakable plans with 2 deaths, plans of all kinds with 2 edits and a death | `RecoveryReady`, `SettledAtomic`, `NothingLeftBehind`, `ForeignNeverDeleted` |
| `retention_roots` | 3 plans, histories of 1 and 2, restore points and pins; 2 deaths or 1 loss of power | the head keeps what it promises (`HeadKept`); some prune is accepted (`NeverWedged`) |
| `retention_objects` | 2 plans with artifacts, 1 pack, 2 blobs, a tree and its leaf; deaths or 1 loss of power | records are complete and manifests keep their members (`ClosureComplete`); some prune is accepted and journals are resolved (`NeverStuck`: `NeverWedged` and `JournalResolves`) |
| `inspection` | 2 plans, one built from a pack, one that places a tree of one file; every commit and prune; either one file that somebody else deletes and an fsck, or any other inspection | `ReportsAreSnapshots`, `CleanMeansSound`, `ShownIsRetained`, `PlacesKept` |
| `store_init` | 2 processes, 3 calls with a death or a loss of power, 2 calls with another program that moves or intrudes | `ReadyStays`, `StoresAreTold`, `CallsEnd` |
| `lifecycle` | 2 namespaces with requests for a link, a file two directories deep, a directory, and two files, at overlapping paths; 4 commits, 2 waiting plans, 1 edit | `ExclusiveOwnership`, `LedgerMatchesLive`, `NeverWedged`, `EditsNeedApproval` |
| `static_prepare` | seven families of sources: authoring workspaces (profile graphs, writes, slots, patches, programs, includes, overlays, fragments), include graphs over two packs, rich profile graphs with outputs and slots, variables that name each other, pairs and triples of patch operations, blocks of loops, conditions and fragments, and choices of profile and dialect; among the workspaces, siblings that write or patch one input | `LayersSound`, `CheckedModulesExpand`, `RejectedForCause`, `Explained`, `Terminates` |
| `packlock` | a root, a local and a Git pack of up to 3 files, with a manifest that selects all, some, or asks for its own pack; 2 operations of 2 processes; 2 edits, or 1 edit with a death or a loss of power | `LocksReliable`, `PublishedByItsWriter` |
| `tracked` | 2 callers, a branch that goes forward and back, a lock that gains a dependency from elsewhere; updates against updates, re-tracking, disabling and pruning; one scenario with an unruly child | `UpdatesLinearize`, `GrantsNeverWiden`, `CallsAreConfined`, `CallsReturn` |
| `machine` | every operation with samples of every field's values, damaged lines, oversized answers, lists longer than a record's, a client that hangs up | `RequestHonoured`, `ReplyUnderstood`, `Answered` |

Why the bounds are enough for the cases: two or three operations give every pair of kinds
that share a schedule, and a rollback that is half done; two deaths give a recovery that is
interrupted and repeated; a failed call and a fault give a live rollback that is
interrupted. A death *followed by* a loss of power is what the second list below is about,
so the two are bounded separately in the passing runs. Three plans give a history of two
with one generation to prune; a pin whose own restore points are gone (`LostPin`) needs a
fourth, which was tried apart from the runs. Histories of one and two make it shrink and
grow. Two waiting plans are what a race of prepare and commit needs, four commits give
deploy, redeploy, checkout and disable, or a deployment of each namespace and a late commit;
directories are nested two deep, so that one can be given up inside another that is still
owned, and one path is independent. Three calls of two processes give two initializers that
race and a third call that finds what they left; two tries for `maintenance.lock` are the
least at which a publisher tries again and at which it gives up. The sources of
`static_prepare` are small, but every refusal of the rich evaluator and every budget is
reached by one of them; a diamond of four profiles is the smallest graph in which siblings
conflict and a common descendant decides. The branch of `tracked` comes back to its first
commit, so that an update that compared revisions instead of heads would be fooled. In
`machine` frames are cut down until an artifact does not fit one, and the engine's lists are
one item longer than a record's.

Deadlock is checked for `JournalFile` and `StaticPrepare` only: elsewhere a process acts
on request, and a bounded number of faults and calls is used up.

Fairness. `Work` of a process that holds the lock, repeated `Recover` while a journal
exists, and the restart of a dark machine are weakly fair: the process runs to its
end unless it dies, and the user runs `malm recover` because every other command
refuses with that advice. Nobody has to begin a commit, a prune or a prepare, and no
fault has to happen. `Resolves` excludes `UnidentifiedStaging`, the fail-closed limit
that the contract states (for directories; symlinks and trees share it), targets that
another program has changed, which recovery refuses to touch, and targets that are
mistaken for others (below). In `StoreInit` and `TrackedRoot` a process in a call takes
its next step unless it waits for a lock or a child (written as *it waits again and
again or it moves again and again*, which is weak fairness of its steps); the deadline of
a child passes eventually, and a killed child ends. In `Machine` the adapter goes on
unless its pipe is closed, and the client reads. The evaluators are one thread that never
waits.

### Disagreements with the documentation

What a comment or a document says of the code and the code does not do. Three are stated as
definitions beside the properties that hold. They are in no run; put in place of those in the
cfg named, TLC finds each of them violated within a minute:

* `DiscardsNeedApproval` (`MCLifecycle.cfg`): local modifications are looked for when
  `reconcile_local_modifications` reads the file (`prepared_store.rs` 527), and the plan is
  bound to what `observe_target` finds later (2298). A file that the user writes in between
  is the one the commit expects, and it is replaced or removed without approval, while the
  comment at 2107 says that discarding content malm did not write always requires approval
  (and `contract.md` 254-259 that every replacement of something present does).
  `EditsNeedApproval` is the part that holds; see also *approvals* below.
* `SiblingsAgree` (`MCStaticPrepare.cfg`): the conflict of sibling profiles is looked for among
  `with` layers only (`resolve.rs` 1555); patches are applied in the order of the chain
  (1726), so of two sibling patches of one input the later parent's wins, and swapping the
  parents changes the value. `profiles-patches.md` 142-144 says that malm asks for a
  resolution if siblings assign different values. `LayersSound` demands that the value does
  not depend on the order of parents where every writer is a `with` layer, and that a
  patched input has the value of some order of its layers that respects inheritance (the
  only one when no two of them are siblings).
* `AlwaysAnswered` (`MCMachine.cfg`): the engine's lists may be longer (16,384 to 65,536 items,
  `malm-store/src/lib.rs` 85-145) than a record's (`MAX_MACHINE_ARRAY_ITEMS`, 4,096). The
  encoder's self-check then fails with an error that is not a resource limit
  (`codec.rs` 292) and the process ends without a terminal record (`src/cli/machine.rs`
  76-80), against `protocol.md` 124-128 and `cli.md` 270. `Answered` is the part that holds:
  every other request that is read is answered.

The rest were reached by TLC in the module named, with the bounds or the property changed as
described.

* `Commit`, a failed call between `mkdirat`/`symlinkat` and `record_created_identity`
  (`target.rs` 1188): the live rollback skips the target because its record is empty and
  removes the journal; the staging name stays and blocks the plan. The comment in
  `rollback_targets` (`lib.rs` 3989) argues from files, whose inode is anonymous.
  `NothingLeftBehind` fails for `<<link>>` with one failed call.
* `Commit`, a target below a missing ancestor: `PinnedTarget.parent` is then the deepest
  ancestor that exists, and the assertion of absence, the checks of a removal and the
  rollback look the leaf's name up there. A namesake in that directory makes an
  assert-absent commit fail and its rollback fail too, so that the journal stays until the
  namesake is moved; a removal can never be committed; and recovery of a nested link whose
  directory was removed already refuses (`target.rs` 1339, 1489). The comment at `lib.rs`
  752 says that the missing ancestor proves the leaf absent. `Resolves` holds only with
  `Mistaken` excluded.
* `Commit`, a death and a loss of power: recovery rolls forward on a catalog whose exchange
  was never synced and deletes the backups (`lib.rs` 3681); the power loss then selects the
  previous catalog (`contract.md` 507, `architecture.md` 95). `PriorPreserved` fails for
  `<<file>>` with one of each.
* `Retention`, a pack is published in one critical section and its record in another; a
  prune in between removes the pack (`prepared_store.rs` 180, `contract.md` 535). The same
  window exists for the tree of a tracked root, which is published unreferenced
  (`TrackedRoot`).
* `Lifecycle`, checkout: a slot was a file, then absent, then a link, then absent. Its
  tombstones differ in kind, which `required_target_mutations_v1` takes for a removal
  of something absent: the retained generation cannot be checked out (`ownership.rs` 575,
  `contract.md` 242).
* `Lifecycle`, approvals: local modifications are looked for where a file was deployed and
  a file is placed or the leaf removed. What the user put in place of a managed link is
  replaced or removed with an advisory finding; so is an edited file that the new
  configuration makes a link (`prepared_store.rs` 700 against 2107). `Unexamined` names these
  cases; `EditsNeedApproval` and `DiscardsNeedApproval` leave them out.
* `TrackedRoot`: a dependency that the store had when the scratch roots were checked, and
  that a prune removes before it is loaded, makes `acquire_graph` panic at its
  `expect("missing dependency scratch was preflighted")` (`tracked_update.rs` 687).
  `graph_acquisition.rs` 13-50 avoids this.
* `TrackedRoot`: `prepare` reads the head after it has acquired (`tracked_update.rs` 441), so
  tracking a root again may install an older revision over a newer update. Nothing says it
  may not; `UpdatesLinearize` is about updates.
* `Machine`: `request.schema.json` requires `expected_head` and `archive_provenance`, which the
  decoder does not.
* `Authoring`: some writings are dropped without a diagnostic, because
  `evaluate_authoring_profile_v1` never runs `check_module`, which only the command line's
  check does: a `set` below an input that is no record (`typecheck.rs` 2316), `@for-each` over
  something undefined (`expand.rs` 494), a fragment of another cardinality (`expand.rs` 1001).
  The comment at `expand.rs` 115 takes type checking for granted. Overlays may carry fragment
  operations in `replace` items (`workspace.rs` 208-280 says they are rejected). A loop
  variable that shadows a refined name keeps the refinement (`typecheck.rs` 212-270; excluded
  from `CheckedModulesExpand` by `NoCapture`). Directory outputs take no part in the detection
  of destination conflicts (`compile.rs` 249-277).
* `PackLock`: the comment at `model.rs` 588 says manifest and lock are always captured; the
  walk skips `malm.lock`. `capture_pinned_with` takes its allowlist from a manifest it reads
  ahead of the walk (`pack_capture.rs` 111), and the walk reads the manifest again: a file
  that an older manifest left out, and that is removed before the second capture reads it, is
  missing in a lock whose manifest selects it, and both captures agree. `SnapshotOf` allows
  for this one case (`Narrowed`); the attempt to prove the property without it showed it.
* `Inspection`: a status that meets something it cannot load answers *incompatible or
  corrupt* without the final comparison, so a commit and prune in between may be reported as
  damage instead of staleness; fsck warns of blobs that are not retained though retained packs
  have them as members; a history makes no final comparison at all.
* Observed cache (not modelled): `record_observed_identities` stats the target after the
  catalog is published (`lib.rs` 4868-4979), so a same-size edit between verification and
  that stat is recorded with the committed digest (against the comment at 4737-4745).

More behaviours of the same sort show up when a scenario allows a death and a loss of
power together (a kill leaves a directory operation visible but not durable, and the
next process takes what is visible for durable), or more plans:

* `SettledAtomic`, plan `<<remove>>`: rollback of a removal returns without fsync when
  it finds the leaf in place (`target.rs` 1987-2003).
* `StagingNeedsJournal`: `remove_catalog_staging` returns without fsync when the
  staging entry is gone (`lib.rs` 5048-5056); after the power loss it is back, and
  there is no journal any more.
* `RecordComplete`: a cache hit on a blob that a dead process linked and did not sync
  (`prepared_store.rs` 2758-2771). The same holds of canonical objects: a prune, a
  publication that was not synced, a commit and a loss of power leave a head whose tree
  is gone.
* `HeadKept` and `JournalResolves`, with a loss of power alone: a record that is linked and
  not synced is committed, and the plan of the head or of the journal is lost
  (`prepared_store.rs` 2876). Both properties name it (`early`, `LostUnsynced`).
* With deaths alone: prune removes member blobs before manifests, so a prune that dies
  leaves a manifest without members (`doomed`), which the next capture reuses.
* With four plans: a pinned plan's own restore points are not verified
  (`lib.rs` 1409-1429), so an interrupted prune and a later pin leave a store in which
  that plan can neither be restored nor pruned. This, the manifest above, objects that were
  pruned before the record that needs them was published, and records lost unsynced are the
  four ways in which a store comes to refuse every prune; `NeverWedged` of `Retention` says
  that there is no other (`Crippled`).

* `Lifecycle`, directories that a checkout or a new deployment gives up: the comment at
  `ownership.rs` 511-514 says of a directory that is released that a later transition can
  remove it. Once released it counts as absent, and no transition mentions it again. If
  `a/b` is released while `a` stays owned, and `a` is left without an effective target below
  it, then `a` cannot be removed (`a/b` is in it), and every disabling and removal of the
  namespace is refused until somebody removes `a/b` by hand. `NeverWedged` says that this
  (`Encumbered`) is the only obstacle to disabling and removal; an earlier statement, that
  there is none, held of a smaller instance and fell to the attempt to prove it.

Refusals rather than disagreements: a user's file in a directory malm made blocks the plan
that would remove the directory, and a rollback leaves such a directory under its quarantine
name; a managed file `a` that the user deleted cannot become a directory with `a/b` in one
step, because `EnsureDirectory` of an owned slot demands that something is there; enabling a
namespace is refused when a directory another one left behind is where a file or an empty
directory belongs, or when a directory that it relied on and did not make is gone
(`Obstructed`).

`JournalFile` has no such behaviour: `remove_journal` and `replace_journal` sync
before they rely on what they find, and its run mixes both kinds of fault.

## 4. Proofs

`JournalFileProofs` proves, for any operations, identities, digests, transactions and
any number of faults:

* `TypeCorrect`: `Spec => []TypeOK`.
* `LoadSafe`: `Spec => []LoadNeverRejects`.
* `AckedSafe`: `Spec => []AckedSurvives`.
* `FilesImplementRegister`: `Spec => ImplementsRegister`, the refinement that `Commit`
  relies on.

Assumptions: `JournalConstants` and `NoJournalIsNone`, which only say that the
"nothing" values are no journals and no identities; TLC evaluates both.

The invariants are not inductive by themselves. `IInv` adds `Position` (while a
process is in the middle of the protocol, its place fixes the two entries in terms of
`acked` and `next`, and orders them by `Progresses`) and `Provenance` (as long as
something is acknowledged, every directory state on disk consists of `acked`, `next`
and nothing, and is not empty). `Provenance` is what survives a fault: after it, the
position is unknown but the entries' origin is not. `LoadNeverRejects` then says the
two are ordered whichever way round they lie. The proof has one step per action.

`LifecycleProofs` proves four theorems, for any namespaces, paths and requests and any
number of commits, plans and edits. Its assumptions are `NoneIsNoGeneration`, `Contents`
(what the user writes is in no configuration, which is how the model tells whose a file is)
and `Declarations` (a configuration declares states, and there is one kind of directory).

* `ExclusiveSafe`: `Spec => []ExclusiveOwnership`. `IInv` adds `History` to the property:
  heads select generations that exist, and the history is a sequence, so that a commit
  changes no generation that was published before. A commit then changes the claims of one
  namespace only, to those its plan was compared for with every other head (`NoConflict`).
  Nothing is needed about the plans that wait: a plan prepared against other heads is
  harmless because the comparison is made again under the lock.
* `LedgerSafe`: `Spec => []LedgerMatchesLive`. Here the plans that wait do matter: `Pinned`
  says that what such a plan saw at its targets is still there, which holds because commit
  revalidates every pinned target, that is, `Fresh` drops a plan when anything it saw
  changes. `Mutations` and `AppliedAt` give what a commit leaves at each path; with
  exclusive ownership, no path of another namespace is among those it changes.
* `EditsSafe`: `Spec => EditsNeedApproval`, an action property. `Ours` says that no
  generation and no waiting plan holds the user's content, `Theirs` that a path the user
  changed last still shows the user's state, `AllFlagged` that a waiting plan has the
  findings it needs wherever its two looks saw the same, and the draft likewise notes what
  its first look found modified. The property is about files written before a preparation
  began or after its second look, at slots where malm deployed a file that stays a file or
  goes, or deployed nothing: the rest is `DiscardsNeedApproval` and *approvals* in section 3. A
  commit of a plan that replaces an edited file without a finding would then have seen
  something else than what is there.
* `WedgeSafe`: `Spec => []NeverWedged`, an equivalence: where the user changed nothing,
  removing, disabling and enabling a namespace work exactly when nothing is in the way that
  the property names. `WedgeInv` is the ledger's invariant with `AllProper`: every generation
  and every waiting plan is a valid snapshot, its restore points exist and belong to its
  namespace, and a disabled generation has no targets and restores an enabled one. The
  lemmas compute the three plans: a transition to nothing asks for the removal of exactly the
  claims in `Goes`, enabling asks for a placement at every claim, and the ledger decides what
  prepare finds at each (`LivePath`, `WayOpen`, `HoldsDirectories`). Each guard of prepare and
  commit is then shown to fail under `Encumbered` or `Obstructed` and nowhere else.

An attempt also showed that two arms of the `CASE` in `Mutation` overlapped (a path that
is absent before and after); TLC took the first, as the code does, and the guard now says so.

`CommitProofs` proves, for every plan of any length (all kinds of operation, any
mixture of directories that exist, that the plan makes and that are missing):

* `RecoverySafe`: `FaultsApart => (Spec => []RecoveryReady)`, that is `WriteAhead`,
  `PriorPreserved`, `Recoverable` and `StagingNeedsJournal`.
* `AtomicSafe`: `FaultsApart => (Spec => []SettledAtomic)`.
* `ForeignSafe`: `FaultsApart => (Spec => ForeignNeverDeleted)`, an action property.
* `BehindSafe`: `FaultsApart /\ CallsApart => (Spec => []NothingLeftBehind)`: the journal is
  removed only when every staging name, backup and quarantine name of its transaction is
  gone, at the targets that somebody else changed too.
* `CommitImplementsDeploy`: `PowerOnly => (Spec => ImplementsDeploy)`, the refinement of
  `AtomicDeploy`.

Assumptions. `CommitConstants` says that plans are plans (nonempty, and covered: an
operation below a directory of the plan comes after it), which commit validates; TLC
evaluates it. `FaultsApart` says that a scenario has losses of power, or deaths and edits,
not both; failed calls are allowed in either, and each fault any number of times. It is not
a convenience: with a death before a loss of power, or an edit before one, the theorems are
false, and section 3 describes the code's behaviour (recovery takes what it sees for
durable). Both scenario sets of `MCCommit` satisfy it. `CallsApart` says that a scenario has
no failed call that commit handles, or that its plan has no directory, symlink or tree;
deaths and losses of power are free. Without it `BehindSafe` is false, which is the first
disagreement of section 3; the scenarios of `commit_deaths` satisfy it. `PowerOnly` is
`FaultsApart` without deaths and edits, the instance in which the run checks the refinement:
a recovery that finds the staged catalog already gone does not sync the directory before it
removes the journal, so after a death the decision can be visible and not yet durable when
the transaction closes (`done` stays false); an edit changes what is shown at a target,
which `AtomicDeploy` has no step for.

The inductive invariant `IInv` is about `Left(o)`, the listings of a target's directory that
the faults still to come can leave (all of `disk[o]` while power may be lost, what is there
otherwise), together with every journal in `jdur` and every catalog in `cdur`: a property of
the visible state only is not preserved by a loss of power. Its parts:

* `Base`: types; the faults that are left are apart; where the process is
  fixes what it knows of its journal (`Controlled`), which operation of the schedule it is
  at (`Scheduled`) and what the catalog and its staging entry may be (`Selected`).
* `Accepted`: every journal that may come back is legal, and complete if a catalog that may
  come back selects the next generation. `Covering`: every listing is covered by every
  journal, which is `WriteAhead` for all pairs.
* `Named`, `Mine`: which of a target's names can be in use together; where nobody else was
  there is only what was seen or made.
* `Preserving`, `CreatedFirst`: while some catalog on disk still selects the previous
  generation, the prior object is at its leaf or backup in every listing, and a leaf of the
  transaction has its identity in every journal. The rollback needs both.
* `Compared`, `Applying`: what the process has compared or recorded for the operation at
  hand still holds at the call it is for, and the operations ahead are untouched.
* `Housed`, `Synced`: entries in a directory the plan makes exist only while the directory
  does; backups are on disk before what replaces them is placed.
* `Undone`, `Finished`, `Done`, `Verified`, `Closed`: what a rollback or a finish has behind
  it is tidy; before the journal goes all of it is; the targets are what the plan makes of
  them by the time a catalog may say so, and what they were once the journal is gone under
  the previous catalog.

A direct proof would have a case for each of about sixty action outcomes and each part.
Instead every step is shown to be of one of some fourteen *shapes* that say which names of which
one target change, how its directory on disk follows and which facts the guard has
established (`Turned`, `Shape`); the parts are then preserved by shape. `ForeignSafe` adds
`Room` (the names the code renames to are free when it does, so no rename overwrites), and
`CommitImplementsDeploy` adds `Lit` (between losses of power the catalog is on disk, and a
journal that may turn out not to exist is one that was only just published).

`BehindSafe` adds `Sweeping`, which follows the three private names that `IInv` does not need
to know of, in every listing that may be left. `Fitting` says which operations use them at
all; `Shelving` that no backup is in quarantine while recovery may still roll back, and
nothing created is once it may roll forward; `Identified` that what is staged has its
identity in memory before a rollback can begin (the only exception is the entry named by
the last call, and there `CallsApart` is used); `Discarded` and `Dropped` that what a
rollback or a finish has behind it is gone from these names, or goes with a directory that
is in quarantine; `Emptiness` that nothing is left before the journal goes and whenever it
may be gone.

`RetentionProofs` proves `ClosureSafe`, `FaultsApart => (Spec => []ClosureComplete)`, for any
plans, packs, blobs and objects: `RecordsWhole` and `ManifestsWhole` state the property for
every pair of directory states that may be left, `Publishing` says what an unfinished
publication has synced, `Pruning` that what prune is still to remove is named by nothing that
stays, and `Settled` that a directory nobody is changing is on disk as it is. `FaultsApart`
is again deaths or losses of power, and again needed (`RecordComplete` in section 3).

It also proves `HeadSafe`, `OneCut => (Spec => []HeadKept)`, for every
retention count and any plans. `HeadInv` adds that a generation comes after its record and
goes before it (`GensRecorded`), that every state on disk holds what the head, the journal
and the commit under way need (`HeadHeld`, `JournalHeld`, `CommitReady`) and that prune
spares it (`PruneSpares`). A commit may begin with a record that is not on disk yet, so
`Begun` counts the records in `early` as there; `HeadKept` has the same exception, which only
lasts until the fsync. `Lineage` follows predecessors a number of times; two records
functions that agree along a chain give the same lineage, by the least index at which they
would differ. `OneCut` is stronger than `FaultsApart`, and TLC shows that it has to be: a
loss of power in the middle of a prune can leave a record whose pinned plan is gone; when
that plan is prepared again and the record is committed before the new link is synced, a
second loss of power takes the pin from the head (`PinsHeld` is stated for the time before
the first loss).

Of `Inspection` it proves, for any inspections, any limits and any removals by other programs:

* `SnapshotsSafe`: `OneCut => (InsSpec => ReportsAreSnapshots)`, an action property.
* `CleanSafe`: `InsSpec => CleanMeansSound`, under all faults.
* `ShownSafe`: `InsSpec => ShownIsRetained`, under all faults.
* `PlacesSafe`: `NoCuts => (InsSpec => []PlacesKept)`, deaths allowed.

The first three rest on `InsInv`: types, the control of the writers (`Working`), what is known
of written records (`Known`), and `Current(Now)`: an inspection under which no directory it
compares has moved has read, part for part, what is there now. Every step either touches such
a directory, which the inspection notices at its end, or leaves `Now` as it is. The
description of a namespace compares the catalog alone; that its answer is nonetheless the one
of now needs `HeadKept`, hence `OneCut`, and nobody else's removals. For `CleanSafe`, the
marks of an fsck that misses nothing are closed under references, so they contain the closure
that a prune and a commit compute; closures are functions of a number of steps, and a finite
`Tree` (`RetentionConstants`) makes them stop. An earlier statement promised the commit of
every plan for the selected generation; the attempt showed that a plan that keeps a longer
history than there is left is refused although the store is clean, so the property now names
that bound. For `ShownSafe`, what an inspection shows is computed from the head as prune
computes its roots. `PlaceInv` adds to `HeadInv` that the objects of retained generations and
pins load (`PlacesHeld`), that a commit under way has loaded its own (`PlacesReady`) and that
prune spares them (`PlacesSpared`). `NoCuts` has to be there: a prune takes a leaf between
its publication and that of its tree, a plan that looks only for what it places directly is
prepared, the leaf is linked again, not synced, the commit loads everything, and then power is
lost. This is the unsynced cache hit of section 3. `InspectionConstants` are the bounds' types.

`StoreInitProofs` proves, for any number of processes and calls and with deaths, losses of
power and interference in any order and number:

* `ReadySafe`: `Spec => []ReadyStays`.
* `ToldSafe`: `Spec => []StoresAreTold`.

The invariant `Inv` has a part for whatever others do: types, the other program's directory
as it was (`Untouched`), and which places a call can be at with that directory pinned
(`Placed`: it is given up before anything is written). The rest holds until somebody
interferes. `World`: in the directory and in each of the states a loss of power can leave of
it, descriptor, lock, `state/` and catalog come in this order, so no call meets a state it
takes for damage. `Rooted`: the root a call has pinned is the root, with every name the call
has seen or made. `Inspected`: what an inspection found is still so, and it starts over at
most once for each name that appears, which is why three and 32 attempts suffice. `Durable`:
once a store is announced, no state a loss of power can leave lacks its root, its `state/`
or its catalog; the last inspection of an initialization already has that behind it. Every
step of a call only adds to the directories and only narrows what is left to lose (`Grown`),
so what the other calls know survives it (`Survives`); the proof has one lemma per action. A
publisher that finds `maintenance.lock` held and gives up has answered nothing, and
`ReadyStays` does not count its *PublicationBusy* as an answer. The assumption
`StoreConstants` is that directories, the other program's directory and no directory are
told apart, and that there are more than one attempt for the descriptor and more than three
for the layout (the code has 3 and 32), and at least one for the lock.

`TrackedRootProofs` proves, for any number of processes, any branch, locks, grants and
limits, and children that follow any script, step by step or taken for their outcome:

* `CallsSafe`: `Spec => []CallsAreConfined`. `Good` is kept by every step of the child, its
  helper, the draining threads, the worker and the calling thread. Its core is `Metered`: a
  drained stream that is over its limit has its bit set in the same step, a fetch whose exit
  status counts was measured with the group dead, and the worker ends its stream only with
  nothing left to read or with an error. `Dead` says that the group is killed before the
  threads are joined, and that no thread outlives the call.
* `LinearSafe`: `Spec => []UpdatesLinearize`. For every update that has resolved its
  selector there is a number between the head it started from and the head of now such that
  both that head and its revision were current at one moment of the call (`Resolved`). When
  the head is found to be the one it started from, the interval has one member.
* `GrantsSafe`: `Spec => []GrantsNeverWiden`. The history stays `Legal`: each generation is
  of a root whose sources its grants cover, and one an update made has the grants of its
  predecessor, because an update takes them from the head it expects (`Based`), checks the
  lock against them before it goes on (`Covered`) and commits at that head only. The last
  initial prepare then has the same grants as every generation after it (`ConsentKept`).

Its assumptions are `GitConstants`, `TrackedConstants` and `ScenarioHistories`: the history a
run starts with is one that prepares and updates make.

`PackLockProofs` proves, for any packs, names, manifests, limits and number of processes, and
for edits, moves of directories, deaths and losses of power in any order and number:

* `LocksSafe`: `Spec => []LocksReliable`, that is `LockIsSnapshot` and `CutsAreHarmless`.
* `PublicationSafe`: `Spec => PublishedByItsWriter`, an action property.

`CapturesInv` is about what an operation has read, compared with the pinned directory now
(`Cur`) and at the instant between the first and the second captures (`snap`). Versions only
grow, so a file that shows the captured version at the second reading has shown it in
between; what has to be carried along is the other direction. `Again` says, of a source whose
second capture has not begun, what it can still show if it is to agree with the first;
`Rereading` says the same in the middle of the walk, with the files already read and those
still to be read told apart, and with the manifest that decides which names are looked at;
`IsSnapshot` is what remains when the two captures are found to be equal. All of it is stated
for sources that are still on their path (`OnPath`): a directory that was moved away is
found out by the revalidation of its pin. `PublishInv` is about the files: one operation per
directory (`Exclusive`, the flock), numbers that grow (`Numbered`), every state on disk at
least as new as what was acknowledged (`DirInv`), and for each step of the publication what
the staging name and `malm.lock` hold (`HeldInv`). `VerifyPublished` acknowledges what it
has compared; before that, nothing it has written counts as acknowledged. The assumptions
are `PackGraphConstants` and `PackLockConstants`: the lists of names and sources are lists
of all of them, a Git tree is a pack, and nothing is told apart from something.

Inductions over the operations of a plan, along a lineage or along a history use `Least` of
`NatLemmas` (every nonempty set of numbers has a least element, from the library's theorem
that the strict subset order on finite sets is well-founded): the least operation for which
a claim fails is compared with the one before it.

Only model-checked:

* every liveness property (`Resolves`, `JournalResolves`, `JournalGoesAway`, `CallsEnd`,
  `CallsReturn`, `Terminates`, `Answered`): fairness is outside the prover's reach;
* everything about the evaluators, the codec and the other modules with recursive operators
  (neither induction over data nor `RECURSIVE` is in its reach);
* `Retention`'s `NeverWedged`: that `Crippled` lists every way in which a store comes to refuse
  all prunes is checked for the instances of the two retention runs only, and with four plans
  apart from them.

## 5. Not modelled

* Text: parsers and printers of both dialects and of the output formats, JSON syntax, tar
  and compression. They transform characters and keep no shared state.
* WebAssembly components: fuel, epochs and memory are the runtime's.
* The human command line and progress events: presentation.
* Path safety (descriptor-relative lookups, mount identities, modes and owners): it
  establishes the pinned directories the models start from.
* The observed cache; the descriptor budget of a commit (`lib.rs` 1990); the
  materialization of a tree member by member.
* Profile switches and the reuse of prepared results; explicit removal and absence
  requests; generation, blob, pack and canonical pins; several namespaces in `Retention`.
* Of the rich dialect: the preflight of source ranges and byte lengths (`rich_eval.rs`
  366-735), supplied variables (the engine supplies none), the reachability of authorities,
  size limits of documents, transforms and formats.
* Of initialization: collisions of random staging names (32 tries). Of Git: the content of
  its answers, a kill that fails, the growth of a scratch repository during `init`.

## 6. Plan

1. `ObservedCache`: the identity recorded against the content that was hashed.
2. `Commit`: the descriptor budget as an operator, trees member by member.
3. `Lifecycle`: explicit removal and absence requests, profile switches, the history bound
   as a guard of checkout.
4. `Retention`: the other pins and several namespaces.
