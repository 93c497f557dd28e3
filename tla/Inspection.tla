----------------------------- MODULE Inspection -----------------------------
(***************************************************************************)
(* The read-only inspections of a store (inspection.rs) beside the         *)
(* processes of Retention.  An inspection takes no lock: it stats every    *)
(* store directory, reads one part of the store after the other while the  *)
(* others work, and looks at the end whether a directory, the catalog or   *)
(* the journal has changed since.  Its answer is a function of what it has *)
(* read.                                                                   *)
(*                                                                         *)
(* An area of the store is read in one step; what an inspection has seen   *)
(* of a store that changed under it, and how far it has got, is not kept,  *)
(* as its answer is stale or an error.  Records are content addressed: one *)
(* that is there has the content rec gives.  The observation of targets is *)
(* left out.                                                               *)
(***************************************************************************)
EXTENDS Retention, Sequences

CONSTANTS Scenarios,   \* bounds: which inspections run, how many files are lost
          MaxFindings  \* FsckRequestV1::max_findings

VARIABLES ins,  \* the inspection: its kind, its subject, what it has read
          lost, \* history: whether somebody else has unlinked something
          rots, \* bound: how many names may still be unlinked
          kinds \* bound: the inspections of this behaviour

insVars == <<ins, lost, rots, kinds>>

Kinds == {"fsck", "status", "namespace", "history", "inventory", "details", "snapshot",
          "tree", "objects"}

ASSUME InspectionConstants ==
  /\ MaxFindings \in Nat \ {0}
  /\ \A s \in Scenarios : s.rots \in Nat /\ s.kinds \subseteq Kinds

-----------------------------------------------------------------------------
\* What an inspection can have read of the store.
Unread == [jrn |-> None, head |-> None, lineage |-> TRUE, plan |-> {}, gen |-> {},
           blob |-> {}, pack |-> {}, whole |-> {}, obj |-> {}, limited |-> FALSE]

NoInspection == [kind |-> "none", of |-> None, at |-> 0, moved |-> FALSE, seen |-> Unread]

\* The parts each inspection reads, in its order.
Reads(kind) ==
  [fsck      |-> <<"journal", "catalog", "lineage", "plan", "gen", "blob", "pack", "obj">>,
   status    |-> <<"journal", "catalog", "gen", "plan", "obj">>,
   namespace |-> <<"catalog", "gen", "plan">>,
   history   |-> <<"catalog", "gen", "plan">>,
   inventory |-> <<"catalog", "gen", "plan">>,
   details   |-> <<"catalog", "gen", "plan">>,
   snapshot  |-> <<"gen", "plan">>,
   tree      |-> <<"obj">>,
   objects   |-> <<"blob">>][kind]

Subjects(kind) ==
  IF kind \in {"details", "snapshot"} THEN Plan ELSE IF kind = "tree" THEN Tree ELSE {None}

-----------------------------------------------------------------------------
\* Lineages, in a store w as it was read.

\* A mutant: history ends one generation later.
HistoryOneMore(w) == IF w.head = None THEN {} ELSE Lineage(w.head, Keep(w.head) + 1)

\* The generations the selected one keeps as history.
History(w) == IF w.head = None THEN {} ELSE Lineage(w.head, Keep(w.head))

\* validate_catalog_lineages with LineageDepth::Full, and Routine.
FullLineage(w) == History(w) \subseteq w.gen \cap w.plan

RoutineLineage(w) ==
  w.head # None =>
    /\ w.head \in w.gen \cap w.plan
    /\ LET prev == rec[w.head].prev IN
       Keep(w.head) > 1 /\ prev # None =>
         prev \in w.gen /\ (Keep(prev) = Keep(w.head) \/ FullLineage(w))

\* The chain walk_generation_root follows from g, which ends at the first
\* generation that is missing.
Chain(g, n, w) ==
  LET back[i \in 0 .. n - 1] ==
        IF i = 0 THEN g
        ELSE IF back[i - 1] \in w.gen THEN rec[back[i - 1]].prev ELSE None
  IN {back[i] : i \in 0 .. n - 1} \ {None}

-----------------------------------------------------------------------------
\* fsck_v1: the authority validate_authority works out, and its findings.

\* Whose retention authority counts: the selected generation, every record.
Authoritative(w) == ({w.head} \cap w.gen) \cup w.plan

PointRoots(w) == UNION {Points(p) : p \in Authoritative(w)}

\* validate_journal_authority: the journal's plan, the generation before it,
\* and its own if it has been published.
JournalGens(w) ==
  IF w.jrn = None THEN {}
  ELSE ({rec[w.jrn].prev} \ {None}) \cup ({w.jrn} \cap w.gen)

\* All generations the walks come across, and the ones of them that are there.
Walked(w) ==
  (IF w.head \in w.gen THEN Chain(w.head, Keep(w.head), w) ELSE {})
    \cup (PointRoots(w) \cap w.gen) \cup JournalGens(w)
Reached(w) == Walked(w) \cap w.gen

RootPlans(w) ==
  w.plan \cup UNION {Pins(p) : p \in Authoritative(w)} \cup ({w.jrn} \ {None})

\* record_prepared_dependencies, record_generation_dependencies.
Holders(w) == (RootPlans(w) \cap w.plan) \cup Reached(w)
RootBlobs(w) == UNION {Artifacts[p] : p \in Holders(w)}
RootPacks(w) == UNION {Packs[p] : p \in RootPlans(w) \cap w.plan}

\* A mutant: the trees themselves are looked for, not what they list.
MarkedUnwalked(w) == UNION {Places[p] : p \in Holders(w)}

\* mark_canonical_tree: what a tree that is missing lists is not known.
Marked(w) ==
  LET mark[n \in 0 .. Cardinality(Tree)] ==
        IF n = 0 THEN UNION {Places[p] : p \in Holders(w)}
        ELSE mark[n - 1] \cup UNION {Entries[t] : t \in mark[n - 1] \cap (w.obj \cap Tree)}
  IN mark[Cardinality(Tree)]

Finding(code, names) == {<<code, n>> : n \in names}

MissingGenerations(w) ==
  ({w.head} \ {None}) \cup PointRoots(w) \cup Walked(w)

\* validate_authority.
ErrorsOfAuthority(w) ==
  UNION {Finding("MissingGeneration", MissingGenerations(w) \ w.gen),
         Finding("MissingPreparedPlan", (RootPlans(w) \cup w.gen) \ w.plan),
         Finding("MissingArtifactBlob", RootBlobs(w) \ w.blob),
         Finding("MissingPackObject", RootPacks(w) \ w.whole),
         Finding("MissingCanonicalObject", Marked(w) \ w.obj)}

WarningsOfAuthority(w) ==
  Finding("UnreachableImmutableObject",
          (w.gen \ Reached(w)) \cup (w.blob \ RootBlobs(w))
            \cup (w.whole \ RootPacks(w)) \cup (w.obj \ Marked(w)))

\* What load_journal, load_catalog and load_packs find; the authority is
\* validated only if the inventory is complete.
ErrorsOfLoading(w) ==
  UNION {Finding("RecoveryRequired", {w.jrn} \ {None}),
         IF w.lineage THEN {} ELSE Finding("InvalidCatalog", {w.head}),
         Finding("CorruptPackObject", w.pack \ w.whole)}
Errors(w) ==
  UNION {ErrorsOfLoading(w),
         IF w.limited THEN Finding("TraversalLimitExceeded", {None}) ELSE ErrorsOfAuthority(w)}
Warnings(w) == IF w.limited THEN {} ELSE WarningsOfAuthority(w)

\* FsckScan::finding and finish: beyond the limit findings are left out, and
\* the report says so.
FsckReport(w) ==
  LET cut == Cardinality(Errors(w) \cup Warnings(w)) > MaxFindings
  IN [is |-> IF Errors(w) = {} /\ ~cut THEN "complete" ELSE "incomplete",
      shows |-> IF cut THEN Finding("FindingLimitExceeded", {None})
                ELSE Errors(w) \cup Warnings(w)]

-----------------------------------------------------------------------------
\* The other answers.
Shown(names) == [is |-> "shown", shows |-> names]
Failed == [is |-> "failed", shows |-> {}]
When(ok, names) == IF ok THEN Shown(names) ELSE Failed

\* inspect_namespace_status_v1; incompatible_status is Failed.
StatusReport(w) ==
  IF w.jrn # None THEN [is |-> "recovery required", shows |-> {}]
  ELSE IF ~RoutineLineage(w) THEN Failed
  ELSE IF w.head = None THEN [is |-> "not found", shows |-> {}]
  ELSE When(Closure(Places[w.head]) \subseteq w.obj, {w.head})

\* inspect_namespace_v1, inspect_namespace_history_v1: inspect_lineage over
\* the whole history.
HistoryReport(w) == When(FullLineage(w), History(w))

\* inspect_generation_inventory_v1: history, restore points.
InventoryReport(w) ==
  IF w.head = None THEN Failed
  ELSE When(FullLineage(w) /\ Points(w.head) \subseteq w.gen \cap w.plan,
            History(w) \cup Points(w.head))

\* inspect_generation_details_v1, inspect_checkout_generations_v1: a generation
\* of the history, with the history from there on, or a restore point
\* (load_effectively_retained_generation).
DetailsReport(g, w) ==
  IF w.head = None \/ ~RoutineLineage(w) THEN Failed
  ELSE IF g \in History(w)
  THEN When(/\ History(w) \ Lineage(g, Keep(w.head)) \subseteq w.gen
            /\ History(w) \cap Lineage(g, Keep(w.head)) \subseteq w.gen \cap w.plan, {g})
  ELSE When(g \in Points(w.head) \cap w.gen \cap w.plan, {g})

\* inspect_desired_snapshot_v1 (validate_generation_transition loads the record
\* and the generation before), inspect_canonical_tree_v1,
\* inspect_object_inventory_v1.
SnapshotReport(g, w) ==
  When(g \in w.gen \cap w.plan /\ ({rec[g].prev} \ {None}) \subseteq w.gen, {g})
TreeReport(t, w) == When(Closure({t}) \subseteq w.obj, Closure({t}))
ObjectsReport(w) == Shown(w.blob)

Report(kind, of, w) ==
  CASE kind = "fsck" -> FsckReport(w)
    [] kind = "status" -> StatusReport(w)
    [] kind \in {"namespace", "history"} -> HistoryReport(w)
    [] kind = "inventory" -> InventoryReport(w)
    [] kind = "details" -> DetailsReport(of, w)
    [] kind = "snapshot" -> SnapshotReport(of, w)
    [] kind = "tree" -> TreeReport(of, w)
    [] kind = "objects" -> ObjectsReport(w)

-----------------------------------------------------------------------------
\* The steps of an inspection.

\* Which inspections compare the directories, the catalog, the journal.
ComparesDirectories(kind) == kind \notin {"namespace", "history"}
ComparesCatalog(kind) == kind \notin {"history", "snapshot", "tree", "objects"}
ComparesJournal(kind) == kind \in {"fsck", "status"}

\* StoreHandles::open and directory_snapshot.
Open(kind, of) ==
  /\ ins = NoInspection
  /\ ins' = [NoInspection EXCEPT !.kind = kind, !.of = of, !.at = 1]
  /\ UNCHANGED <<vars, lost, rots, kinds>>

\* load_packs: the manifests whose members are there.
WholePacks == {k \in dir["pack"] : Members[k] \subseteq dir["blob"]}

\* load_journal, load_catalog with its lineages, load_prepared_records,
\* load_generations, load_blobs, load_packs, load_canonical_objects: the store
\* w with one more part read.
ReadJournal(w) == [w EXCEPT !.jrn = jrn]
ReadCatalog(w) == [w EXCEPT !.head = head]
ReadLineage(w) ==
  [w EXCEPT !.lineage = FullLineage([w EXCEPT !.gen = dir["gen"], !.plan = dir["plan"]])]
ReadPlans(w) == [w EXCEPT !.plan = dir["plan"]]
ReadGenerations(w) == [w EXCEPT !.gen = dir["gen"]]
ReadBlobs(w) == [w EXCEPT !.blob = dir["blob"]]
ReadPacks(w) == [w EXCEPT !.pack = dir["pack"], !.whole = WholePacks]
ReadObjects(w) == [w EXCEPT !.obj = Objects]

Reading(part, w) ==
  CASE part = "journal" -> ReadJournal(w)
    [] part = "catalog" -> ReadCatalog(w)
    [] part = "lineage" -> ReadLineage(w)
    [] part = "plan" -> ReadPlans(w)
    [] part = "gen" -> ReadGenerations(w)
    [] part = "blob" -> ReadBlobs(w)
    [] part = "pack" -> ReadPacks(w)
    [] part = "obj" -> ReadObjects(w)

\* A status needs nothing else when a journal is there.
StoppedByJournal == ins.kind = "status" /\ ins.at > 1 /\ ins.seen.jrn # None

ReadsDone == ins.moved \/ ins.at > Len(Reads(ins.kind)) \/ StoppedByJournal

Read ==
  /\ ins # NoInspection /\ ~ReadsDone
  /\ ins' = [ins EXCEPT !.at = @ + 1,
                        !.seen = Reading(Reads(ins.kind)[ins.at], @)]
  /\ UNCHANGED <<vars, lost, rots, kinds>>

\* charge_object, charge_bytes: the rest is not read, nor is the authority
\* validated; what was found before is not kept here, as the report is
\* incomplete whatever it was.
HitLimit ==
  /\ ins.kind = "fsck" /\ ins.at > 2 /\ ~ReadsDone
  /\ ins' = [ins EXCEPT !.at = Len(Reads("fsck")) + 1,
                        !.seen = [Unread EXCEPT !.jrn = ins.seen.jrn, !.head = ins.seen.head,
                                                !.limited = TRUE]]
  /\ UNCHANGED <<vars, lost, rots, kinds>>

\* require_directory_snapshot, require_catalog_bytes and the journal's
\* fingerprint, once everything has been read; a status that stopped at a journal
\* has read no catalog to compare.
Stale ==
  \/ ComparesDirectories(ins.kind) /\ ins.moved
  \/ ComparesCatalog(ins.kind) /\ ~StoppedByJournal /\ head # ins.seen.head
  \/ ComparesJournal(ins.kind) /\ jrn # ins.seen.jrn

\* The answer: an error as soon as it is met, Stale, or the report.
Finish ==
  /\ ins # NoInspection /\ ReadsDone
  /\ ins' = NoInspection
  /\ UNCHANGED <<vars, lost, rots, kinds>>

-----------------------------------------------------------------------------
\* The store goes on meanwhile.

\* A mutant: the directory of generations is not compared.
SnapshotDirsWithoutGenerations == Areas \ {"gen"}

\* The directories of StoreDirectorySnapshot among the Areas.
SnapshotDirs == Areas

\* A name that comes or goes changes its directory's times; so do the catalog
\* in state/ and the journal in transactions/.  A loss of power ends an inspection.
Touched ==
  \/ \E a \in SnapshotDirs : dir'[a] # dir[a]
  \/ head' # head \/ jrn' # jrn

Notice == ins' = IF cuts' # cuts THEN NoInspection
                 ELSE IF Touched /\ ins # NoInspection /\ ComparesDirectories(ins.kind)
                 THEN [NoInspection EXCEPT !.kind = ins.kind, !.moved = TRUE] ELSE ins

StoreStep == Next /\ Notice /\ UNCHANGED <<lost, rots, kinds>>

\* Somebody unlinks a file of a store in use, or a disk loses it.
Lose(area, n) ==
  /\ rots > 0 /\ rots' = rots - 1
  /\ n \in dir[area] /\ head # None /\ ~TransactionHeld /\ ~MaintenanceHeld
  /\ dir' = [dir EXCEPT ![area] = @ \ {n}]
  /\ disk' = [disk EXCEPT ![area] = {dir'[area]}]
  /\ lost' = TRUE
  /\ UNCHANGED <<rec, head, jrn, eng, captured, com, pru, doomed, early, kills, cuts, kinds>>
  /\ Notice

InsInit ==
  /\ Init
  /\ ins = NoInspection /\ lost = FALSE
  /\ \E s \in Scenarios : rots = s.rots /\ kinds = s.kinds

InsNext ==
  \/ StoreStep
  \/ \E area \in Areas : \E n \in dir[area] : Lose(area, n)
  \/ \E kind \in kinds : \E of \in Subjects(kind) : Open(kind, of)
  \/ Read \/ HitLimit \/ Finish

InsSpec == InsInit /\ [][InsNext]_<<vars, insVars>>

-----------------------------------------------------------------------------
\* The store as it is, read in one step.
Now ==
  [jrn |-> jrn, head |-> head,
   lineage |-> FullLineage([head |-> head, gen |-> dir["gen"], plan |-> dir["plan"]]),
   plan |-> dir["plan"], gen |-> dir["gen"], blob |-> dir["blob"],
   pack |-> dir["pack"], whole |-> WholePacks,
   obj |-> Objects, limited |-> FALSE]

\* An answer that is neither an error, which is returned as soon as something
\* cannot be loaded, nor stale.
Answered ==
  /\ ins # NoInspection /\ Finish /\ ~Stale
  /\ Report(ins.kind, ins.of, ins.seen) # Failed

\* An answer is the one the store gives at that moment, as if
\* it had been read under a lock, although its parts were read while others
\* committed and pruned (the comparisons at the end of every inspection; the
\* history of a namespace makes none and is left out, and so is an fsck that hit
\* a limit of its request; the description of a namespace compares the catalog
\* alone, which is enough for what malm itself removes).
ReportsAreSnapshots ==
  [][Answered /\ ins.kind # "history" /\ ~ins.seen.limited /\ (ins.kind = "namespace" => ~lost) =>
       Report(ins.kind, ins.of, ins.seen) = Report(ins.kind, ins.of, Now)]_<<vars, insVars>>

\* A store that fsck_v1 reports complete is sound for the processes that write
\* it: no recovery is due, a prune is accepted, and so is the commit of every
\* plan that was prepared against the selected generation and lengthens its
\* history by at most one: older generations may have been pruned since.
CleanMeansSound ==
  [][Answered /\ ins.kind = "fsck" /\ FsckReport(ins.seen).is = "complete" =>
       /\ jrn = None /\ PruneAccepts({}, FALSE)
       /\ \A p \in dir["plan"] :
            LET r == rec[p] IN
            r.prev = head /\ KindValid(r) /\ (head # None => r.auth.keep <= Keep(head) + 1) =>
              /\ Derivable(r) /\ Artifacts[p] \subseteq dir["blob"]
              /\ PlacesLoad({p, head} \ {None})]_<<vars, insVars>>

\* A generation that an inspection shows or hands to a checkout as retained is
\* there with its record, and no prune that would be accepted removes either
\* (load_effectively_retained_generation against generation_roots).
ShownIsRetained ==
  [][Answered /\ ins.kind \in {"inventory", "details"} =>
       LET shown == Report(ins.kind, ins.of, ins.seen).shows
       IN /\ shown \subseteq dir["gen"] \cap dir["plan"]
          /\ \A R \in SUBSET dir["plan"], sweep \in BOOLEAN :
               PruneAccepts(R, sweep) =>
                 shown \subseteq RootGens(R) \cap KeptPlans(R, sweep)]_<<vars, insVars>>

\* Every canonical object that the selected generation, its history and what it
\* pins can place is there, unless somebody else removed something: prune
\* follows trees to their last entry, and commit_v1 loads them again before it
\* writes its journal.
PlacesKept ==
  head # None /\ ~lost =>
    PlacesLoad(Lineage(head, Keep(head)) \cup Points(head) \cup Pins(head))
=============================================================================
