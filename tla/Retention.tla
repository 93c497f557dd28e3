----------------------------- MODULE Retention -----------------------------
(***************************************************************************)
(* The object store shared by three kinds of process.  The engine          *)
(* publishes packs, canonical objects and prepared records under           *)
(* maintenance.lock; commit_v1 and recover_v1 publish state generations    *)
(* under transaction.lock; prune_v1 takes both, computes what the retained *)
(* roots reach and unlinks the rest.  A lock is an flock, held exactly as  *)
(* long as its process is at work.                                         *)
(*                                                                         *)
(* Names are content digests: a plan has the same record whenever it is    *)
(* prepared, and since the record names its expected head, one generation, *)
(* which goes by the plan's name here.  One namespace is modelled.         *)
(***************************************************************************)
EXTENDS Naturals, FiniteSets

CONSTANTS Plan, Pack, Blob, \* digests
          Tree, Leaf,  \* digests of canonical trees; of files and symlinks
          Artifacts,   \* [Plan -> SUBSET Blob]: the artifacts of a record
          Places,      \* [Plan -> SUBSET (Tree \cup Leaf)]: what its targets are
          Entries,     \* [Tree -> SUBSET (Tree \cup Leaf)]: what a tree lists
          Packs,       \* [Plan -> SUBSET Pack]: the packs a record was built from
          Members,     \* [Pack -> SUBSET Blob]: the member blobs of a manifest
          Authorities, \* the retention authorities a plan may ask for
          Default,     \* the one of a namespace's first plan
          Faults,      \* bounds: how many processes die, how often power is lost
          None

VARIABLES dir,       \* per store directory: the names in it
          disk,      \* per store directory: what a loss of power may leave
          rec,       \* per plan: the content of its record, once prepared
          head,      \* the generation catalog.json selects, or None
          jrn,       \* the plan of the transaction journal, or None
          eng,       \* the engine process: its publication in progress
          captured,  \* the packs and objects it has published for the plan to come
          com,       \* the step of commit_v1
          pru,       \* prune_v1: the directory it is at, what it will unlink
          doomed,    \* history: packs a prune set out to remove
          early,     \* history, per store directory: what a commit began with before
                     \* it was on disk for good, and has not been since
          kills, cuts \* how many processes may still die, power still be lost

vars == <<dir, disk, rec, head, jrn, eng, captured, com, pru, doomed, early, kills, cuts>>

-----------------------------------------------------------------------------
\* prepared/, state/generations/, and of objects/: blobs/, pack-manifests/,
\* trees/, and files/ with symlinks/.
Areas == {"plan", "gen", "blob", "pack", "tree", "leaf"}

\* RetentionAuthorityV1: how many generations of history are kept, and which
\* generations (restore points) and plans (pins) besides.
Authority == [keep : Nat \ {0}, points : SUBSET Plan, pins : SUBSET Plan]

ASSUME RetentionConstants ==
  /\ Faults \subseteq [kills : Nat, cuts : Nat]
  /\ Artifacts \in [Plan -> SUBSET Blob]
  /\ Packs \in [Plan -> SUBSET Pack]
  /\ Members \in [Pack -> SUBSET Blob]
  /\ Places \in [Plan -> SUBSET (Tree \cup Leaf)]
  /\ IsFiniteSet(Tree) /\ Entries \in [Tree -> SUBSET (Tree \cup Leaf)]
  /\ Authorities \subseteq Authority /\ Default \in Authorities
  /\ None \notin Plan \cup Pack \cup Blob \cup Tree \cup Leaf \cup Authorities

\* A prepared record: its expected head, its authority, and whether it is the
\* removal of the namespace.
Record(prev, auth, removes) == [prev |-> prev, auth |-> auth, removes |-> removes]
NoRecord == Record(None, None, FALSE)

Idle == [job |-> "idle", name |-> None, left |-> {}, dirty |-> "none"]
NoPrune == [on |-> "idle", todo |-> [a \in Areas |-> {}], dirty |-> FALSE]

Init ==
  /\ dir = [a \in Areas |-> {}]
  /\ disk = [a \in Areas |-> {{}}]
  /\ rec = [p \in Plan |-> NoRecord]
  /\ head = None /\ jrn = None
  /\ eng = Idle /\ captured = {}
  /\ com = "idle" /\ pru = NoPrune
  /\ doomed = {} /\ early = [a \in Areas |-> {}]
  /\ \E f \in Faults : kills = f.kills /\ cuts = f.cuts

\* TransactionLock and MaintenanceLock are held while their process works.
TransactionHeld == com # "idle" \/ pru.on # "idle"
MaintenanceHeld == eng.job # "idle" \/ pru.on # "idle"

\* linkat or unlinkat, visible at once; fsync of the directory makes it last.
\* (Of what is unlinked, or synced, it no longer matters when it was committed.)
Change(a, names) ==
  /\ dir' = [dir EXCEPT ![a] = names]
  /\ disk' = [disk EXCEPT ![a] = @ \cup {names}]
  /\ early' = [early EXCEPT ![a] = @ \ (dir[a] \ names)]

Fsync(a) ==
  /\ disk' = [disk EXCEPT ![a] = {dir[a]}] /\ UNCHANGED dir
  /\ early' = [early EXCEPT ![a] = @ \ dir[a]]

-----------------------------------------------------------------------------
\* Canonical objects: the objects O with everything they list, and what of it
\* is in the store.
Closure(O) ==
  LET reach[n \in 0 .. Cardinality(Tree)] ==
        IF n = 0 THEN O
        ELSE reach[n - 1] \cup UNION {Entries[t] : t \in reach[n - 1] \cap Tree}
  IN reach[Cardinality(Tree)]

Objects == dir["tree"] \cup dir["leaf"]

\* load_canonical_roots: every object the targets of the plans P reach.
PlacesLoad(P) == Closure(UNION {Places[p] : p \in P}) \subseteq Objects

-----------------------------------------------------------------------------
\* What a generation keeps.
Keep(g) == rec[g].auth.keep
Points(g) == rec[g].auth.points
Pins(g) == rec[g].auth.pins

\* The generation g and its predecessors, at most n of them.
Lineage(g, n) ==
  LET back[i \in 0 .. n - 1] ==
        IF i = 0 THEN g
        ELSE IF back[i - 1] = None THEN None ELSE rec[back[i - 1]].prev
  IN {back[i] : i \in 0 .. n - 1} \ {None}

\* validate_retained_prepared_dependencies: the record is there, with its
\* artifacts, its packs (of a pack only the name is looked at) and its trees.
PlanIntact(p) ==
  /\ p \in dir["plan"]
  /\ Artifacts[p] \subseteq dir["blob"]
  /\ Packs[p] \subseteq dir["pack"]
  /\ PlacesLoad({p})

\* validate_catalog_lineages, routine depth: a candidate whose predecessor
\* keeps as much history as it does is not checked further back.
LineageIntact(prev, keep) ==
  \/ keep = 1 \/ prev = None
  \/ /\ prev \in dir["gen"]
     /\ \/ Keep(prev) = keep
        \/ Lineage(prev, keep - 1) \subseteq dir["gen"] \cap dir["plan"]

\* validate_catalog_retention_authorities, of the candidate.
AuthorityIntact(auth) ==
  /\ \A g \in auth.points : g \in dir["gen"] /\ PlanIntact(g)
  /\ \A p \in auth.pins : PlanIntact(p)

\* validate_prepared_transition_kind: a first plan has the default authority,
\* a removal hands its predecessor's on.
KindValid(r) ==
  /\ r.prev = None => r.auth = Default /\ ~r.removes
  /\ r.removes => r.auth = rec[r.prev].auth

\* derive_owned_transition, checked by prepare and again by commit_v1.
Derivable(r) ==
  /\ r.prev = head
  /\ head # None => head \in dir["gen"]
  /\ KindValid(r)
  /\ r.removes \/ (LineageIntact(r.prev, r.auth.keep) /\ AuthorityIntact(r.auth))

-----------------------------------------------------------------------------
\* The engine.

\* pack_store::publish_verified: a manifest that exists is reused as it is.
CapturePack(k) ==
  /\ eng = Idle /\ ~MaintenanceHeld
  /\ IF k \in dir["pack"]
     THEN captured' = captured \cup {k} /\ UNCHANGED eng
     ELSE /\ eng' = [job |-> "pack", name |-> k, left |-> Members[k], dirty |-> "none"]
          /\ UNCHANGED captured
  /\ UNCHANGED <<dir, disk, rec, head, jrn, com, pru, doomed, early, kills, cuts>>

\* canonical_store::publish_encoded: one object in a critical section of its
\* own, after everything it lists.
PublishObject(o) ==
  /\ eng = Idle /\ ~MaintenanceHeld /\ o \notin captured
  /\ o \in Tree => Entries[o] \subseteq captured
  /\ eng' = [job |-> "objects", name |-> o, left |-> {o}, dirty |-> "none"]
  /\ UNCHANGED <<dir, disk, rec, head, jrn, captured, com, pru, doomed, early, kills, cuts>>

\* publish_archive_with: all the objects of a decoded archive in one.
PublishArchive(t) ==
  /\ eng = Idle /\ ~MaintenanceHeld /\ t \notin captured
  /\ eng' = [job |-> "objects", name |-> t, left |-> Closure({t}), dirty |-> "none"]
  /\ UNCHANGED <<dir, disk, rec, head, jrn, captured, com, pru, doomed, early, kills, cuts>>

\* prepare_inner up to its first write.  Packs and objects were published
\* before it took the lock; of those it looks only for the objects its
\* operations name, not for what they list.
PreparePlan(p, auth, removes) ==
  /\ eng = Idle /\ ~MaintenanceHeld
  /\ LET r == Record(head, auth, removes)
     IN /\ rec[p] \in {NoRecord, r}
        /\ Packs[p] \cup Closure(Places[p]) \subseteq captured
        /\ Places[p] \subseteq Objects
        /\ Derivable(r)
        /\ rec' = [rec EXCEPT ![p] = r]
  /\ eng' = [job |-> "plan", name |-> p, left |-> Artifacts[p], dirty |-> "none"]
  /\ UNCHANGED <<dir, disk, head, jrn, captured, com, pru, doomed, early, kills, cuts>>

AreaOf(n) == IF n \in Blob THEN "blob" ELSE IF n \in Tree THEN "tree" ELSE "leaf"

\* Objects are published under a lock that is released after the last of them.
Released(e) == IF e.job = "objects" /\ e.left = {} THEN Idle ELSE e

\* publish_blob, publish_to: what exists is reused, and is not synced again.
\* An archive's leaves go before its trees, its root last.
PublishMember(n) ==
  /\ n \in eng.left /\ eng.dirty = "none"
  /\ n \in Tree => eng.left \cap Leaf = {} /\ (n = eng.name => eng.left = {n})
  /\ LET area == AreaOf(n)
     IN IF n \in dir[area]
        THEN eng' = Released([eng EXCEPT !.left = @ \ {n}]) /\ UNCHANGED <<dir, disk, early>>
        ELSE /\ eng' = [eng EXCEPT !.left = @ \ {n}, !.dirty = area]
             /\ Change(area, dir[area] \cup {n})
  /\ captured' = IF eng.job = "objects" THEN captured \cup {n} ELSE captured
  /\ UNCHANGED <<rec, head, jrn, com, pru, doomed, kills, cuts>>

\* The manifest or the prepared record is linked last.
PublishName ==
  /\ eng.job \in {"pack", "plan"} /\ eng.left = {} /\ eng.dirty = "none"
  /\ eng' = [eng EXCEPT !.dirty = eng.job]
  /\ Change(eng.job, dir[eng.job] \cup {eng.name})
  /\ doomed' = IF eng.job = "pack" THEN doomed \ {eng.name} ELSE doomed
  /\ UNCHANGED <<rec, head, jrn, captured, com, pru, kills, cuts>>

\* fsync of the directory; after the last name the lock is released.
PublishSync ==
  /\ eng.dirty # "none"
  /\ Fsync(eng.dirty)
  /\ eng' = IF eng.dirty = eng.job THEN Idle ELSE Released([eng EXCEPT !.dirty = "none"])
  /\ captured' = IF eng.dirty = "pack" THEN captured \cup {eng.name}
                 ELSE IF eng.dirty = "plan" THEN {} ELSE captured
  /\ UNCHANGED <<rec, head, jrn, com, pru, doomed, kills, cuts>>

-----------------------------------------------------------------------------
\* commit_v1 and recover_v1, as far as the store's objects are concerned: what
\* they do to targets, the journal file and the catalog file is in Commit.

\* What commit_v1 loads of a directory for the plan p, and what of it a loss of
\* power could still take away.
Loads(p, a) ==
  CASE a = "plan" -> {p}
    [] a = "blob" -> Artifacts[p]
    [] a \in {"tree", "leaf"} ->
         Closure(UNION {Places[q] : q \in {p, head} \ {None}}) \cap dir[a]
    [] OTHER -> {}
Volatile(p, a) == {n \in Loads(p, a) : \E names \in disk[a] : n \notin names}

\* Any record that is there can be committed, also the one a prepare has linked
\* and not synced yet: commit_v1 does not take maintenance.lock.
CommitBegin(p) ==
  /\ ~TransactionHeld /\ jrn = None
  /\ p \in dir["plan"] /\ Derivable(rec[p]) /\ Artifacts[p] \subseteq dir["blob"]
  /\ PlacesLoad({p, head} \ {None})
  /\ jrn' = p /\ com' = IF rec[p].removes THEN "catalog" ELSE "generation"
  /\ early' = [a \in Areas |-> early[a] \cup Volatile(p, a)]
  /\ UNCHANGED <<dir, disk, rec, head, eng, captured, pru, doomed, kills, cuts>>

\* publish_immutable, then replace_catalog, then the journal goes.
CommitGeneration ==
  /\ com = "generation" /\ com' = "sync"
  /\ Change("gen", dir["gen"] \cup {jrn})
  /\ UNCHANGED <<rec, head, jrn, eng, captured, pru, doomed, kills, cuts>>

CommitSync ==
  /\ com = "sync" /\ com' = "catalog"
  /\ Fsync("gen")
  /\ UNCHANGED <<rec, head, jrn, eng, captured, pru, doomed, kills, cuts>>

CommitCatalog ==
  /\ com = "catalog" /\ com' = "finish"
  /\ head' = IF rec[jrn].removes THEN None ELSE jrn
  /\ UNCHANGED <<dir, disk, rec, jrn, eng, captured, pru, doomed, early, kills, cuts>>

CommitFinish ==
  /\ com = "finish" /\ com' = "idle" /\ jrn' = None
  /\ UNCHANGED <<dir, disk, rec, head, eng, captured, pru, doomed, early, kills, cuts>>

\* phase_failure: the targets are rolled back; a generation already published
\* stays behind, unreachable.
CommitFails ==
  /\ com \in {"generation", "sync", "catalog"} /\ com' = "idle" /\ jrn' = None
  /\ UNCHANGED <<dir, disk, rec, head, eng, captured, pru, doomed, early, kills, cuts>>

\* rollback_recovery, finish_recovery: what they load is the plan of the journal
\* with its artifacts, the generation before it, and the objects both of them place.
RecoveryLoads ==
  /\ ({rec[jrn].prev} \ {None}) \subseteq dir["gen"]
  /\ Artifacts[jrn] \subseteq dir["blob"]
  /\ PlacesLoad({jrn, rec[jrn].prev} \ {None})

Recover ==
  /\ ~TransactionHeld /\ jrn # None
  /\ ({head} \ {None}) \subseteq dir["gen"] /\ jrn \in dir["plan"]
  /\ RecoveryLoads
  /\ jrn' = None
  /\ UNCHANGED <<dir, disk, rec, head, eng, captured, com, pru, doomed, early, kills, cuts>>

-----------------------------------------------------------------------------
\* prune_store: what it reaches, given the plans R named for deletion.

\* A mutant: restore points are not roots.
RootGensHistoryOnly(R) == UNION {Lineage(h, Keep(h)) : h \in {head} \ {None}}

\* generation_roots and the walk from them.
RootGens(R) ==
  LET heads == {head} \ {None}
      named == heads \cup (dir["plan"] \ R)
  IN (UNION {Lineage(h, Keep(h)) : h \in heads}) \cup (UNION {Points(p) : p \in named})

RetainedPlans(R) ==
  RootGens(R) \cup UNION {Pins(p) : p \in ({head} \ {None}) \cup (dir["plan"] \ R)}

PrunedPlans(R, sweep) == R \cup IF sweep THEN dir["plan"] \ RetainedPlans(R) ELSE {}
KeptPlans(R, sweep) == dir["plan"] \ PrunedPlans(R, sweep)
KeptPacks(R, sweep) == UNION {Packs[p] : p \in KeptPlans(R, sweep)}

\* A mutant: a retained pack does not retain its members.
KeptBlobsWithoutMembers(R, sweep) ==
  UNION {Artifacts[p] : p \in RootGens(R) \cup KeptPlans(R, sweep)}

\* A mutant: the trees of retained plans are not walked.
KeptObjectsUnwalked(R, sweep) ==
  UNION {Places[p] : p \in RootGens(R) \cup KeptPlans(R, sweep)}

\* mark_canonical_tree, from every retained generation and plan.
KeptObjects(R, sweep) ==
  Closure(UNION {Places[p] : p \in RootGens(R) \cup KeptPlans(R, sweep)})

KeptBlobs(R, sweep) ==
  (UNION {Artifacts[p] : p \in RootGens(R) \cup KeptPlans(R, sweep)})
    \cup (UNION {Members[k] : k \in KeptPacks(R, sweep)})

\* The checks that precede the first removal.  Records and generations are
\* loaded with their artifacts and objects whether they will be kept or not.
PruneAccepts(R, sweep) ==
  /\ R \subseteq dir["plan"]
  /\ \A p \in dir["plan"] : Artifacts[p] \subseteq dir["blob"]
  /\ dir["gen"] \subseteq dir["plan"]
  /\ PlacesLoad(dir["plan"] \cup dir["gen"])
  /\ RootGens(R) \subseteq dir["gen"]
  /\ RetainedPlans(R) \subseteq dir["plan"]
  /\ R \cap RetainedPlans(R) = {}
  /\ KeptPacks(R, sweep) \subseteq dir["pack"]
  /\ KeptBlobs(R, sweep) \subseteq dir["blob"]
  /\ KeptObjects(R, sweep) \subseteq Objects

Removals(R, sweep) ==
  [gen |-> dir["gen"] \ RootGens(R),
   plan |-> PrunedPlans(R, sweep),
   blob |-> dir["blob"] \ KeptBlobs(R, sweep),
   pack |-> dir["pack"] \ KeptPacks(R, sweep),
   tree |-> dir["tree"] \ KeptObjects(R, sweep),
   leaf |-> dir["leaf"] \ KeptObjects(R, sweep)]

\* A mutant: records go before the generations made from them.
NextAreaPlansFirst(area) ==
  [idle |-> "plan", plan |-> "gen", gen |-> "blob", blob |-> "pack", pack |-> "tree",
   tree |-> "leaf", leaf |-> "idle"][area]

\* The directories in the order prune_store goes through them.
NextArea(area) ==
  [idle |-> "gen", gen |-> "plan", plan |-> "blob", blob |-> "pack", pack |-> "tree",
   tree |-> "leaf", leaf |-> "idle"][area]

\* A mutant: prune runs although a transaction waits for recovery.
PruneBeginDespiteJournal(R, sweep) ==
  /\ ~TransactionHeld /\ ~MaintenanceHeld
  /\ PruneAccepts(R, sweep)
  /\ pru' = [on |-> NextArea("idle"), todo |-> Removals(R, sweep), dirty |-> FALSE]
  /\ doomed' = doomed \cup Removals(R, sweep).pack
  /\ UNCHANGED <<dir, disk, rec, head, jrn, eng, captured, com, early, kills, cuts>>

PruneBegin(R, sweep) ==
  /\ ~TransactionHeld /\ ~MaintenanceHeld /\ jrn = None
  /\ PruneAccepts(R, sweep)
  /\ pru' = [on |-> NextArea("idle"), todo |-> Removals(R, sweep), dirty |-> FALSE]
  /\ doomed' = doomed \cup Removals(R, sweep).pack
  /\ UNCHANGED <<dir, disk, rec, head, jrn, eng, captured, com, early, kills, cuts>>

\* remove_names.  Generations go newest first, each one synced (RemovalSync::
\* Each); the other directories are synced once they are done (Batch).
PruneUnlink(n) ==
  /\ pru.on # "idle" /\ n \in pru.todo[pru.on]
  /\ pru.on = "gen" => ~pru.dirty /\ \A g \in pru.todo["gen"] : rec[g].prev # n
  /\ Change(pru.on, dir[pru.on] \ {n})
  /\ pru' = [pru EXCEPT !.todo[pru.on] = @ \ {n}, !.dirty = TRUE]
  /\ UNCHANGED <<rec, head, jrn, eng, captured, com, doomed, kills, cuts>>

PruneSync ==
  /\ pru.on # "idle"
  /\ pru.todo[pru.on] = {} \/ (pru.on = "gen" /\ pru.dirty)
  /\ IF pru.dirty THEN Fsync(pru.on) ELSE UNCHANGED <<dir, disk, early>>
  /\ pru' = [pru EXCEPT !.on = IF pru.todo[pru.on] = {} THEN NextArea(pru.on) ELSE @,
                        !.dirty = FALSE]
  /\ UNCHANGED <<rec, head, jrn, eng, captured, com, doomed, kills, cuts>>

-----------------------------------------------------------------------------
\* Faults.

\* One process dies, or returns early with an error; its locks are released.
Kill ==
  /\ kills > 0 /\ kills' = kills - 1
  /\ \/ /\ eng # Idle \/ captured # {}
        /\ eng' = Idle /\ captured' = {} /\ UNCHANGED <<com, pru>>
     \/ com # "idle" /\ com' = "idle" /\ UNCHANGED <<eng, captured, pru>>
     \/ pru.on # "idle" /\ pru' = NoPrune /\ UNCHANGED <<eng, captured, com>>
  /\ UNCHANGED <<dir, disk, rec, head, jrn, doomed, early, cuts>>

\* Every process dies, and each directory is as one of its unsynced states.
PowerLoss ==
  /\ cuts > 0 /\ cuts' = cuts - 1
  /\ \E pl \in disk["plan"], g \in disk["gen"], b \in disk["blob"], k \in disk["pack"],
        t \in disk["tree"], l \in disk["leaf"] :
       dir' = [plan |-> pl, gen |-> g, blob |-> b, pack |-> k, tree |-> t, leaf |-> l]
  /\ disk' = [a \in Areas |-> {dir'[a]}]
  /\ early' = [a \in Areas |-> early[a] \ dir'[a]]
  /\ eng' = Idle /\ captured' = {} /\ com' = "idle" /\ pru' = NoPrune
  /\ UNCHANGED <<rec, head, jrn, doomed, kills>>

-----------------------------------------------------------------------------
Engine ==
  \/ \E k \in Pack : CapturePack(k)
  \/ \E p \in Plan, auth \in Authorities, removes \in BOOLEAN : PreparePlan(p, auth, removes)
  \/ \E o \in Tree \cup Leaf : PublishObject(o)
  \/ \E t \in Tree : PublishArchive(t)
  \/ \E n \in Blob \cup Tree \cup Leaf : PublishMember(n)
  \/ PublishName \/ PublishSync

CommitStep == CommitGeneration \/ CommitSync \/ CommitCatalog \/ CommitFinish \/ CommitFails

PruneStep == PruneSync \/ \E n \in Plan \cup Pack \cup Blob \cup Tree \cup Leaf : PruneUnlink(n)

Next ==
  \/ Engine \/ CommitStep \/ Recover \/ PruneStep \/ Kill \/ PowerLoss
  \/ \E p \in Plan : CommitBegin(p)
  \/ \E R \in SUBSET Plan, sweep \in BOOLEAN : PruneBegin(R, sweep)

Spec == Init /\ [][Next]_vars

\* A process that has started runs on, and recover is run when it is called for.
FairSpec == Spec /\ WF_vars(CommitStep) /\ WF_vars(PruneStep) /\ WF_vars(Recover)

-----------------------------------------------------------------------------
\* Whatever is pruned, killed or cut, the generation the catalog selects is
\* there with its whole configured history, the generations and plans it pins
\* and the records of all of them; so is the plan of a pending journal.
\* (prune_store's closure, its refusal while a journal exists, and the routine
\* lineage check of commit_v1, which trusts what older commits checked.)  The
\* one exception is what commit_v1 cannot see: a record that was committed
\* between the link and the fsync of its own preparation, until that fsync.
HeadKept ==
  LET records == dir["plan"] \cup early["plan"]
  IN /\ head # None =>
          /\ Lineage(head, Keep(head)) \cup Points(head) \subseteq dir["gen"] \cap records
          /\ Pins(head) \subseteq records
     /\ jrn # None => jrn \in records

\* A prepared record never names a blob that is not there: prepare publishes
\* the blobs first under maintenance.lock, prune removes records first.
RecordComplete == \A p \in dir["plan"] : Artifacts[p] \subseteq dir["blob"]

\* A pack manifest is never there without its member blobs, unless a prune set
\* out to remove it: publish_manifest makes every member durable first, and a
\* retained pack retains its members.
PackMembers == \A k \in dir["pack"] \ doomed : Members[k] \subseteq dir["blob"]

\* Nothing in the store names a blob that is gone, whichever of publication,
\* commit and prune was killed or cut and wherever.
ClosureComplete == RecordComplete /\ PackMembers

\* The plans a later commit or prune will ask for: those of the selected
\* generation's history and what it pins, and again what those pin.
Lasting ==
  LET more(P) == P \cup UNION {Points(p) \cup Pins(p) : p \in P \cap dir["plan"]}
      last[n \in 0 .. Cardinality(Plan)] ==
        IF n = 0 THEN IF head = None THEN {} ELSE Lineage(head, Keep(head))
        ELSE more(last[n - 1])
  IN last[Cardinality(Plan)]

\* A loss of power has taken what a commit began with before it was synced.
LostUnsynced == \E a \in Areas : early[a] \ dir[a] # {}

\* The other ways a store comes to refuse every prune: an object was pruned
\* between its own publication and that of the record that needs it; a prune was
\* interrupted when it had removed what a plan pins and not the plan, which has
\* been pinned since; or it had removed a pack, or members of one, that a plan
\* was built from which is now to last.
LostObject == ~PlacesLoad(dir["plan"] \cup dir["gen"])
LostPin ==
  \E p \in Lasting \ {head} : Points(p) \ dir["gen"] # {} \/ Pins(p) \ dir["plan"] # {}
LostPack ==
  \E k \in UNION {Packs[p] : p \in Lasting} :
    k \notin dir["pack"] \/ Members[k] \ dir["blob"] # {}
Crippled == LostUnsynced \/ LostObject \/ LostPin \/ LostPack

\* There is some request prune_v1 accepts, wherever publication, commit and prune
\* were interrupted (what an interrupted prune has left behind can be named for
\* deletion), unless the store is crippled in one of the ways above.
NeverWedged ==
  jrn = None /\ pru.on = "idle" =>
    (\E R \in SUBSET dir["plan"] : PruneAccepts(R, FALSE)) \/ Crippled

\* A pending journal is always resolved: nothing recover_v1 needs is pruned or
\* cut, but for what was committed before it was synced.
JournalResolves == jrn # None ~> (jrn = None \/ LostUnsynced)

\* The store is never stuck, neither behind a journal that recover_v1 cannot
\* resolve nor in a state of which prune_v1 accepts no request, but for the
\* losses named above.
NeverStuck == []NeverWedged /\ JournalResolves
=============================================================================
