------------------------------ MODULE Lifecycle ------------------------------
(***************************************************************************)
(* Namespaces, their generations and what they own.  A namespace is        *)
(* deployed, disabled, enabled, checked out and removed by plans that are  *)
(* prepared against its head and committed later; between the two another  *)
(* namespace may be deployed, another plan committed, or the user may edit *)
(* the targets.  The same rules are applied twice, by prepare_inner        *)
(* (malm-engine/src/prepared_store.rs) and by derive_owned_transition      *)
(* (malm-commit/src/lib.rs) under the transaction lock.                    *)
(*                                                                         *)
(* A commit is one step here: module Commit shows what an interrupted one  *)
(* leaves.  A preparation is two: prepare_inner first reads the targets to *)
(* find out what was modified, and later observes them again; only what it *)
(* observed is compared by the commit.  Trees, modes, path aliases and     *)
(* tracked roots are left out, and generations are not pruned.             *)
(***************************************************************************)
EXTENDS Integers, Sequences, FiniteSets

CONSTANTS
  Namespaces,  \* deployment namespaces
  Paths,       \* relative paths of one target authority: sequences of numbers
  Requests,    \* namespace -> the declarations its configuration evaluates to
  UserVal,     \* content that only the user writes
  None,
  MaxGens,     \* bound on the commits of one behaviour
  MaxPlans,    \* bound on the plans waiting for a commit
  MaxEdits     \* bound on the edits of the user

\* "No generation" is none of the numbers generations go by.
ASSUME NoneIsNoGeneration == None \notin Nat

\* Nor is it a content; and what the user writes is in no configuration.
ASSUME Contents ==
  /\ "rwx" \notin {None, UserVal} /\ UserVal # None
  /\ \A n \in Namespaces : \A r \in Requests[n] : \A p \in DOMAIN r.targets :
       r.targets[p].val # UserVal

VARIABLES
  live,    \* path -> what is on disk
  head,    \* the catalog: namespace -> selected generation, None without one
  gens,    \* every generation published, in order; a generation is its index
  draft,   \* the preparation that holds maintenance.lock, None without one
  plans,   \* prepared plans that can still be committed
  edits,   \* edits of the user so far
  edited   \* paths whose present state is the user's work
vars == <<live, head, gens, draft, plans, edits, edited>>

-----------------------------------------------------------------------------
\* Paths and states

\* relative_path_is_ancestor: proper, and by whole components.
IsAncestor(p, q) == Len(p) < Len(q) /\ p = SubSeq(q, 1, Len(p))

\* compare_relative_paths: component by component.
PathLess(p, q) ==
  \/ IsAncestor(p, q)
  \/ \E i \in 1..Len(p) : /\ i <= Len(q)
                          /\ SubSeq(p, 1, i - 1) = SubSeq(q, 1, i - 1)
                          /\ p[i] < q[i]

Ancestors(p) == {q \in Paths : IsAncestor(q, p)}

Kinds == {"file", "dir", "link"}
Nothing == [kind |-> "none", val |-> None]
State(k, v) == [kind |-> k, val |-> v]
Directory == State("dir", "rwx")

\* A configuration declares states, and modes are left out: one kind of directory.
ASSUME Declarations ==
  \A n \in Namespaces : \A r \in Requests[n] :
    /\ DOMAIN r.targets \subseteq Paths
    /\ \A p \in DOMAIN r.targets :
         LET s == r.targets[p] IN s = State(s.kind, s.val) /\ (s.kind = "dir" => s = Directory)

\* state_is_present, and absent_target_state: a tombstone keeps its kind.
Present(s) == s.val # None
Tombstone(s) == State(s.kind, None)

\* DesiredSnapshotV1: a function from some of the paths to their states.
Empty == [p \in {} |-> Nothing]

\* validate_state_targets: only a directory may enclose another target.
SnapshotValid(d) ==
  \A p, q \in DOMAIN d :
    Present(d[p]) /\ d[p].kind # "dir" /\ IsAncestor(p, q) => ~Present(d[q])

\* reconcile_desired_snapshot_v1: the declarations, and a tombstone for every
\* slot that is no longer declared.
ReconcileDesired(previous, declared) ==
  [p \in DOMAIN previous \cup DOMAIN declared |->
     IF p \in DOMAIN declared THEN declared[p] ELSE Tombstone(previous[p])]

-----------------------------------------------------------------------------
\* Generations, claims and ownership

\* What a namespace without a generation counts as: nothing effective.
NoGeneration == [life |-> "disabled", desired |-> Empty]
Gen(g) == IF g = None THEN NoGeneration ELSE gens[g]
Selected(n) == Gen(head[n])

\* effective_target_is_present
Effective(gen, p) ==
  gen.life = "enabled" /\ p \in DOMAIN gen.desired /\ Present(gen.desired[p])

\* OwnershipProjectionV1: the present targets of enabled selected generations.
Claims(gen) == {p \in DOMAIN gen.desired : Effective(gen, p)}

OverlapsExactly(p, q) == p = q
Overlaps(p, q) == p = q \/ IsAncestor(p, q) \/ IsAncestor(q, p)

\* exact_owner and conflicting_claim
Owns(n, p) == p \in Claims(Selected(n))
ConflictingClaim(n, p) ==
  \E m \in Namespaces \ {n} : \E q \in Claims(Selected(m)) : Overlaps(p, q)

-----------------------------------------------------------------------------
\* required_target_mutations_v1: what a transition from one generation to the
\* next must do, and nothing else.

Slots(prev, next) == DOMAIN prev.desired \cup DOMAIN next.desired

Reference(prev, next, p) ==
  IF p \in DOMAIN next.desired THEN next.desired[p] ELSE prev.desired[p]

Before(prev, next, p) ==
  IF prev.life = "enabled" /\ p \in DOMAIN prev.desired
  THEN prev.desired[p] ELSE Tombstone(Reference(prev, next, p))

After(prev, next, p) ==
  IF next.life = "enabled" /\ p \in DOMAIN next.desired
  THEN next.desired[p] ELSE Tombstone(Reference(prev, next, p))

ReleasesNothing(prev, next, p) == FALSE

\* A directory that still has, or had, managed targets below it is given up but
\* not removed.
Releases(prev, next, p) ==
  /\ Before(prev, next, p) = Directory
  /\ ~Present(After(prev, next, p))
  /\ \E q \in Slots(prev, next) :
       IsAncestor(p, q) /\ (Effective(prev, q) \/ Effective(next, q))

\* The mutation a slot requires, "none" if there is nothing to do.
Mutation(prev, next, p) ==
  LET before == Before(prev, next, p)
      after  == After(prev, next, p)
  IN CASE Releases(prev, next, p)              -> "none"
       [] before = after /\ Present(after)     -> "assert"
       [] before = after /\ ~Present(after)    -> "none"
       [] before # after /\ Present(after)     -> "place"
       [] OTHER                                -> "remove"

Required(prev, next) ==
  {p \in Slots(prev, next) : Mutation(prev, next, p) # "none"}

\* The removal of what is not there is an error of the whole transition: the
\* two tombstones of a slot have different kinds.
Derivable(prev, next) ==
  \A p \in Required(prev, next) :
    Mutation(prev, next, p) = "remove" => Present(Before(prev, next, p))

-----------------------------------------------------------------------------
\* Preparation, the first look: from the required mutations and what is read at
\* the targets to operations

\* An operation and what was read at its path.
Operation(op, p, want) == [op |-> op, path |-> p, want |-> want, read |-> live[p]]

\* complete_reconciliation_operations, prepare_selected_state
Asked(prev, next) ==
  {Operation(Mutation(prev, next, p), p, After(prev, next, p)) : p \in Required(prev, next)}

\* What std::fs::read returns; links are taken to dangle.
ReadFile(o) == IF o.read.kind = "file" THEN o.read.val ELSE None

\* reconcile_local_modifications: the assertion of a missing target becomes its
\* placement, and so does the assertion of a modified file.
Reconciled(o) ==
  IF o.op = "assert" /\ \/ ~Present(o.read)
                        \/ o.want.kind = "file" /\ ReadFile(o) \notin {None, o.want.val}
  THEN [o EXCEPT !.op = "place"] ELSE o

\* A file can be restored only from the artifacts of the plan.
Restorable(o, held) ==
  o.op = "assert" /\ Reconciled(o).op = "place" /\ o.want.kind = "file" => o.want.val \in held

\* The targets found to be modified since the previous generation was deployed.
Drifted(prev, o) ==
  /\ ReadFile(o) # None
  /\ \/ o.op = "assert" /\ o.want.kind = "file" /\ ReadFile(o) # o.want.val
     \/ /\ o.op = "remove" \/ (o.op = "place" /\ o.want.kind = "file")
        /\ Effective(prev, o.path)
        /\ prev.desired[o.path].kind = "file"
        /\ ReadFile(o) # prev.desired[o.path].val

-----------------------------------------------------------------------------
\* The second look: the operations and the leaves the plan is bound to

\* The leaf as observe_target finds it.
Seen(o) == [op |-> o.op, path |-> o.path, want |-> o.want, read |-> o.read, seen |-> live[o.path]]

\* A placement may replace what this namespace owns, and what its request says
\* may be adopted.
MayReplace(prev, adopt, o) == Effective(prev, o.path) \/ o.path \in adopt

\* observe_operation: a directory that is there already is asserted.
Observed(prev, o) ==
  IF o.op = "place" /\ o.want = Directory /\ o.seen = Directory /\ ~Effective(prev, o.path)
  THEN [o EXCEPT !.op = "assert"] ELSE o

IsEmptyDir(p) == ~\E q \in Paths : IsAncestor(p, q) /\ Present(live[q])

\* Every component on the way is opened as a directory, as far as there is one.
AncestorsOpen(o) == \A q \in Ancestors(o.path) : live[q].kind \in {"none", "dir"}

\* observe_target, validate_leaf_for_operation; `o` is the operation before
\* observe_operation looks at it.
Observable(prev, adopt, o) ==
  /\ AncestorsOpen(o)
  /\ o.op = "absent" => ~Present(o.seen)
  /\ o.op = "place" /\ Present(o.seen) => MayReplace(prev, adopt, o) \/ o.want = Directory
  /\ o.op = "remove" \/ (o.op = "place" /\ MayReplace(prev, adopt, o)) =>
       (o.seen.kind = "dir" => IsEmptyDir(o.path))

\* verify_missing_ancestor_coverage
Covered(ops) ==
  \A o \in ops : o.op \in {"place", "assert"} =>
    \A q \in Ancestors(o.path) :
      Present(live[q]) \/ \E d \in ops : d.op = "place" /\ d.path = q /\ d.want = Directory

\* append_mandatory_findings: the paths of approval-required findings.  An owned
\* target counts as modified only if the first look found it so.
Approvals(prev, drifted, ops) ==
  {o.path : o \in {x \in ops : /\ x.op \in {"place", "remove"}
                               /\ Present(x.seen)
                               /\ ~Effective(prev, x.path) \/ x.path \in drifted}}

-----------------------------------------------------------------------------
\* What prepare and commit both demand of a plan

\* reject_destination_prefixes looks at neighbours in path order.
DestinationsValid(ops) ==
  \A a, b \in ops :
    /\ IsAncestor(a.path, b.path)
    /\ ~\E c \in ops : PathLess(a.path, c.path) /\ PathLess(c.path, b.path)
    => \/ a.op \in {"place", "assert"} /\ a.want = Directory
       \/ a.op = "remove" /\ b.op \in {"remove", "absent"}

Encloses(ops, o) == \E x \in ops : IsAncestor(o.path, x.path)

\* validate_required_operation
Matches(prev, next, ops, o) ==
  LET m == Mutation(prev, next, o.path)
      owned == Effective(prev, o.path)
  IN /\ o.want = After(prev, next, o.path)
     /\ \/ m = "place" /\ o.op = "place" /\ (o.want = Directory => (Present(o.seen) <=> owned))
        \/ m = "place" /\ o.op = "assert" /\ o.want = Directory /\ ~owned /\ Encloses(ops, o)
        \/ m = "remove" /\ o.op = "remove" /\ owned
        \/ m = "assert" /\ o.op = "assert" /\ owned
        \/ m = "assert" /\ o.op = "place" /\ owned /\ (o.want.kind # "file" => ~Present(o.seen))

\* validate_operation_manifest_v1
ManifestValid(prev, next, ops) ==
  /\ DestinationsValid(ops)
  /\ Derivable(prev, next)
  /\ \A o \in ops :
       IF o.op = "absent" THEN ~Effective(prev, o.path) /\ ~Effective(next, o.path)
       ELSE o.path \in Required(prev, next) /\ Matches(prev, next, ops, o)
  /\ \A p \in Required(prev, next) : \E o \in ops : o.path = p /\ o.op # "absent"

\* What checkout makes of the generation it goes back to.
CheckoutSnapshot(current, source) ==
  IF source.life = "disabled" THEN Empty ELSE ReconcileDesired(current.desired, source.desired)

\* validate_selected_restore_authority
RestoreSelected(pl) ==
  IF pl.life = "enabled" THEN pl.restore = None
  ELSE pl.restore # None /\ pl.restore \in pl.points

\* validate_prepared_transition_kind, validate_transition_references
TransitionValid(pl) ==
  LET n == pl.ns
      prev == Gen(pl.expected)
  IN /\ pl.trans # "removal" => RestoreSelected(pl)
     /\ \A g \in pl.points : gens[g].ns = n
     /\ pl.trans # "reconcile" => pl.expected # None
     /\ CASE pl.trans = "reconcile" -> pl.life = "enabled"
          [] pl.trans = "disable"   -> /\ prev.life = "enabled"
                                       /\ pl.life = "disabled" /\ pl.desired = Empty
                                       /\ pl.restore = pl.expected
          [] pl.trans = "enable"    -> /\ prev.life = "disabled" /\ prev.restore = pl.source
                                       /\ pl.life = "enabled"
                                       /\ gens[pl.source].ns = n
                                       /\ gens[pl.source].life = "enabled"
                                       /\ pl.desired = gens[pl.source].desired
          [] pl.trans = "checkout"  -> /\ gens[pl.source].ns = n
                                       /\ pl.life = gens[pl.source].life
                                       /\ pl.restore = gens[pl.source].restore
                                       /\ pl.desired = CheckoutSnapshot(prev, gens[pl.source])
          [] pl.trans = "retention" -> /\ pl.life = prev.life
                                       /\ pl.restore = prev.restore
                                       /\ pl.desired = prev.desired
          [] pl.trans = "removal"   -> /\ pl.life = "disabled" /\ pl.desired = Empty
                                       /\ pl.restore = None /\ pl.points = prev.points

\* The operations that may touch only what the namespace owns already.
NeedsOwner(ops, o) ==
  CASE o.op = "remove" -> TRUE
    [] o.op = "place"  -> Present(o.seen) /\ (o.want = Directory \/ o.seen.kind = "dir")
    [] o.op = "assert" -> o.want = Directory => ~Encloses(ops, o)
    [] o.op = "absent" -> FALSE

HeadUnchecked(pl) == TRUE
HeadExpected(pl) == head[pl.ns] = pl.expected

\* derive_owned_transition
Admitted(pl) ==
  LET n == pl.ns IN
  /\ HeadExpected(pl)
  /\ \A o \in pl.ops : o.op # "absent" =>
       /\ ~ConflictingClaim(n, o.path)
       /\ NeedsOwner(pl.ops, o) => Owns(n, o.path)
  /\ SnapshotValid(pl.desired)
  /\ TransitionValid(pl)
  /\ ManifestValid(Gen(pl.expected), pl, pl.ops)
  /\ \A p \in Claims(pl) : ~ConflictingClaim(n, p)

-----------------------------------------------------------------------------
\* Plans

\* What prepare_inner has made of a selected state after its first look: `adopt`
\* are the paths whose request allows replacement, `stock` the file contents the
\* request brings.  `sound` says that nothing was refused.
Drafted(sel, adopt, stock) ==
  LET prev    == Gen(sel.expected)
      absents == IF sel.trans # "checkout" THEN {}
                 ELSE {p \in DOMAIN sel.desired : /\ ~Present(sel.desired[p])
                                                  /\ p \notin Required(prev, sel)
                                                  /\ ~Effective(prev, p)}
      asked   == Asked(prev, sel) \cup {Operation("absent", p, sel.desired[p]) : p \in absents}
      held    == stock \cup {o.want.val : o \in {x \in asked : x.op = "place" /\ x.want.kind = "file"}}
  IN [sel |-> sel, adopt |-> adopt,
      ops |-> {Reconciled(o) : o \in asked},
      drifted |-> {o.path : o \in {x \in asked : Drifted(prev, x)}},
      sound |-> \A o \in asked : Restorable(o, held)]

\* And after the second: the plan.
Plan(d) ==
  LET sel  == d.sel
      prev == Gen(sel.expected)
      ops  == {Observed(prev, Seen(o)) : o \in d.ops}
  IN [ns |-> sel.ns, expected |-> sel.expected, trans |-> sel.trans, source |-> sel.source,
      life |-> sel.life, desired |-> sel.desired, restore |-> sel.restore, points |-> sel.points,
      ops |-> ops, approve |-> Approvals(prev, d.drifted, ops),
      sound |-> /\ d.sound
                /\ \A o \in d.ops : Observable(prev, d.adopt, Seen(o))
                /\ Covered(ops)]

\* The plan is published if nothing on the way refuses it.
Preparable(pl) == pl.sound /\ Admitted(pl)

\* What selected_generation and the lifecycle operations build on.
Select(n, trans, source, life, desired, restore, points) ==
  [ns |-> n, expected |-> head[n], trans |-> trans, source |-> source,
   life |-> life, desired |-> desired, restore |-> restore, points |-> points]

\* synthesize_ancestor_directories: the ancestors of declared targets that are
\* missing or owned already, and the owned ancestors of targets given up.
Synthesized(prev, declared) ==
  LET above == UNION {Ancestors(p) : p \in DOMAIN declared}
      kept  == {q \in Claims(prev) : /\ prev.desired[q] = Directory
                                     /\ Present(live[q])
                                     /\ \E p \in Claims(prev) \ DOMAIN declared : IsAncestor(q, p)}
      OwnedDir(q) == Effective(prev, q) /\ prev.desired[q] = Directory
  IN {q \in (above \cup kept) \ DOMAIN declared : OwnedDir(q) \/ ~Present(live[q])}

\* desired_snapshot_from_request
RequestedSnapshot(prev, declared) ==
  LET made == Synthesized(prev, declared)
  IN ReconcileDesired(prev.desired,
       [p \in DOMAIN declared \cup made |-> IF p \in made THEN Directory ELSE declared[p]])

ReconcileDraft(n, r) ==
  LET prev == Selected(n)
  IN Drafted(Select(n, "reconcile", None, "enabled", RequestedSnapshot(prev, r.targets), None,
                 IF head[n] = None THEN {} ELSE prev.points),
          r.replace,
          {r.targets[p].val : p \in {q \in DOMAIN r.targets : r.targets[q].kind = "file"}})

DisableDraft(n) ==
  Drafted(Select(n, "disable", None, "disabled", Empty, head[n], Selected(n).points \cup {head[n]}),
       {}, {})

EnableDraft(n) ==
  LET point == Selected(n).restore
  IN Drafted(Select(n, "enable", point, "enabled", gens[point].desired, None, Selected(n).points),
          {}, {})

CheckoutDraft(n, g) ==
  Drafted(Select(n, "checkout", g, gens[g].life, CheckoutSnapshot(Selected(n), gens[g]),
              gens[g].restore, Selected(n).points \cup ({gens[g].restore} \ {None})),
       {}, {})

RemovalDraft(n) ==
  Drafted(Select(n, "removal", None, "disabled", Empty, None, Selected(n).points), {}, {})

\* prepare_authority_update
AuthorityDraft(n, points) ==
  Drafted(Select(n, "retention", None, Selected(n).life, Selected(n).desired, Selected(n).restore,
              points),
       {}, {})

-----------------------------------------------------------------------------
\* Actions

Init ==
  /\ live = [p \in Paths |-> Nothing]
  /\ head = [n \in Namespaces |-> None]
  /\ gens = <<>>
  /\ draft = None /\ plans = {}
  /\ edits = 0
  /\ edited = {}

\* prepare_inner takes maintenance.lock and looks for the first time.  Plans that
\* the bound on commits leaves no room for are not made.
Begin(d) ==
  /\ draft = None /\ Cardinality(plans) < MaxPlans /\ Len(gens) + Cardinality(plans) < MaxGens
  /\ d.sound
  /\ draft' = d
  /\ UNCHANGED <<live, head, gens, plans, edits, edited>>

\* A disabled namespace is restored by enable or checkout only.
Reconcile(n, r) ==
  /\ head[n] = None \/ Selected(n).life = "enabled"
  /\ Begin(ReconcileDraft(n, r))

Disable(n) == head[n] # None /\ Selected(n).life = "enabled" /\ Begin(DisableDraft(n))

Enable(n) ==
  /\ head[n] # None /\ Selected(n).life = "disabled" /\ Selected(n).restore # None
  /\ Begin(EnableDraft(n))

\* load_effectively_retained_generation: the generations the head descends from,
\* and its restore points.  The history bound is taken to exceed MaxGens.
Retained(n, g) ==
  LET lineage[i \in DOMAIN gens] ==
        {i} \cup (IF gens[i].prev = None THEN {} ELSE lineage[gens[i].prev])
  IN head[n] # None /\ g \in lineage[head[n]] \cup Selected(n).points

Checkout(n, g) == Retained(n, g) /\ Begin(CheckoutDraft(n, g))

RemoveNamespace(n) == head[n] # None /\ Begin(RemovalDraft(n))

AddRestorePoint(n, g) ==
  /\ head[n] # None /\ gens[g].ns = n
  /\ Begin(AuthorityDraft(n, Selected(n).points \cup {g}))

DropRestorePoint(n, g) ==
  /\ head[n] # None /\ g \in Selected(n).points /\ Selected(n).restore # g
  /\ Begin(AuthorityDraft(n, Selected(n).points \ {g}))

\* It looks for the second time, and the record is linked.
Publish ==
  /\ draft # None
  /\ Preparable(Plan(draft))
  /\ plans' = plans \cup {Plan(draft)} /\ draft' = None
  /\ UNCHANGED <<live, head, gens, edits, edited>>

\* It refuses, fails or dies.
Abandon ==
  /\ draft # None /\ draft' = None
  /\ UNCHANGED <<live, head, gens, plans, edits, edited>>

\* The paths whose entry a plan creates, replaces or removes.
Changed(pl) == {o.path : o \in {x \in pl.ops : x.op = "place" \/ (x.op = "remove" /\ Present(x.seen))}}

Parent(p) == SubSeq(p, 1, Len(p) - 1)

FreshToWrites(pl, entries, written) == \A o \in pl.ops : o.path \notin entries

\* A plan is bound to the identity of every directory on the way to its targets
\* and of the targets themselves: creating, replacing or removing an entry
\* changes its parent, writing a file changes the file.  A directory that is the
\* target itself is bound as an object if it stays (compare_leaf), and with its
\* entries if it goes (pin_prepared_source).
Fresh(pl, entries, written) ==
  \A o \in pl.ops :
    /\ o.path \notin entries \cup written
    /\ \A e \in entries :
         Parent(e) \notin Ancestors(o.path) \cup {<<>>} \cup ({o.path} \cap Changed(pl))

\* PinnedTarget::verify_prior_state, pin_replacement_source and identify_backup: assertions
\* hold, a directory is removed only if it is empty, and at the slot of a directory
\* only the empty directory of the ledger is replaced.
TargetsAccepted(pl) ==
  LET prior == Gen(pl.expected).desired IN
  \A o \in pl.ops :
    /\ o.op = "assert" => live[o.path] = o.want
    /\ o.op = "remove" /\ o.seen = Directory => IsEmptyDir(o.path)
    /\ o.op = "place" /\ Present(o.seen)
         /\ o.path \in DOMAIN prior /\ prior[o.path].kind = "dir" =>
           live[o.path] = prior[o.path] /\ IsEmptyDir(o.path)

Applied(pl) ==
  [p \in Paths |-> IF \E o \in pl.ops : o.path = p /\ o.op = "place" THEN After(Gen(pl.expected), pl, p)
                   ELSE IF p \in Changed(pl) THEN Nothing
                   ELSE live[p]]

\* commit_v1, from the lock to the catalog; from_prepared is the generation.
Commit(pl) ==
  /\ pl \in plans
  /\ Len(gens) < MaxGens
  /\ Admitted(pl)
  /\ TargetsAccepted(pl)
  /\ live' = Applied(pl)
  /\ IF pl.trans = "removal"
     THEN /\ head' = [head EXCEPT ![pl.ns] = None]
          /\ UNCHANGED gens
     ELSE /\ head' = [head EXCEPT ![pl.ns] = Len(gens) + 1]
          /\ gens' = Append(gens, [ns |-> pl.ns, prev |-> pl.expected, life |-> pl.life,
                                   desired |-> pl.desired, restore |-> pl.restore,
                                   points |-> pl.points])
  /\ plans' = {q \in plans \ {pl} : Fresh(q, Changed(pl), {})}
  /\ edited' = edited \ Changed(pl)
  /\ UNCHANGED <<draft, edits>>

\* A plan nobody commits is pruned some day (module Retention).
Discard(pl) ==
  /\ pl \in plans
  /\ plans' = plans \ {pl}
  /\ UNCHANGED <<live, head, gens, draft, edits, edited>>

\* The user changes one path: a file is written in place or anew, a link or a
\* directory is made, anything that encloses nothing is removed.
UserEdit(p, s) ==
  /\ edits < MaxEdits
  /\ s # live[p]
  /\ \A q \in Ancestors(p) : live[q] = Directory
  /\ \/ s = Nothing /\ IsEmptyDir(p)
     \/ s.kind = "file" /\ live[p].kind \in {"none", "file"}
     \/ s.kind \in {"link", "dir"} /\ live[p] = Nothing
  /\ live' = [live EXCEPT ![p] = s]
  /\ plans' = {pl \in plans : IF s.kind = "file" /\ live[p].kind = "file"
                              THEN Fresh(pl, {}, {p}) ELSE Fresh(pl, {p}, {})}
  /\ edits' = edits + 1
  /\ edited' = edited \cup {p}
  /\ UNCHANGED <<head, gens, draft>>

UserStates == {Nothing, Directory, State("file", UserVal), State("link", UserVal)}

Next ==
  \/ \E n \in Namespaces :
       \/ \E r \in Requests[n] : Reconcile(n, r)
       \/ Disable(n) \/ Enable(n) \/ RemoveNamespace(n)
       \/ \E g \in DOMAIN gens : Checkout(n, g) \/ AddRestorePoint(n, g) \/ DropRestorePoint(n, g)
  \/ Publish \/ Abandon
  \/ \E pl \in plans : Commit(pl) \/ Discard(pl)
  \/ \E p \in Paths, s \in UserStates : UserEdit(p, s)

Spec == Init /\ [][Next]_vars

-----------------------------------------------------------------------------
\* Properties

\* Exclusive ownership: whatever plans of whatever namespaces were prepared and
\* committed in whatever order, no target of one namespace is, contains or lies
\* in a target of another (OwnershipProjectionV1).
ExclusiveOwnership ==
  \A n, m \in Namespaces : n # m =>
    \A p \in Claims(Selected(n)), q \in Claims(Selected(m)) :
      p # q /\ ~IsAncestor(p, q) /\ ~IsAncestor(q, p)

\* The ledger is what is on disk: where the user changed nothing, a target some
\* selected generation claims is there as that generation says, and nothing but
\* directories is there that none claims.  No transition, no checkout of an
\* older generation and no late commit leaves an orphan or loses a target.
LedgerMatchesLive ==
  \A p \in Paths \ edited :
    LET owners == {n \in Namespaces : Owns(n, p)} IN
      IF owners = {} THEN live[p] \in {Nothing, Directory}
      ELSE \A n \in owners : live[p] = Selected(n).desired[p]

\* A preparation begun now would end in a plan that could be committed now.
Works(d) == d.sound /\ Preparable(Plan(d)) /\ TargetsAccepted(Plan(d))

\* A directory of the namespace that encloses none of its targets any more, but
\* a directory that was given up.
Encumbered(n) ==
  \E p \in Claims(Selected(n)) :
    /\ live[p] = Directory /\ ~\E c \in Claims(Selected(n)) : IsAncestor(p, c)
    /\ \E q \in Paths : IsAncestor(p, q) /\ live[q] = Directory

\* In the way of a generation: another namespace, a directory that was left
\* behind, or the absence of one it did not make.
Obstructed(n, gen) ==
  \E p \in Claims(gen) :
    \/ ConflictingClaim(n, p)
    \/ /\ live[p] = Directory
       /\ gen.desired[p] = Directory => ~\E c \in Claims(gen) : IsAncestor(p, c)
    \/ \E q \in Ancestors(p) \ Claims(gen) : ~Present(live[q])

\* Where the user changed nothing, no history of a namespace makes it
\* impossible to disable or to remove it, or to enable it again, but for the
\* directories that transitions leave behind (Releases) and for other
\* namespaces: each command works exactly when none of them is in the way.
NeverWedged ==
  edited = {} => \A n \in Namespaces : head[n] # None =>
    /\ Works(RemovalDraft(n)) <=> ~Encumbered(n)
    /\ Selected(n).life = "enabled" => (Works(DisableDraft(n)) <=> ~Encumbered(n))
    /\ Selected(n).life = "disabled" =>
         (Works(EnableDraft(n)) <=> ~Obstructed(n, gens[Selected(n).restore]))

\* The user's file at the target of o is malm's to replace without a finding: a
\* managed target was no file, or becomes something else than a file.
Unexamined(pl, o) ==
  LET prior == Gen(pl.expected) IN
    /\ Effective(prior, o.path)
    /\ \/ prior.desired[o.path].kind # "file"
       \/ Effective(pl, o.path) /\ pl.desired[o.path].kind # "file"

\* The operations of a plan that discard a file the user wrote, although they have
\* no approval-required finding.
Unapproved(pl) ==
  {o \in pl.ops : /\ o.op \in {"place", "remove"} /\ o.path \in edited
                  /\ live[o.path].kind = "file" /\ o.path \notin pl.approve}

\* A file the user wrote, where malm deployed a file that stays a file or goes, or
\* where malm deployed nothing, is replaced or removed only by a plan with an
\* approval-required finding for it, also when it was written after the plan was
\* made or before it was begun.  One written between the two looks of prepare_inner
\* is not covered (the looks differ), nor is what the code does not examine
\* (append_mandatory_findings, PinnedTarget::revalidate).
EditsNeedApproval ==
  [][\A pl \in plans :
       (\E o \in Unapproved(pl) : o.read = o.seen /\ ~Unexamined(pl, o)) => ~Commit(pl)]_vars

\* "Discarding content malm did not write always requires approval"
\* (prepared_store.rs 2107), of the same files: wherever the edit falls.
DiscardsNeedApproval ==
  [][\A pl \in plans :
       (\E o \in Unapproved(pl) : ~Unexamined(pl, o)) => ~Commit(pl)]_vars
=============================================================================
