------------------------------ MODULE PackLock ------------------------------
(***************************************************************************)
(* Writing malm.lock (the engine's lock operations).  A process pins the   *)
(* root pack's directory, takes its flock, captures the root and every     *)
(* pack it depends on, captures the local ones a second time, and then     *)
(* publishes the lock beside the packs it names.  Meanwhile the user edits *)
(* the same directories and the lock, a second malm runs the same          *)
(* operation, processes die and the power fails.                           *)
(*                                                                         *)
(* A directory is what a path is bound to; moving another directory there  *)
(* is a new element of the sequence the path has been bound to.  An edit   *)
(* writes a version never seen before: a file that is changed and changed  *)
(* back between two readings looks unchanged to the code, as it does here. *)
(***************************************************************************)
EXTENDS PackGraph

CONSTANTS Proc,
          Local,          \* the local locators and Root: sources on disk
          Order,          \* Seq of all sources in the order of LockedSourceV1
          Descriptors,    \* [Local -> Nat]: open directories of one pin
          DescriptorLimit, MaxProcessed, MaxEntries,
          GitPack,        \* [Git -> pack]: the tree of the exact commit
          Inputs,         \* what LockResolutionInputs may grant
          UserLocks,      \* contents a user may give malm.lock
          First,          \* [Local -> [Name -> {0, 1}]]: the files at the start
          MaxOps,         \* bounds: how many operations begin, and together
          Faults          \* how many edits, deaths and losses of power happen

VARIABLES dirs,    \* [Local -> Seq of directories]: the last one is bound
          entry,   \* per directory of Root: its files malm.lock and staging
          disk,    \* per directory of Root: what a loss of power may leave
          objects, \* pack objects in the store
          op,      \* per process: its operation in progress
          acked,   \* per directory of Root: the last acknowledged lock file
          stamp,   \* the last file version or lock file made
          ops,     \* operations begun
          edits, kills, cuts \* how much may still happen

vars == <<dirs, entry, disk, objects, op, acked, stamp, edits, ops, kills, cuts>>
treeVars == <<dirs, objects>>
fileVars == <<entry, disk, acked>>
bounds == <<edits, ops, kills, cuts>>

NoFile == [no |-> 0, by |-> None, base |-> 0, body |-> None, synced |-> TRUE]
Junk == [root |-> None, nodes |-> {}]
EmptyDir == [lock |-> NoFile, staging |-> NoFile]
NoCapture == [src |-> None, changed |-> 0, left |-> {}, files |-> <<>>]

ASSUME PackLockConstants ==
  /\ Local = Source \ Git
  /\ Order \in Seq(Source) /\ \A s \in Source : \E i \in DOMAIN Order : Order[i] = s
  /\ \A s \in Git : GitPack[s] \in Pack
  /\ First \in [Local -> [Name -> {Absent, 1}]]
  /\ None # Junk
  /\ \A i \in Inputs : i.granted \subseteq Source /\ i.scratch \in BOOLEAN
  /\ MaxOps \in Nat /\ Faults \subseteq [edits : Nat, kills : Nat, cuts : Nat]

Idle == [pc |-> "idle", kind |-> None, dir |-> 0, input |-> None, old |-> NoFile,
         pin |-> [s \in Local |-> 0], got |-> [s \in Source |-> None],
         pending |-> {}, edges |-> <<>>, used |-> 0, bytes |-> 0, count |-> 0,
         cap |-> NoCapture, todo |-> {}, snap |-> <<>>, file |-> NoFile]

Init ==
  /\ dirs = [s \in Local |-> <<[files |-> First[s], changed |-> 0]>>]
  /\ entry = <<EmptyDir>> /\ disk = <<{EmptyDir}>> /\ acked = <<0>>
  /\ objects = {}
  /\ op = [p \in Proc |-> Idle]
  /\ stamp = 1
  /\ ops = 0
  /\ \E f \in Faults : edits = f.edits /\ kills = f.kills /\ cuts = f.cuts

-----------------------------------------------------------------------------
Bound(s) == dirs[s][Len(dirs[s])]
\* Mutated: the lock is given up before the publication.
HolderUntilPublication(d) ==
  {p \in Proc : op[p].pc \in {"open", "walk", "resolve", "assemble"} /\ op[p].dir = d}
Holder(d) == {p \in Proc : op[p].pc # "idle" /\ op[p].dir = d}
Disk(s) == PackOf(s, [n \in Name |->
             IF Covers(Decoded(s, Bound(s).files[PackFile]), n)
             THEN Bound(s).files[n] ELSE Absent])

\* The operation of p goes on as o, or ends.
Become(p, o) == op' = [op EXCEPT ![p] = o]
Fail(p) == Become(p, Idle)

\* PinnedSourceRoot::revalidate: the path still leads to the pinned directory.
PinBound(o, s) == o.pin[s] = Len(dirs[s])

\* PinnedSourceRoot::open and resolve_locator: every directory of the path,
\* from / or from the root's own pin, as the path leads there now.
OpenPin == Len(dirs[Root])
ResolveLocator(s) == Len(dirs[s])

\* resolved_locator_descriptor_count: what one more pin adds.
DescriptorsWith(o, s) == o.used + Descriptors[s]

\* linkat, unlinkat and renameat in directory d; fsync makes them last.
Change(d, e) == entry' = [entry EXCEPT ![d] = e] /\ disk' = [disk EXCEPT ![d] = @ \cup {e}]
Sync(d, e) == entry' = [entry EXCEPT ![d] = e] /\ disk' = [disk EXCEPT ![d] = {e}]

Decodes(f) == f.body # Junk

\* read_existing and require_absent, by the kind of operation.
Readable(f) == f # NoFile /\ Decodes(f)
LockAllows(kind, f) == IF kind = "create" THEN f = NoFile ELSE Readable(f)

\* cleanup_staging: a leftover that is a canonical lock is removed for good,
\* anything else is left and refused.
StagingClean(e) == e.staging = NoFile \/ Decodes(e.staging)
CleanupStaging(d) ==
  IF entry[d].staging = NoFile THEN UNCHANGED <<entry, disk>>
  ELSE Sync(d, [entry[d] EXCEPT !.staging = NoFile])

-----------------------------------------------------------------------------
\* operate, up to the walk over the graph.

\* The root is pinned and its directory locked without waiting; a busy lock,
\* an existing lock file (create), a missing or undecodable one (update), or a
\* staging file that is not a canonical lock ends the operation.  A leftover
\* staging file is removed.
Begin(p, kind, input) ==
  /\ op[p].pc = "idle" /\ ops < MaxOps
  /\ LET d == OpenPin
     IN /\ Holder(d) = {}
        /\ LockAllows(kind, entry[d].lock)
        /\ StagingClean(entry[d])
        /\ CleanupStaging(d)
        /\ Become(p, [Idle EXCEPT !.pc = "open", !.kind = kind, !.dir = d,
                                  !.input = input, !.old = entry[d].lock,
                                  !.pin[Root] = d, !.used = Descriptors[Root],
                                  !.cap.src = Root])
  /\ ops' = ops + 1
  /\ UNCHANGED <<treeVars, acked, stamp, edits, kills, cuts>>

-----------------------------------------------------------------------------
\* pack_capture: one source directory, read file by file.

\* read_initial_names, within the allowlist of the manifest.
Present(d) == {n \in Name : d.files[n] # Absent}
InitialNames(d, m) == {n \in Present(d) : Covers(m, n)}

\* The first in the order of seq of the elements in set.
FirstOf(seq, set) ==
  seq[CHOOSE i \in DOMAIN seq :
        seq[i] \in set /\ \A j \in DOMAIN seq : seq[j] \in set => i <= j]

\* capture_pinned_with up to the walk: the allowlist of the manifest as it is
\* now, and the names of the directory.
CaptureOpen(p) ==
  /\ op[p].pc = "open"
  /\ LET s == op[p].cap.src
         d == dirs[s][op[p].pin[s]]
         m == Decoded(s, d.files[PackFile])
     IN IF PinBound(op[p], s) /\ Cardinality(Present(d)) <= MaxEntries
        THEN Become(p, [op[p] EXCEPT
               !.pc = "walk",
               !.cap = [src |-> s, changed |-> d.changed,
                        left |-> InitialNames(d, m),
                        files |-> [n \in Name |-> Absent]]])
        ELSE Fail(p)
  /\ UNCHANGED <<treeVars, fileVars, stamp, bounds>>

\* capture_file: what it reads is the content the file has at one instant,
\* since the snapshots before and after the read are compared.
CaptureFile(p) ==
  /\ op[p].pc = "walk" /\ op[p].cap.left # {}
  /\ LET c == op[p].cap
         n == FirstOf(Names, c.left)
         v == dirs[c.src][op[p].pin[c.src]].files[n]
     IN IF v = Absent THEN Fail(p)
        ELSE Become(p, [op[p] EXCEPT !.cap.left = @ \ {n}, !.cap.files[n] = v])
  /\ UNCHANGED <<treeVars, fileVars, stamp, bounds>>

\* The walk ends with the names and the directory as they were; the captured
\* files make a verified pack, which is published.
CaptureDone(o) ==
  LET c == o.cap
      pack == PackOf(c.src, c.files)
  IN /\ o.pc = "walk" /\ c.left = {}
     /\ dirs[c.src][o.pin[c.src]].changed = c.changed
     /\ PinBound(o, c.src)
     /\ Verified(pack)

\* reread_names, revalidate or from_untrusted_files fails.
CaptureRejected(p) ==
  /\ op[p].pc = "walk" /\ op[p].cap.left = {}
  /\ ~CaptureDone(op[p])
  /\ Fail(p)
  /\ UNCHANGED <<treeVars, fileVars, stamp, bounds>>

-----------------------------------------------------------------------------
\* resolve_graph.

Found(o) == {s \in Source : o.got[s] # None}

\* The accounting of one more pack: the processed bytes and, of distinct
\* packs, the bytes the graph retains.
WithinLimits(o) ==
  /\ o.bytes <= MaxProcessed
  /\ MapThenSumSet(PackBytes, {o.got[s] : s \in Found(o)}) <= MaxGraphBytes

\* The source's pack is entered and its own dependencies wait their turn.
Enter(o, s, pack) ==
  [o EXCEPT !.pc = "resolve", !.got[s] = pack, !.bytes = @ + PackBytes(pack),
            !.pending = @ \cup {s}, !.cap = NoCapture]

\* The dependency whose turn it is names the package it expects.
PackageMatches(o, s, pack) ==
  s = Root \/ ManifestOf(pack).pkg = Head(o.edges).pkg

\* A first capture ends: root or local dependency.
Discovered(p) ==
  /\ CaptureDone(op[p]) /\ op[p].todo = {}
  /\ LET s == op[p].cap.src
         pack == PackOf(s, op[p].cap.files)
         o == Enter(op[p], s, pack)
     IN /\ objects' = objects \cup {pack}
        /\ IF WithinLimits(o) /\ o.used <= DescriptorLimit /\ PackageMatches(op[p], s, pack)
           THEN Become(p, o) ELSE Fail(p)
  /\ UNCHANGED <<dirs, fileVars, stamp, bounds>>

\* pending.pop_first: the first pending source, its edges counted.
NextSource(p) ==
  /\ op[p].pc = "resolve" /\ op[p].edges = <<>> /\ op[p].pending # {}
  /\ LET s == FirstOf(Order, op[p].pending)
         deps == ManifestOf(op[p].got[s]).deps
     IN IF op[p].count + Len(deps) > MaxEdges THEN Fail(p)
        ELSE Become(p, [op[p] EXCEPT !.pending = @ \ {s}, !.edges = deps,
                                     !.count = @ + Len(deps)])
  /\ UNCHANGED <<treeVars, fileVars, stamp, bounds>>

\* The next edge leads to a source discovered before: only its package is
\* compared.
KnownEdge(p) ==
  /\ op[p].pc = "resolve" /\ op[p].edges # <<>>
  /\ LET s == Head(op[p].edges).src
     IN /\ op[p].got[s] # None
        /\ IF PackageMatches(op[p], s, op[p].got[s])
           THEN Become(p, [op[p] EXCEPT !.edges = Tail(@)]) ELSE Fail(p)
  /\ UNCHANGED <<treeVars, fileVars, stamp, bounds>>

\* discover_dependency of a local source: granted, within the node and
\* descriptor limits, pinned through the root's own pin.
LocalEdge(p) ==
  /\ op[p].pc = "resolve" /\ op[p].edges # <<>>
  /\ LET s == Head(op[p].edges).src
         used == DescriptorsWith(op[p], s)
     IN /\ s \in Local /\ op[p].got[s] = None
        /\ IF /\ Cardinality(Found(op[p])) < MaxNodes
              /\ s \in op[p].input.granted
              /\ used <= DescriptorLimit
              /\ PinBound(op[p], Root)
           THEN Become(p, [op[p] EXCEPT !.pc = "open", !.used = used,
                             !.pin[s] = ResolveLocator(s), !.cap.src = s])
           ELSE Fail(p)
  /\ UNCHANGED <<treeVars, fileVars, stamp, bounds>>

\* The digest the lock being updated has for a git source, or None.
Expected(o, s) ==
  LET nodes == {n \in o.old.body.nodes : n.src = s}
  IN IF o.kind = "create" \/ nodes = {} THEN None ELSE (CHOOSE n \in nodes : TRUE).digest

\* discover_dependency of a git source: the locked object when it is in the
\* store, else the tree of the commit, fetched into a scratch directory, which
\* must have the locked digest if there is one.
GitPacks(o, s) ==
  LET expected == Expected(o, s)
  IN IF expected \in objects THEN {expected}
     ELSE IF o.input.scratch /\ expected \in {None, GitPack[s]} THEN {GitPack[s]}
     ELSE {}

\* The fetch may fail, the pack be refused.
GitEdge(p) ==
  /\ op[p].pc = "resolve" /\ op[p].edges # <<>>
  /\ LET s == Head(op[p].edges).src
     IN /\ s \in Git /\ op[p].got[s] = None
        /\ \/ \E pack \in GitPacks(op[p], s) :
                LET o == Enter(op[p], s, pack)
                IN /\ Cardinality(Found(op[p])) < MaxNodes
                   /\ s \in op[p].input.granted
                   /\ Verified(pack) /\ WithinLimits(o)
                   /\ PackageMatches(op[p], s, pack)
                   /\ objects' = objects \cup {pack}
                   /\ Become(p, o)
           \/ Fail(p) /\ UNCHANGED objects
  /\ UNCHANGED <<dirs, fileVars, stamp, bounds>>

LockOf(o) == [root  |-> NodeId(Root, o.got[Root]),
              nodes |-> {LockedPack(s, o.got) : s \in Found(o)}]

\* The graph is complete: components need an execution profile, LockV1::new
\* validates it.  The local sources are then captured again, in order.
GraphResolved(p) ==
  /\ op[p].pc = "resolve" /\ op[p].edges = <<>> /\ op[p].pending = {}
  /\ LET o == op[p]
         locals == Local \cap Found(o)
     IN IF /\ o.input.profile \/ \A s \in Found(o) : ~ManifestOf(o.got[s]).comps
           /\ ValidLock(LockOf(o))
        THEN Become(p, [o EXCEPT !.pc = "open", !.todo = locals,
                          !.cap.src = FirstOf(Order, locals),
                          !.snap = [s \in Local |-> Disk(s)]])
        ELSE Fail(p)
  /\ UNCHANGED <<treeVars, fileVars, stamp, bounds>>

\* Mutated: the second capture is not compared.
SameDigestUnchecked(o, pack) == TRUE

\* validate_local_snapshots: the second capture of a source has the digest of
\* the first.
SameDigest(o, pack) == pack = o.got[pack.src]

Revalidated(p) ==
  /\ CaptureDone(op[p]) /\ op[p].todo # {}
  /\ LET o == op[p]
         pack == PackOf(o.cap.src, o.cap.files)
         rest == o.todo \ {o.cap.src}
         total == o.bytes + PackBytes(pack)
     IN /\ objects' = objects \cup {pack}
        /\ IF total > MaxProcessed \/ ~SameDigest(o, pack) THEN Fail(p)
           ELSE Become(p, [o EXCEPT !.bytes = total, !.todo = rest,
                  !.pc = IF rest = {} THEN "assemble" ELSE "open",
                  !.cap = IF rest = {} THEN NoCapture
                          ELSE [NoCapture EXCEPT !.src = FirstOf(Order, rest)]])
  /\ UNCHANGED <<dirs, fileVars, stamp, bounds>>

-----------------------------------------------------------------------------
\* Publication.

\* assemble_cached_pack_graph and the root's last revalidation; an update
\* that changes nothing syncs what is there, any other writes an unnamed file.
Assemble(p) ==
  /\ op[p].pc = "assemble"
  /\ IF ~(Assembles(LockOf(op[p]), objects) /\ PinBound(op[p], Root)) THEN Fail(p)
     ELSE IF op[p].kind = "update" /\ op[p].old.body = LockOf(op[p])
     THEN Become(p, [op[p] EXCEPT !.pc = "unchanged"])
     ELSE Become(p, [op[p] EXCEPT !.pc = "write"])
  /\ UNCHANGED <<treeVars, fileVars, stamp, bounds>>

\* revalidate_existing: the name still has the file that was read.
OldBound(o) == entry[o.dir].lock = o.old

\* Both fsyncs of an unchanged lock, between two looks at it.
SyncUnchanged(p) ==
  /\ op[p].pc = "unchanged"
  /\ LET o == op[p]
         kept == [o.old EXCEPT !.synced = TRUE]
     IN IF OldBound(o)
        THEN /\ Sync(o.dir, [entry[o.dir] EXCEPT !.lock = kept])
             /\ Become(p, [o EXCEPT !.pc = "kept", !.old = kept])
        ELSE Fail(p) /\ UNCHANGED <<entry, disk>>
  /\ UNCHANGED <<treeVars, acked, stamp, bounds>>

AckUnchanged(p) ==
  /\ op[p].pc = "kept"
  /\ acked' = IF PinBound(op[p], Root) /\ OldBound(op[p])
              THEN [acked EXCEPT ![op[p].dir] = op[p].old.no] ELSE acked
  /\ Fail(p)
  /\ UNCHANGED <<treeVars, entry, disk, stamp, bounds>>

\* write_temporary: unnamed, written and synced before it gets a name.
WriteTemporary(p) ==
  /\ op[p].pc = "write"
  /\ stamp' = stamp + 1
  /\ Become(p, [op[p] EXCEPT !.pc = IF op[p].kind = "create" THEN "link" ELSE "stage",
       !.file = [no |-> stamp', by |-> p, base |-> op[p].old.no,
                 body |-> LockOf(op[p]), synced |-> TRUE]])
  /\ UNCHANGED <<treeVars, fileVars, bounds>>

\* publish_create: a name that exists is never replaced.
LinkCreated(p) ==
  /\ op[p].pc = "link"
  /\ LET o == op[p]
     IN IF PinBound(o, Root) /\ entry[o.dir].lock = NoFile
        THEN /\ Change(o.dir, [entry[o.dir] EXCEPT !.lock = o.file])
             /\ Become(p, [o EXCEPT !.pc = "sync"])
        ELSE Fail(p) /\ UNCHANGED <<entry, disk>>
  /\ UNCHANGED <<treeVars, acked, stamp, bounds>>

\* publish_update, up to link_staging.
LinkStaging(p) ==
  /\ op[p].pc = "stage"
  /\ IF entry[op[p].dir].staging = NoFile
     THEN /\ Change(op[p].dir, [entry[op[p].dir] EXCEPT !.staging = op[p].file])
          /\ Become(p, [op[p] EXCEPT !.pc = "check"])
     ELSE Fail(p) /\ UNCHANGED <<entry, disk>>
  /\ UNCHANGED <<treeVars, acked, stamp, bounds>>

\* The root and the old lock are looked at once more; a failure takes the
\* staging file away again.
RecheckOld(p) ==
  /\ op[p].pc = "check"
  /\ LET o == op[p]
     IN IF PinBound(o, Root) /\ OldBound(o)
        THEN Become(p, [o EXCEPT !.pc = "swap"]) /\ UNCHANGED <<entry, disk>>
        ELSE Fail(p) /\ CleanupStaging(o.dir)
  /\ UNCHANGED <<treeVars, acked, stamp, bounds>>

RenameStaging(p) ==
  /\ op[p].pc = "swap"
  /\ IF entry[op[p].dir].staging # NoFile
     THEN /\ Change(op[p].dir, [lock |-> entry[op[p].dir].staging, staging |-> NoFile])
          /\ Become(p, [op[p] EXCEPT !.pc = "sync"])
     ELSE Fail(p) /\ UNCHANGED <<entry, disk>>
  /\ UNCHANGED <<treeVars, acked, stamp, bounds>>

\* verify_published: the name has the file just written; its directory is
\* synced; then the root is revalidated and the lock read back.
SyncPublished(p) ==
  /\ op[p].pc = "sync"
  /\ IF entry[op[p].dir].lock = op[p].file
     THEN Sync(op[p].dir, entry[op[p].dir]) /\ Become(p, [op[p] EXCEPT !.pc = "verify"])
     ELSE Fail(p) /\ UNCHANGED <<entry, disk>>
  /\ UNCHANGED <<treeVars, acked, stamp, bounds>>

\* A copy of it that the user has put in its place since is the user's: acked
\* stays.
VerifyPublished(p) ==
  /\ op[p].pc = "verify"
  /\ acked' = IF /\ PinBound(op[p], Root) /\ Readable(entry[op[p].dir].lock)
                 /\ entry[op[p].dir].lock.body = op[p].file.body
                 /\ entry[op[p].dir].lock.no = op[p].file.no
              THEN [acked EXCEPT ![op[p].dir] = op[p].file.no] ELSE acked
  /\ Fail(p)
  /\ UNCHANGED <<treeVars, entry, disk, stamp, bounds>>

-----------------------------------------------------------------------------
\* The user, and what goes wrong.

\* A file is written, in place or anew (which changes the directory).
EditFile(s, n) ==
  /\ edits > 0
  /\ LET i == Len(dirs[s])
         new == Bound(s).files[n] = Absent
     IN dirs' = [dirs EXCEPT ![s][i].files[n] = stamp + 1,
                             ![s][i].changed = @ + (IF new THEN 1 ELSE 0)]
  /\ stamp' = stamp + 1 /\ edits' = edits - 1
  /\ UNCHANGED <<fileVars, objects, op, ops, kills, cuts>>

\* A file of the start is removed.
RemoveFile(s, n) ==
  /\ edits > 0
  /\ Bound(s).files[n] = First[s][n] /\ First[s][n] # Absent
  /\ LET i == Len(dirs[s])
     IN dirs' = [dirs EXCEPT ![s][i].files[n] = Absent, ![s][i].changed = @ + 1]
  /\ edits' = edits - 1
  /\ UNCHANGED <<fileVars, objects, op, stamp, ops, kills, cuts>>

\* Another directory with the same files is moved to the path; no lock in it.
ReplaceDirectory(s) ==
  /\ edits > 0
  /\ dirs' = [dirs EXCEPT ![s] = Append(@, [Bound(s) EXCEPT !.changed = 0])]
  /\ IF s = Root
     THEN /\ entry' = Append(entry, EmptyDir) /\ disk' = Append(disk, {EmptyDir})
          /\ acked' = Append(acked, 0)
     ELSE UNCHANGED fileVars
  /\ edits' = edits - 1
  /\ UNCHANGED <<objects, op, stamp, ops, kills, cuts>>

\* malm.lock is written by hand, or removed.
EditLock(body) ==
  /\ edits > 0
  /\ LET d == Len(dirs[Root])
         f == IF body = None THEN NoFile
              ELSE [no |-> stamp + 1, by |-> None, base |-> 0, body |-> body, synced |-> FALSE]
     IN /\ Change(d, [entry[d] EXCEPT !.lock = f])
        /\ acked' = [acked EXCEPT ![d] = 0]
  /\ stamp' = stamp + 1 /\ edits' = edits - 1
  /\ UNCHANGED <<treeVars, op, ops, kills, cuts>>

\* A process dies; its flock goes with it.
Die(p) ==
  /\ kills > 0 /\ op[p].pc # "idle"
  /\ Fail(p) /\ kills' = kills - 1
  /\ UNCHANGED <<treeVars, fileVars, stamp, edits, ops, cuts>>

\* What may be left of a file whose content was not synced.
Survives(f) == {f} \cup IF f.synced THEN {} ELSE {[f EXCEPT !.body = Junk, !.synced = TRUE]}

\* The power fails: every process is gone, every directory is one of the
\* states its changes went through since its last fsync.
PowerCut ==
  /\ cuts > 0 /\ cuts' = cuts - 1
  /\ op' = [p \in Proc |-> Idle]
  /\ \E left \in {f \in [DOMAIN disk -> UNION {disk[d] : d \in DOMAIN disk}] :
                    \A d \in DOMAIN disk : f[d] \in disk[d]} :
       \E lock \in Survives(left[Len(left)].lock),
          staging \in Survives(left[Len(left)].staging) :
         LET e == [left EXCEPT ![Len(left)] = [lock |-> lock, staging |-> staging]]
         IN entry' = e /\ disk' = [d \in DOMAIN disk |-> {e[d]}]
  /\ UNCHANGED <<treeVars, acked, stamp, edits, ops, kills>>

-----------------------------------------------------------------------------
Step(p) ==
  \/ \E kind \in {"create", "update"}, input \in Inputs : Begin(p, kind, input)
  \/ CaptureOpen(p) \/ CaptureFile(p) \/ CaptureRejected(p)
  \/ Discovered(p) \/ NextSource(p)
  \/ KnownEdge(p) \/ LocalEdge(p) \/ GitEdge(p) \/ GraphResolved(p)
  \/ Revalidated(p) \/ Assemble(p)
  \/ SyncUnchanged(p) \/ AckUnchanged(p)
  \/ WriteTemporary(p) \/ LinkCreated(p)
  \/ LinkStaging(p) \/ RecheckOld(p) \/ RenameStaging(p)
  \/ SyncPublished(p) \/ VerifyPublished(p)

Environment ==
  \/ \E s \in Local, n \in Name : EditFile(s, n) \/ RemoveFile(s, n)
  \/ \E s \in Local : ReplaceDirectory(s)
  \/ \E body \in UserLocks \cup {None, Junk} : EditLock(body)
  \/ PowerCut

Next == (\E p \in Proc : Step(p) \/ Die(p)) \/ Environment

Spec == Init /\ [][Next]_vars

-----------------------------------------------------------------------------
\* Properties.

\* A lock file malm publishes describes one state of its local packs: at the
\* instant between the first captures and the second ones, every one of its
\* local digests was the pack on disk (validate_local_snapshots), although
\* each capture reads its files one after the other.  The one exception: the
\* allowlist is read ahead of the walk, so a file that an older manifest left
\* out, and that was removed before the second capture, can be missing.
Narrowed(s, n) == \E v \in DOMAIN Manifests[s] : ~Covers(Manifests[s][v], n)

SnapshotOf(o, s, pack) ==
  /\ pack.src = s
  /\ \A n \in Name :
       \/ pack.files[n] = o.snap[s].files[n]
       \/ /\ pack.files[n] = Absent /\ Narrowed(s, n)
          /\ dirs[s][o.pin[s]].files[n] # o.snap[s].files[n]

LockIsSnapshot ==
  \A p \in Proc : op[p].file # NoFile =>
    \A n \in op[p].file.body.nodes : n.src \in Local => SnapshotOf(op[p], n.src, n.digest)

\* malm.lock becomes a lock that malm wrote only at the hands of the operation
\* that wrote it, and in the place of the lock that operation started from or
\* of one the user has put there since: no operation publishes another's file
\* or loses its update (the flock, the staging name, revalidate_existing).
PublishedByItsWriter ==
  [][\A d \in DOMAIN entry :
       LET old == entry[d].lock
           new == entry'[d].lock
       IN old # new /\ old.no # new.no /\ new.by # None /\ cuts' = cuts
            => /\ op[new.by].file = new /\ op'[new.by].pc = "sync"
               /\ old.by # None => new.base = old.no]_vars

\* What the power may bring back: once a lock has been acknowledged, that lock
\* or a later one, whole, unless the user has changed it since; and never a
\* staging file that the next operation would refuse (cleanup_staging).
CutsAreHarmless ==
  \A d \in DOMAIN disk : \A e \in disk[d] :
    /\ acked[d] # 0 => e.lock.no >= acked[d] /\ e.lock.synced /\ Decodes(e.lock)
    /\ e.staging.synced /\ Decodes(e.staging)

\* Every lock malm publishes, and every one a cut brings back, can be relied on.
LocksReliable == LockIsSnapshot /\ CutsAreHarmless

=============================================================================
