---------------------------- MODULE TrackedRoot ----------------------------
(***************************************************************************)
(* Tracked deployments: a namespace follows a moving selector (a branch)   *)
(* of a remote repository.  prepare resolves the selector, acquires the    *)
(* root pack and the packs of its lock and prepares the first generation;  *)
(* update does the same for the root that the head already tracks, with    *)
(* the grants that were persisted by the first prepare.  The prepared plan *)
(* is then committed against the head it expects.  Acquiring takes         *)
(* minutes, in a sequence of Git subprocesses (GitProcess), while          *)
(* the branch moves and other processes update, disable or prune.          *)
(*                                                                         *)
(* One namespace.  Generations are numbered in commit order; a generation  *)
(* digest covers its predecessor, so a head never comes back.              *)
(***************************************************************************)
EXTENDS GitProcess, Sequences, FiniteSets

CONSTANTS Branch,    \* the commits the selector names, one after the other
          LockOf,    \* per commit: its malm.lock
          UrlOf,     \* per Git dependency: the remote it comes from
          PollLimit, \* MAX_ATTEMPTS of the maintenance lock
          Scenarios, \* the calls made, the generations and unreferenced packs there
                     \* are, how many children are unruly
          None

VARIABLES at,      \* how far the branch has moved
          gens,    \* the generations; the last one is the head
          plans,   \* the prepared records
          objects, \* the pack and tree objects in the store
          sweeper, \* the process that prunes and holds maintenance.lock, or None
          proc,    \* per process: its call
          jobs,    \* per process: what it was asked to do
          seen     \* history: per call, the heads and branch commits it lived through

vars == <<git, unruly, at, gens, plans, objects, sweeper, proc, jobs, seen>>
storeVars == <<at, gens, plans, objects, sweeper>>

-----------------------------------------------------------------------------
Commits == {Branch[i] : i \in DOMAIN Branch}

\* The malm.lock of a commit: whether it is there, canonical and true of the
\* root; the packs it names from remotes and from the same repository.
ASSUME TrackedConstants ==
  /\ Branch # <<>> /\ PollLimit \in Nat \ {0}
  /\ \A c \in Commits : /\ LockOf[c].state \in {"good", "missing", "stale"}
                        /\ LockOf[c].remote \subseteq DOMAIN UrlOf

\* The sources of a commit, each of which needs a grant: remotes, and directories
\* of its repository.
Sources(c) == {UrlOf[k] : k \in LockOf[c].remote} \cup LockOf[c].local

\* The generations a call may find: made by an initial prepare or by an update,
\* which keeps the grants; of a root whose sources are granted.
Legal(history) ==
  /\ history \in Seq({history[i] : i \in DOMAIN history})
  /\ \A i \in DOMAIN history :
       LET g == history[i] IN
       /\ DOMAIN g = {"rev", "grants", "on", "by"} /\ g.by \in {"prepare", "update"}
       /\ Sources(g.rev) \subseteq g.grants
       /\ g.by = "update" => i > 1 /\ g.grants = history[i - 1].grants
ASSUME ScenarioHistories == \A s \in Scenarios : Legal(s.gens)

\* TrackedRootInfrastructureV1 and the grants of an initial request; whether the
\* Git calls of this process are followed step by step.
Job(op, grants, scratch, stepwise) ==
  [op |-> op, grants |-> grants, scratch |-> scratch, stepwise |-> stepwise]

Selected == Branch[at]
HeadNo == Len(gens)
Pack(k) == <<"pack", k>>

\* The canonical objects of a commit's root: a file stands for its files, a tree
\* for its directories.
RootFile(c) == <<"file", c>>
RootTree(c) == <<"tree", c>>
Closure(c) == {RootFile(c), RootTree(c)}
Packs(c) == {Pack(k) : k \in {c} \cup LockOf[c].remote \cup LockOf[c].local}
Roots(pl) == Packs(pl.rev) \cup Closure(pl.rev)

\* A generation, and the plan it comes from.
Generation(pl) == [rev |-> pl.rev, grants |-> pl.grants, on |-> TRUE, by |-> pl.by]

Idle == [pc |-> "idle", calls |-> <<>>, head |-> 0, rev |-> None, grants |-> {},
         todo |-> {}, dep |-> None, polls |-> 0, plan |-> None, result |-> "none"]

Init ==
  \E s \in Scenarios :
    /\ at = 1 /\ jobs = s.jobs /\ unruly = s.unruly
    /\ gens = s.gens /\ plans = {}
    /\ objects = {Pack(k) : k \in s.stored} \cup UNION {Roots(s.gens[i]) : i \in DOMAIN s.gens}
    /\ sweeper = None
    /\ proc = [p \in Caller |-> Idle]
    /\ GitInit
    /\ seen = [p \in Caller |-> {}]

P(p) == proc[p]
Go(p, r) == proc' = [proc EXCEPT ![p] = r]
\* The process is at pc, with no Git call before it.
Here(p, pc) == P(p).pc = pc /\ P(p).calls = <<>>
End(p, result) == Go(p, [P(p) EXCEPT !.pc = "end", !.calls = <<>>, !.result = result])
Quietly == UNCHANGED <<git, unruly, jobs>>

-----------------------------------------------------------------------------
\* PersistedAuthorities::from_initial: the authority of the request; the grants
\* are also what initial_persisted_grants makes last.
BeginPrepare(p) ==
  /\ P(p).pc = "idle" /\ jobs[p].op = "prepare"
  /\ Go(p, [P(p) EXCEPT !.pc = "checkout", !.calls = <<"resolve">>, !.grants = jobs[p].grants])
  /\ UNCHANGED storeVars /\ Quietly

\* update: the head is read before anything is resolved, its authorities with
\* it: PersistedAuthorities::from_tracked.
BeginUpdate(p) ==
  /\ P(p).pc = "idle" /\ jobs[p].op = "update"
  /\ IF HeadNo = 0 \/ ~gens[HeadNo].on
     THEN End(p, "refused")
     ELSE Go(p, [P(p) EXCEPT !.pc = "checkout", !.calls = <<"resolve">>, !.head = HeadNo,
                             !.grants = gens[HeadNo].grants])
  /\ UNCHANGED storeVars /\ Quietly

\* One Git subprocess; ls-remote answers with the commit of that moment.
Call(p) ==
  /\ P(p).calls # <<>> /\ G(p).pc = "idle"
  /\ IF jobs[p].stepwise THEN Spawn(p, Head(P(p).calls)) ELSE CallAtOnce(p, Head(P(p).calls))
  /\ IF Head(P(p).calls) = "resolve" THEN Go(p, [P(p) EXCEPT !.rev = Selected]) ELSE UNCHANGED proc
  /\ UNCHANGED storeVars /\ UNCHANGED jobs

\* Its verdict: resolve_revision, open_fetched_scratch and read_pack give up
\* with the first call that fails.
CallReturns(p) ==
  /\ Returned(p)
  /\ git' = [git EXCEPT ![p] = Quiet]
  /\ IF Succeeded(p)
     THEN Go(p, [P(p) EXCEPT !.calls = Tail(@)])
     ELSE End(p, "failed")
  /\ UNCHANGED storeVars /\ UNCHANGED <<unruly, jobs>>

\* ExactGitCheckout::acquire and the first read_pack: the scratch repository is
\* initialized, the exact commit fetched, its tree read.
Checkout(p) ==
  /\ Here(p, "checkout")
  /\ Go(p, [P(p) EXCEPT !.pc = "lock", !.calls = <<"init", "fetch", "read">>])
  /\ UNCHANGED storeVars /\ Quietly

\* preflight_graph_grants: every source of the lock is granted, and a Git pack
\* the store lacks has a scratch directory.
\* Mutant: a pack the store already has needs no grant.
PreflightUncachedOnly(p) ==
  LET lock == LockOf[P(p).rev] IN
  \A k \in lock.remote :
    Pack(k) \notin objects => UrlOf[k] \in P(p).grants /\ k \in jobs[p].scratch
Preflight(p) ==
  LET lock == LockOf[P(p).rev] IN
  /\ lock.local \subseteq P(p).grants
  /\ \A k \in lock.remote : UrlOf[k] \in P(p).grants /\ (Pack(k) \in objects \/ k \in jobs[p].scratch)

\* acquire_graph up to the preflight: normalize_git_files, the digest of the
\* root, its lock; nothing is published before.
CheckLock(p) ==
  /\ Here(p, "lock")
  /\ IF LockOf[P(p).rev].state = "good" /\ Preflight(p)
     THEN Go(p, [P(p) EXCEPT !.pc = "root"])
     ELSE End(p, "refused")
  /\ UNCHANGED storeVars /\ Quietly

\* A publication under maintenance.lock, which is polled for while a prune
\* holds it: PreparedPublicationLock::acquire.
Publish(p, new, next) ==
  /\ IF sweeper = None
     THEN Go(p, next) /\ objects' = objects \cup new
     ELSE /\ IF P(p).polls + 1 < PollLimit
             THEN Go(p, [P(p) EXCEPT !.polls = @ + 1]) ELSE End(p, "busy")
          /\ UNCHANGED objects
  /\ UNCHANGED <<at, gens, plans, sweeper>> /\ Quietly

\* publish_pack_object_raw of the root, and publish_canonical_pack_tree: the files,
\* then the trees, each under the lock for itself.
PublishRoot(p) ==
  /\ Here(p, "root")
  /\ Publish(p, {Pack(P(p).rev)}, [P(p) EXCEPT !.pc = "file", !.polls = 0])
PublishFile(p) ==
  /\ Here(p, "file")
  /\ Publish(p, {RootFile(P(p).rev)}, [P(p) EXCEPT !.pc = "tree", !.polls = 0])
PublishTree(p) ==
  /\ Here(p, "tree")
  /\ Publish(p, {RootTree(P(p).rev)},
       [P(p) EXCEPT !.pc = "locals", !.polls = 0, !.todo = LockOf[P(p).rev].local])

\* The packs of other directories of the checkout, one after the other.
ReadLocal(p) ==
  /\ Here(p, "locals")
  /\ IF P(p).todo = {}
     THEN Go(p, [P(p) EXCEPT !.pc = "remotes", !.todo = LockOf[P(p).rev].remote])
     ELSE Go(p, [P(p) EXCEPT !.pc = "local", !.calls = <<"read">>])
  /\ UNCHANGED storeVars /\ Quietly
PublishLocal(p) ==
  /\ Here(p, "local")
  /\ \E k \in P(p).todo :
       Publish(p, {Pack(k)}, [P(p) EXCEPT !.pc = "locals", !.polls = 0, !.todo = @ \ {k}])

\* The Git packs: one that is in the store is not fetched.  The scratch directory
\* of a missing one "was preflighted".
NextRemote(p) ==
  /\ Here(p, "remotes")
  /\ IF P(p).todo = {}
     THEN Go(p, [P(p) EXCEPT !.pc = "assemble"])
     ELSE \E k \in P(p).todo :
            IF Pack(k) \in objects THEN Go(p, [P(p) EXCEPT !.todo = @ \ {k}])
            ELSE IF k \notin jobs[p].scratch THEN End(p, "panic")
            ELSE Go(p, [P(p) EXCEPT !.pc = "acquire", !.dep = k])
  /\ UNCHANGED storeVars /\ Quietly

\* acquire_for_lock: a pack that somebody else has published meanwhile is reused;
\* otherwise the digest of what was read must be the locked one.  What a commit
\* names does not change.
AcquireRemote(p) ==
  /\ Here(p, "acquire")
  /\ IF Pack(P(p).dep) \in objects
     THEN Go(p, [P(p) EXCEPT !.pc = "remotes"])
     ELSE Go(p, [P(p) EXCEPT !.pc = "remote", !.calls = <<"init", "fetch", "read">>])
  /\ UNCHANGED storeVars /\ Quietly
PublishRemote(p) ==
  /\ Here(p, "remote")
  /\ Publish(p, {Pack(P(p).dep)}, [P(p) EXCEPT !.pc = "remotes", !.polls = 0, !.todo = @ \ {P(p).dep}])

\* assemble_cached_pack_graph_raw loads every pack again.  prepare reads the head
\* only now.
Assemble(p) ==
  /\ Here(p, "assemble")
  /\ IF ~(Packs(P(p).rev) \subseteq objects) THEN End(p, "failed")
     ELSE IF jobs[p].op = "prepare" THEN Go(p, [P(p) EXCEPT !.pc = "plan", !.head = HeadNo])
     ELSE IF P(p).rev = gens[P(p).head].rev THEN Go(p, [P(p) EXCEPT !.pc = "same"])
     ELSE Go(p, [P(p) EXCEPT !.pc = "plan"])
  /\ UNCHANGED storeVars /\ Quietly

\* Mutant: the head is not read again.
ensure_headNot(p) == TRUE

\* ensure_head: nothing to do, if the head is still the one that was read.
ensure_head(p) == HeadNo = P(p).head
NoChange(p) ==
  /\ Here(p, "same")
  /\ IF ensure_head(p) THEN End(p, "nochange") ELSE End(p, "stale")
  /\ UNCHANGED storeVars /\ Quietly

\* config_prepare::prepare and prepare_inner: under the lock, the head must be
\* the expected one, and enabled.
Prepare(p) ==
  LET pl == [expected |-> P(p).head, rev |-> P(p).rev, grants |-> P(p).grants, by |-> jobs[p].op]
      current == HeadNo = pl.expected /\ (HeadNo > 0 => gens[HeadNo].on)
  IN
  /\ Here(p, "plan")
  /\ IF sweeper # None
     THEN /\ IF P(p).polls + 1 < PollLimit
             THEN Go(p, [P(p) EXCEPT !.polls = @ + 1]) ELSE End(p, "busy")
          /\ UNCHANGED plans
     ELSE IF ~current THEN End(p, "stale") /\ UNCHANGED plans
     ELSE Go(p, [P(p) EXCEPT !.pc = "commit", !.plan = pl, !.polls = 0]) /\ plans' = plans \cup {pl}
  /\ UNCHANGED <<at, gens, objects, sweeper>> /\ Quietly

\* commit_v1: it does not wait for transaction.lock; the head must be the expected
\* one, and the tree of the tracked root must load, with its files.
MayCommit(pl) == HeadNo = pl.expected /\ Closure(pl.rev) \subseteq objects
Commit(p) ==
  /\ Here(p, "commit")
  /\ IF sweeper = None /\ MayCommit(P(p).plan)
     THEN gens' = Append(gens, Generation(P(p).plan)) /\ End(p, "committed")
     ELSE UNCHANGED gens /\ End(p, IF sweeper = None THEN "stale" ELSE "busy")
  /\ UNCHANGED <<at, plans, objects, sweeper>> /\ Quietly

-----------------------------------------------------------------------------
\* Somebody disables or enables the namespace.
Toggle(p) ==
  /\ P(p).pc = "idle" /\ jobs[p].op = "toggle" /\ HeadNo > 0 /\ sweeper = None
  /\ gens' = Append(gens, [gens[HeadNo] EXCEPT !.on = ~@])
  /\ End(p, "committed")
  /\ UNCHANGED <<at, plans, objects, sweeper>> /\ Quietly

\* prune_v1, selecting no plan: it refuses a store in which something a record
\* names is missing; what no record and no generation reaches goes.  The process
\* prunes twice.
Rooted == plans \cup {gens[i] : i \in DOMAIN gens}
Prune(p) ==
  /\ P(p).pc = "idle" /\ jobs[p].op = "prune" /\ sweeper = None
  /\ IF UNION {Roots(r) : r \in Rooted} \subseteq objects
     THEN sweeper' = p /\ Go(p, [P(p) EXCEPT !.pc = "sweep"])
     ELSE UNCHANGED sweeper /\ End(p, "refused")
  /\ UNCHANGED <<at, gens, plans, objects>> /\ Quietly
Sweep(p) ==
  /\ Here(p, "sweep")
  /\ objects' = UNION {Roots(r) : r \in Rooted}
  /\ sweeper' = None
  /\ IF P(p).result = "swept" THEN End(p, "swept") ELSE Go(p, [Idle EXCEPT !.result = "swept"])
  /\ UNCHANGED <<at, gens, plans>> /\ Quietly

\* The branch moves, forward or back.
Move ==
  /\ at < Len(Branch) /\ at' = at + 1
  /\ UNCHANGED <<gens, plans, objects, sweeper, proc>> /\ Quietly

Own(p) ==
  \/ BeginPrepare(p) \/ BeginUpdate(p) \/ Call(p) \/ CallReturns(p)
  \/ Checkout(p) \/ CheckLock(p) \/ PublishRoot(p) \/ PublishFile(p) \/ PublishTree(p)
  \/ ReadLocal(p) \/ PublishLocal(p) \/ NextRemote(p) \/ AcquireRemote(p) \/ PublishRemote(p)
  \/ Assemble(p) \/ NoChange(p) \/ Prepare(p) \/ Commit(p)
  \/ Toggle(p) \/ Prune(p) \/ Sweep(p)

Remember ==
  seen' = [p \in Caller |-> IF jobs[p].op = "update" /\ proc'[p].pc # "idle" /\ proc[p].pc # "end"
                            THEN seen[p] \cup {<<Len(gens), Selected>>, <<Len(gens'), Branch[at']>>}
                            ELSE seen[p]]

Next ==
  /\ \/ \E p \in Caller : Own(p)
     \/ \E p \in Caller : GitStep(p) /\ UNCHANGED storeVars /\ UNCHANGED <<proc, jobs>>
     \/ Move
  /\ Remember

\* Threads of a process that can run do run, and time passes; a call makes
\* finitely many of these steps but for the polling of supervise.  Git, its
\* helper and the branch owe nothing.
Calm(p, s) ==
  \/ G(p).pc \in {"idle", "done"} \/ s \in G(p).ended
  \/ G(p).pipe[s] = 0 /\ Open(G(p))
Watching(p) == G(p).pc \in {"limits", "exit", "deadline"}
Joinable(p) == G(p).pc = "join" /\ G(p).ended = Streams
Waits(p) ==
  \/ P(p).pc = "end"
  \/ P(p).pc = "idle" /\ jobs[p].op \in {"toggle", "none"}
  \/ G(p).pc \notin {"idle", "done"}
Fairness ==
  \A p \in Caller :
    /\ \A s \in Streams : []<>Calm(p, s)
    /\ []<>(~Watching(p)) \/ []<><<TRUE>>_(git[p].pc)
    /\ []<>(~Watching(p) \/ G(p).late)
    /\ []<>~Joinable(p)
    /\ []<>Waits(p) \/ []<><<TRUE>>_(<<proc[p], git[p].pc>>)
Spec == Init /\ [][Next]_vars /\ Fairness

-----------------------------------------------------------------------------
\* An update is as good as instantaneous although it takes minutes: when it
\* reports that there is nothing to do, or its plan is committed, there was a
\* moment during the call at which the head was the one it replaces and the
\* selector named the revision it installs.
UpdatesLinearize ==
  \A p \in Caller :
    jobs[p].op = "update" /\ P(p).result \in {"nochange", "committed"} =>
      <<P(p).head, P(p).rev>> \in seen[p]

\* What the person who tracked the root did not grant never becomes part of the
\* namespace, however the branch moves: each generation an update makes is
\* locked to sources that the last initial prepare granted.
Consent(n) ==
  LET asked == {i \in 1..n : gens[i].by = "prepare"}
  IN gens[CHOOSE i \in asked : \A j \in asked : j <= i].grants
GrantsNeverWiden == \A n \in DOMAIN gens : Sources(gens[n].rev) \subseteq Consent(n)

\* Every call returns: no Git child, and no helper it leaves behind, can hold a
\* thread of the process for ever.
CallsReturn == \A p \in Caller : P(p).pc # "idle" ~> P(p).pc = "end"
=============================================================================
