----------------------------- MODULE StoreInit -----------------------------
(***************************************************************************)
(* How a store comes into being and is opened: Engine::initialize_store,   *)
(* store_status and open_ready_store, with Committer::initialize_catalog_v1*)
(* that initialize_store ends in.  Several processes run these calls at    *)
(* once, on the one path the configuration names; a process may be killed, *)
(* power may be lost, and another program may move the directory away, put *)
(* one of its own in its place or a file of its own into it.               *)
(*                                                                         *)
(* A call pins directories by descriptor and afterwards works on what it   *)
(* pinned, so a directory is an object of its own ("Dirs") and the path is *)
(* a variable that names at most one of them.  The steps are the system    *)
(* calls whose order matters; a check that reads one name is one step.     *)
(*                                                                         *)
(* "onDisk" holds what a loss of power may leave of each directory: its    *)
(* states since its last fsync, as in JournalFile.                         *)
(***************************************************************************)
EXTENDS Naturals, FiniteSets

CONSTANTS Proc,         \* processes
          Dirs,         \* directories that initializers may create
          Foreign,      \* a directory of another program, not empty
          None,         \* no directory, no process
          Bounds,       \* bounds: per process how many calls it makes; how many
                        \* processes are killed, how often power is lost, how
                        \* often another program interferes
          MarkerTries,  \* the 3 attempts of store::pin_with
          LayoutTries,  \* the 32 attempts of store::validate_layout
          LockTries     \* the 200 attempts of PreparedPublicationLock::acquire

\* The other program's directory is none of malm's; a root has one descriptor and
\* three more names that can appear while it is looked at.
ASSUME StoreConstants ==
  /\ Foreign \notin Dirs /\ None \notin Dirs \cup {Foreign}
  /\ MarkerTries \in Nat /\ MarkerTries > 1 /\ LayoutTries \in Nat /\ LayoutTries > 3
  /\ LockTries \in Nat /\ LockTries > 0

VARIABLES parent,    \* the state parent: safe, missing or unsafe
          root,      \* the directory the path names
          entries,   \* per directory: its names
          catalog,   \* per directory: is there a state/catalog.json
          onDisk,    \* what a loss of power may leave: [root, entries, catalog]
          holder,    \* per directory: who holds its transaction.lock
          proc,      \* per process: the call it is in
          made,      \* the directories created so far
          announced, \* history: some initialize_store has reported a ready store
          moved,     \* history: another program has interfered
          left       \* what may still happen: [calls, kills, cuts, moves]

vars == <<parent, root, entries, catalog, onDisk, holder, proc, made,
          announced, moved, left>>
files == <<root, entries, catalog, onDisk, made>>
others == <<parent, announced, moved, left>>

-----------------------------------------------------------------------------
\* malm_root::final_root_entry: the names a store root may hold.
Marker == "descriptor.json"
Lock == "transaction.lock"
State == "state"
Maintenance == "maintenance.lock"
FinalRootEntries == {Marker, Lock, State, Maintenance}
Alien == "a file of another program"

Objects == Dirs \cup {Foreign}

\* The calls, and what they answer.
Ops == {"initialize", "status", "publish"}
Answers == {"absent", "uninitialized", "ready"}
Errors == {"StateParentMissing", "UnsafeDirectory", "RootObservationChanged",
           "MarkerMissingWithOtherEntries", "UnexpectedRootEntry",
           "ObservationChanged", "InvalidStore", "MissingStateCatalog"}
\* A call without an answer: it runs or was killed, or it is a publisher that
\* has waited for another one long enough.
Unanswered == {"none", "killed", "PublicationBusy"}

Idle == [op |-> "none", pc |-> "idle", back |-> "none", pin |-> None,
         names |-> {}, tries |-> 0, found |-> "none", state |-> FALSE,
         res |-> "none", late |-> FALSE]

Init ==
  /\ parent \in {"safe", "missing", "unsafe"}
  /\ root = None
  /\ entries = [d \in Objects |-> IF d = Foreign THEN {Alien} ELSE {}]
  /\ catalog = [d \in Objects |-> FALSE]
  /\ onDisk = [root |-> {None},
               entries |-> [d \in Objects |-> {entries[d]}],
               catalog |-> [d \in Objects |-> {FALSE}]]
  /\ holder = [d \in Objects |-> None]
  /\ proc = [p \in Proc |-> Idle]
  /\ made = {}
  /\ announced = FALSE
  /\ moved = FALSE
  /\ left \in Bounds

-----------------------------------------------------------------------------
\* Directory operations, and fsync of each directory.
Name(d) ==
  /\ root' = d
  /\ onDisk' = [onDisk EXCEPT !.root = @ \cup {d}]
AddEntry(d, name) ==
  /\ entries' = [entries EXCEPT ![d] = @ \cup {name}]
  /\ onDisk' = [onDisk EXCEPT !.entries[d] = @ \cup {entries[d] \cup {name}}]
SyncRoot(d) == onDisk' = [onDisk EXCEPT !.entries[d] = {entries[d]}]
SyncState(d) == onDisk' = [onDisk EXCEPT !.catalog[d] = {catalog[d]}]

Pin(p) == proc[p].pin
At(p, pc) == proc[p].pc = pc
Set(p, r) == proc' = [proc EXCEPT ![p] = r]
Goto(p, pc) == Set(p, [proc[p] EXCEPT !.pc = pc])

\* store::inspect on the pinned root, then "back".
Inspect(p, back) ==
  Set(p, [proc[p] EXCEPT !.pc = "inspect", !.back = back, !.tries = 0])

\* StoreHandles::revalidate, then "back".
Revalidate(p, back) ==
  Set(p, [proc[p] EXCEPT !.pc = "revalidate", !.back = back, !.tries = 0])

\* Mutant: the lock's descriptor is never closed.
ReleasedNot(p) == holder

\* The call ends; whatever lock it held goes with its descriptor.
Released(p) == [d \in Objects |-> IF holder[d] = p THEN None ELSE holder[d]]
Return(p, res) ==
  /\ Set(p, [Idle EXCEPT !.op = proc[p].op, !.res = res, !.late = proc[p].late])
  /\ holder' = Released(p)
Fail(p, error) == Return(p, error) /\ UNCHANGED <<files, others>>

\* validate_store_descriptor: a directory with a descriptor.
IsStore(d) == IF d = None THEN FALSE ELSE Marker \in entries[d]

\* ensure_bound: the path still names the pinned directory.
Bound(p) == root = Pin(p)

-----------------------------------------------------------------------------
\* A call begins.
Call(p, op) ==
  /\ At(p, "idle") /\ left.calls[p] > 0
  /\ left' = [left EXCEPT !.calls[p] = @ - 1]
  /\ Set(p, [Idle EXCEPT !.op = op, !.pc = "parent", !.late = announced])
  /\ UNCHANGED <<files, holder, parent, announced, moved>>

\* open_state_parent and validate_state_parent.
ParentRefused(p) ==
  /\ At(p, "parent")
  /\ \/ /\ parent = "missing"
        /\ Return(p, IF proc[p].op = "initialize" THEN "StateParentMissing" ELSE "absent")
        /\ UNCHANGED <<files, others>>
     \/ parent = "unsafe" /\ Fail(p, "UnsafeDirectory")

\* With a safe parent, open_child_directory: an existing root is pinned; without
\* one a reader says so and an initializer builds one.
OpenChild(p) ==
  /\ At(p, "parent") /\ parent = "safe"
  /\ \/ /\ root # None
        /\ Set(p, [proc[p] EXCEPT !.pc = "bound", !.pin = root])
        /\ UNCHANGED <<files, holder, others>>
     \/ /\ root = None /\ proc[p].op # "initialize"
        /\ Return(p, "absent")
        /\ UNCHANGED <<files, others>>
     \/ /\ root = None /\ proc[p].op = "initialize"
        /\ Goto(p, "stage")
        /\ UNCHANGED <<files, holder, others>>

\* create_staged_state_root: a private directory under a random name.  "Dirs"
\* bounds how many are created.
Stage(p) ==
  /\ At(p, "stage") /\ Dirs \ made # {}
  /\ LET d == CHOOSE d \in Dirs : d \notin made
     IN  /\ made' = made \cup {d}
         /\ Set(p, [proc[p] EXCEPT !.pc = "rename", !.pin = d])
  /\ UNCHANGED <<root, entries, catalog, onDisk, holder, others>>

\* renameat_with(NOREPLACE): published, or discarded in favour of the winner's.
Rename(p) ==
  /\ At(p, "rename")
  /\ \/ /\ root = None
        /\ Name(Pin(p))
        /\ Goto(p, "bound")
     \/ /\ root # None
        /\ Set(p, [proc[p] EXCEPT !.pc = "reopen", !.pin = None])
        /\ UNCHANGED <<root, onDisk>>
  /\ UNCHANGED <<entries, catalog, made, holder, others>>

Reopen(p) ==
  /\ At(p, "reopen")
  /\ \/ root = None /\ Fail(p, "RootObservationChanged")
     \/ /\ root # None
        /\ Set(p, [proc[p] EXCEPT !.pc = "bound", !.pin = root])
        /\ UNCHANGED <<files, holder, others>>

\* validate_store_root, ensure_bound and open_io_directory, then store::inspect.
BoundRoot(p) ==
  /\ At(p, "bound")
  /\ \/ ~Bound(p) /\ Fail(p, "RootObservationChanged")
     \/ /\ Bound(p)
        /\ Inspect(p, IF proc[p].op = "initialize" THEN "decide" ELSE "final")
        /\ UNCHANGED <<files, holder, others>>

-----------------------------------------------------------------------------
\* store::pin_with: the descriptor is looked for by name first ...
StatMarker(p) ==
  /\ At(p, "inspect")
  /\ \/ proc[p].tries = MarkerTries /\ Fail(p, "ObservationChanged")
     \/ /\ proc[p].tries < MarkerTries
        /\ IF Marker \in entries[Pin(p)]
             THEN Set(p, [proc[p] EXCEPT !.pc = "layout", !.found = "ready", !.tries = 0])
             ELSE Goto(p, "list")
        /\ UNCHANGED <<files, holder, others>>

\* ... and a root without it is missing its descriptor only when it is empty,
\* or when the descriptor has not appeared in the meantime.
ListRoot(p) ==
  /\ At(p, "list")
  /\ IF entries[Pin(p)] = {}
       THEN Set(p, [proc[p] EXCEPT !.pc = proc[p].back, !.back = "none", !.found = "missing", !.tries = 0])
       ELSE Goto(p, "restat")
  /\ UNCHANGED <<files, holder, others>>

\* Mutant: the descriptor is not looked for again.
RestatNot(p) == At(p, "restat") /\ Fail(p, "MarkerMissingWithOtherEntries")

Restat(p) ==
  /\ At(p, "restat")
  /\ \/ /\ Marker \in entries[Pin(p)]
        /\ Set(p, [proc[p] EXCEPT !.pc = "inspect", !.tries = @ + 1])
        /\ UNCHANGED <<files, holder, others>>
     \/ Marker \notin entries[Pin(p)] /\ Fail(p, "MarkerMissingWithOtherEntries")

\* validate_layout_once: the names are listed and each one checked ...
List(p) ==
  \/ entries[Pin(p)] \ FinalRootEntries # {} /\ Fail(p, "UnexpectedRootEntry")
  \/ /\ entries[Pin(p)] \subseteq FinalRootEntries
     /\ Set(p, [proc[p] EXCEPT !.pc = "relayout", !.names = entries[Pin(p)]])
     /\ UNCHANGED <<files, holder, others>>

Layout(p) == At(p, "layout") /\ List(p)

\* StoreHandles::revalidate: root_chain.ensure_bound, validate_store_descriptor,
\* then the layout.
RevalidateHandles(p) ==
  /\ At(p, "revalidate")
  /\ \/ Bound(p) /\ IsStore(Pin(p)) /\ List(p)
     \/ ~(Bound(p) /\ IsStore(Pin(p))) /\ Fail(p, "InvalidStore")

\* ... and listed again: a change in between starts over, up to a limit.  The
\* code compares the root's fstat as well, taken before the first listing and
\* before the second; names are only added while a call runs, so that it differs
\* exactly when a name has come since.
Relayout(p) ==
  /\ At(p, "relayout")
  /\ \/ /\ proc[p].names = entries[Pin(p)]
        /\ Set(p, [proc[p] EXCEPT !.pc = proc[p].back, !.back = "none", !.names = {}, !.tries = 0])
        /\ UNCHANGED <<files, holder, others>>
     \/ /\ proc[p].names # entries[Pin(p)] /\ proc[p].tries + 1 < LayoutTries
        /\ Set(p, [proc[p] EXCEPT !.pc = "layout", !.names = {}, !.tries = @ + 1])
        /\ UNCHANGED <<files, holder, others>>
     \/ /\ proc[p].names # entries[Pin(p)] /\ proc[p].tries + 1 >= LayoutTries
        /\ Fail(p, "ObservationChanged")

-----------------------------------------------------------------------------
\* initialize_store_with: publish a descriptor where there is none.  publish_with
\* writes an unnamed file and inspects the root once more before it links.
Decide(p) ==
  /\ At(p, "decide")
  /\ \/ proc[p].found = "ready" /\ Goto(p, "handles") /\ UNCHANGED <<files, holder, others>>
     \/ /\ proc[p].found = "missing" /\ Bound(p)
        /\ Inspect(p, "linkMarker")
        /\ UNCHANGED <<files, holder, others>>
     \/ proc[p].found = "missing" /\ ~Bound(p) /\ Fail(p, "RootObservationChanged")

LinkMarker(p) ==
  /\ At(p, "linkMarker")
  /\ \/ proc[p].found = "ready" /\ Goto(p, "markerSync") /\ UNCHANGED files
     \/ /\ proc[p].found = "missing" /\ Marker \notin entries[Pin(p)]
        /\ AddEntry(Pin(p), Marker)
        /\ Goto(p, "markerSync")
        /\ UNCHANGED <<root, catalog, made>>
     \/ /\ proc[p].found = "missing" /\ Marker \in entries[Pin(p)]
        /\ Inspect(p, "markerSync")
        /\ UNCHANGED files
  /\ UNCHANGED <<holder, others>>

\* fsync(root); a descriptor of this process is inspected afterwards.
MarkerSync(p) ==
  /\ At(p, "markerSync")
  /\ SyncRoot(Pin(p))
  /\ IF proc[p].found = "missing" THEN Inspect(p, "confirm") ELSE Goto(p, "handles")
  /\ UNCHANGED <<root, entries, catalog, made, holder, others>>

Confirm(p) ==
  /\ At(p, "confirm")
  /\ \/ proc[p].found = "ready" /\ Goto(p, "handles") /\ UNCHANGED <<files, holder, others>>
     \/ proc[p].found = "missing" /\ Fail(p, "ObservationChanged")

-----------------------------------------------------------------------------
\* StoreHandles::open resolves the path anew and validates what it finds; the
\* optional containers are pinned by the next step.
OpenHandles(p) ==
  /\ At(p, "handles")
  /\ \/ /\ IsStore(root)
        /\ Set(p, [proc[p] EXCEPT !.pc = "layout", !.back = "children", !.pin = root,
                                  !.found = "none"])
        /\ UNCHANGED <<files, holder, others>>
     \/ ~IsStore(root) /\ Fail(p, "InvalidStore")

Children(p) ==
  /\ At(p, "children")
  /\ Set(p, [proc[p] EXCEPT !.pc = "revalidate", !.back = "preflight", !.tries = 0,
                            !.state = State \in entries[Pin(p)]])
  /\ UNCHANGED <<files, holder, others>>

\* preflight_catalog_initialization: the catalog is read, and when there is none
\* state/ is listed.
Preflight(p) ==
  /\ At(p, "preflight")
  /\ Goto(p, IF proc[p].state /\ ~catalog[Pin(p)] THEN "listState" ELSE "lock")
  /\ UNCHANGED <<files, holder, others>>

\* MissingFromNonempty waits for whoever holds an existing lock and creates none.
ListState(p) ==
  /\ At(p, "listState")
  /\ \/ /\ catalog[Pin(p)] /\ Lock \notin entries[Pin(p)]
        /\ Fail(p, "MissingStateCatalog")
     \/ /\ catalog[Pin(p)] /\ Lock \in entries[Pin(p)]
        /\ Goto(p, "flock")
        /\ UNCHANGED <<files, holder, others>>
     \/ ~catalog[Pin(p)] /\ Goto(p, "lock") /\ UNCHANGED <<files, holder, others>>

\* acquire_lock: created or opened, and the root synced either way.
OpenLock(p) ==
  /\ At(p, "lock")
  /\ IF Lock \in entries[Pin(p)] THEN UNCHANGED <<entries, onDisk>> ELSE AddEntry(Pin(p), Lock)
  /\ Goto(p, "lockSync")
  /\ UNCHANGED <<root, catalog, made, holder, others>>

LockSync(p) ==
  /\ At(p, "lockSync")
  /\ SyncRoot(Pin(p))
  /\ Goto(p, "flock")
  /\ UNCHANGED <<root, entries, catalog, made, holder, others>>

\* flock(LOCK_EX) waits; then refresh_optional_children and revalidate.
Flock(p) ==
  /\ At(p, "flock")
  /\ holder[Pin(p)] = None
  /\ holder' = [holder EXCEPT ![Pin(p)] = p]
  /\ Set(p, [proc[p] EXCEPT !.pc = "revalidate", !.back = "second", !.tries = 0,
                            !.state = State \in entries[Pin(p)]])
  /\ UNCHANGED <<files, others>>

\* The preflight again, under the lock.
Second(p) ==
  /\ At(p, "second")
  /\ Goto(p, IF proc[p].state /\ catalog[Pin(p)] THEN "link" ELSE "container")
  /\ UNCHANGED <<files, holder, others>>

\* ensure_state_container.
Container(p) ==
  /\ At(p, "container")
  /\ IF State \in entries[Pin(p)] THEN UNCHANGED <<entries, onDisk>> ELSE AddEntry(Pin(p), State)
  /\ Goto(p, "containerSync")
  /\ UNCHANGED <<root, catalog, made, holder, others>>

ContainerSync(p) ==
  /\ At(p, "containerSync")
  /\ SyncRoot(Pin(p))
  /\ Revalidate(p, "link")
  /\ UNCHANGED <<root, entries, catalog, made, holder, others>>

\* publish_initial_catalog_file: the catalog that is there is kept, or the empty
\* one linked; both are synced.
LinkCatalog(p) ==
  /\ At(p, "link")
  /\ catalog' = [catalog EXCEPT ![Pin(p)] = TRUE]
  /\ onDisk' = [onDisk EXCEPT !.catalog[Pin(p)] = @ \cup {TRUE}]
  /\ Goto(p, "catalogSync")
  /\ UNCHANGED <<root, entries, made, holder, others>>

CatalogSync(p) ==
  /\ At(p, "catalogSync")
  /\ SyncState(Pin(p))
  /\ Revalidate(p, "unlock")
  /\ UNCHANGED <<root, entries, catalog, made, holder, others>>

\* initialize_catalog_v1 returns and drops its lock.
Unlock(p) ==
  /\ At(p, "unlock")
  /\ holder' = Released(p)
  /\ Goto(p, "finish")
  /\ UNCHANGED <<files, others>>

-----------------------------------------------------------------------------
\* Mutant: the parent is not synced.
FinishRootOnly(p) ==
  /\ At(p, "finish")
  /\ SyncRoot(Pin(p))
  /\ Inspect(p, "final")
  /\ UNCHANGED <<root, entries, catalog, made, holder, others>>

\* fsync(state_io) and fsync(parent), then the last inspection.
Finish(p) ==
  /\ At(p, "finish")
  /\ onDisk' = [onDisk EXCEPT !.root = {root}, !.entries[Pin(p)] = {entries[Pin(p)]}]
  /\ Inspect(p, "final")
  /\ UNCHANGED <<root, entries, catalog, made, holder, others>>

\* The postcondition of every call: the descriptor inspected, the path bound.
\* open_ready_store, which a publisher calls, revalidates once more.
Final(p) ==
  /\ At(p, "final")
  /\ \/ ~Bound(p) /\ Fail(p, "RootObservationChanged")
     \/ /\ Bound(p) /\ proc[p].op = "initialize" /\ proc[p].found = "missing"
        /\ Fail(p, "ObservationChanged")
     \/ /\ Bound(p) /\ proc[p].op = "initialize" /\ proc[p].found = "ready"
        /\ Return(p, "ready")
        /\ announced' = TRUE
        /\ UNCHANGED <<files, parent, moved, left>>
     \/ /\ Bound(p) /\ (proc[p].op = "status" \/ proc[p].found = "missing")
        /\ proc[p].op # "initialize"
        /\ Return(p, IF proc[p].found = "missing" THEN "uninitialized" ELSE "ready")
        /\ UNCHANGED <<files, others>>
     \/ /\ Bound(p) /\ proc[p].op = "publish" /\ proc[p].found = "ready"
        /\ Revalidate(p, "maintenance")
        /\ UNCHANGED <<files, holder, others>>

Published(p) == At(p, "published") /\ Return(p, "ready") /\ UNCHANGED <<files, others>>

\* PreparedPublicationLock::try_acquire: maintenance.lock is created and synced
\* by the first publisher ...
OpenMaintenance(p) ==
  /\ At(p, "maintenance")
  /\ \/ /\ Maintenance \in entries[Pin(p)]
        /\ Goto(p, "tryLock")
        /\ UNCHANGED <<entries, onDisk>>
     \/ /\ Maintenance \notin entries[Pin(p)]
        /\ AddEntry(Pin(p), Maintenance)
        /\ Goto(p, "maintenanceSync")
  /\ UNCHANGED <<root, catalog, made, holder, others>>

MaintenanceSync(p) ==
  /\ At(p, "maintenanceSync")
  /\ SyncRoot(Pin(p))
  /\ Goto(p, "tryLock")
  /\ UNCHANGED <<root, entries, catalog, made, holder, others>>

\* ... and locked without waiting, up to LockTries times: a publisher holds the
\* lock from here until its call ends.
HoldsPublication(p) == At(p, "published") \/ proc[p].back = "published"

TryLock(p) ==
  /\ At(p, "tryLock")
  /\ LET busy == \E q \in Proc : HoldsPublication(q) /\ Pin(q) = Pin(p)
     IN  \/ /\ ~busy
            /\ Revalidate(p, "published")
            /\ UNCHANGED <<files, holder, others>>
         \/ /\ busy /\ proc[p].tries + 1 < LockTries
            /\ Set(p, [proc[p] EXCEPT !.pc = "maintenance", !.tries = @ + 1])
            /\ UNCHANGED <<files, holder, others>>
         \/ /\ busy /\ proc[p].tries + 1 >= LockTries
            /\ Fail(p, "PublicationBusy")

-----------------------------------------------------------------------------
\* A process is killed; the kernel drops its locks.
Kill(p) ==
  /\ ~At(p, "idle") /\ left.kills > 0
  /\ left' = [left EXCEPT !.kills = @ - 1]
  /\ Return(p, "killed")
  /\ UNCHANGED <<files, parent, announced, moved>>

\* One of the states of each directory.
OneOfEach(f) ==
  {g \in [Objects -> UNION {f[d] : d \in Objects}] : \A d \in Objects : g[d] \in f[d]}

\* Power is lost: every directory is one of the states it had since its last
\* fsync, and a state/ whose name is lost takes its catalog along.
PowerLoss ==
  /\ left.cuts > 0
  /\ left' = [left EXCEPT !.cuts = @ - 1]
  /\ root' \in onDisk.root
  /\ entries' \in OneOfEach(onDisk.entries)
  /\ \E c \in OneOfEach(onDisk.catalog) :
       catalog' = [d \in Objects |-> c[d] /\ State \in entries'[d]]
  /\ onDisk' = [root |-> {root'},
                entries |-> [d \in Objects |-> {entries'[d]}],
                catalog |-> [d \in Objects |-> {catalog'[d]}]]
  /\ holder' = [d \in Objects |-> None]
  /\ proc' = [p \in Proc |-> IF At(p, "idle") THEN proc[p]
                             ELSE [Idle EXCEPT !.op = proc[p].op, !.res = "killed"]]
  /\ UNCHANGED <<parent, made, announced, moved>>

\* Another program: moves the directory away, puts its own there, or puts a
\* file of its own into the store root.
Move(d) ==
  /\ left.moves > 0 /\ parent = "safe"
  /\ d \in {None, Foreign} \ {root}
  /\ Name(d)
  /\ moved' = TRUE
  /\ left' = [left EXCEPT !.moves = @ - 1]
  /\ UNCHANGED <<entries, catalog, made, holder, proc, parent, announced>>
Intrude ==
  /\ left.moves > 0
  /\ root \in Dirs /\ Alien \notin entries[root]
  /\ AddEntry(root, Alien)
  /\ moved' = TRUE
  /\ left' = [left EXCEPT !.moves = @ - 1]
  /\ UNCHANGED <<root, catalog, made, holder, proc, parent, announced>>

-----------------------------------------------------------------------------
Begin(p) == \E op \in Ops : Call(p, op)
Step(p) ==
  \/ ParentRefused(p) \/ OpenChild(p) \/ Stage(p) \/ Rename(p) \/ Reopen(p) \/ BoundRoot(p)
  \/ StatMarker(p) \/ ListRoot(p) \/ Restat(p) \/ RevalidateHandles(p) \/ Layout(p) \/ Relayout(p)
  \/ Decide(p) \/ LinkMarker(p) \/ MarkerSync(p) \/ Confirm(p)
  \/ OpenHandles(p) \/ Children(p) \/ Preflight(p) \/ ListState(p)
  \/ OpenLock(p) \/ LockSync(p) \/ Flock(p) \/ Second(p)
  \/ Container(p) \/ ContainerSync(p) \/ LinkCatalog(p) \/ CatalogSync(p) \/ Unlock(p)
  \/ Finish(p) \/ Final(p) \/ Published(p)
  \/ OpenMaintenance(p) \/ MaintenanceSync(p) \/ TryLock(p)

Next ==
  \/ \E p \in Proc : Begin(p) \/ Step(p) \/ Kill(p)
  \/ PowerLoss
  \/ \E d \in {None, Foreign} : Move(d)
  \/ Intrude

\* A call that runs is scheduled; nobody has to begin one, die or interfere.  A
\* process can always take its next step unless it waits for a lock, every step
\* changes proc[p], and only finitely many calls begin, processes are killed and
\* cuts happen: this is weak fairness of Step(p).
Waits(p) == At(p, "idle") \/ (At(p, "flock") /\ holder[Pin(p)] # None)
Fairness == \A p \in Proc : []<>Waits(p) \/ []<><<TRUE>>_(proc[p])
Spec == Init /\ [][Next]_vars /\ Fairness

-----------------------------------------------------------------------------
\* initialize_store: "The result reports only the validated postcondition because
\* another process may initialize concurrently."  Once one has reported a ready
\* store, every call that begins later finds it ready, whatever processes were
\* killed and however often power was lost in between: the root, its descriptor,
\* the lock and the catalog were all durable when it said so.
ReadyStays ==
  \A p \in Proc :
    (~moved /\ proc[p].late /\ proc[p].res \notin Unanswered)
      => proc[p].res = "ready" /\ root \in Dirs /\ catalog[root]

\* Processes that create, open and use one store at the same time, or find what
\* a killed one left, are never refused: no call of theirs mistakes the half-made
\* store of another for a damaged one.
NeverRefused ==
  ~moved /\ parent = "safe" =>
    \A p \in Proc : proc[p].res \notin Errors

\* A directory of another program that takes the store's place is never taken
\* over: initialization adds nothing to it, at no step.
ForeignUntouched == entries[Foreign] = {Alien} /\ ~catalog[Foreign] /\ holder[Foreign] = None

\* Both of them: a store of malm's own is never taken for something else, nor
\* something else for a store.
StoresAreTold == NeverRefused /\ ForeignUntouched

\* Every call ends, with its process killed or with an answer: the lock that
\* initializers wait for without a limit is always given back.
CallsEnd == \A p \in Proc : ~At(p, "idle") ~> At(p, "idle")
=============================================================================
