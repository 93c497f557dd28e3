-------------------------- MODULE StoreInitProofs --------------------------
(***************************************************************************)
(* Proofs about StoreInit: a store reported ready stays ready, no call of  *)
(* malm's is refused because of another one, and another program's         *)
(* directory is never touched, for any number of processes, calls, deaths, *)
(* losses of power and interferences.                                      *)
(*                                                                         *)
(* The invariant has a part that holds whatever others do (Types,          *)
(* Untouched, Placed) and a part that holds until somebody interferes: the *)
(* names of a store appear in one order in the directory and in everything *)
(* a loss of power can leave of it (World); a call knows at each place     *)
(* which names its root has (Rooted), what an inspection found is still so *)
(* and it starts over at most once for each name (Inspected); and an       *)
(* announced store is durable (Durable).  Each step of a call only adds to *)
(* the directories (Grown), so that what the other calls know stays true   *)
(* (Survives).                                                             *)
(***************************************************************************)
EXTENDS StoreInit, TLAPS

-----------------------------------------------------------------------------
\* Places of a call

Fields == {"op", "pc", "back", "pin", "names", "tries", "found", "state", "res", "late"}
Same(x, r, F) == DOMAIN r = Fields /\ \A f \in Fields \ F : r[f] = x[f]

\* Inspections, after which the call goes on at x.back; before the root is pinned;
\* with the descriptor, lock, state/ and catalog it has seen or made.
Checks == {"inspect", "list", "restat", "layout", "relayout", "revalidate"}
Early == {"idle", "parent", "stage", "rename", "reopen"}
CatalogMade == {"catalogSync", "unlock", "finish"}
StateMade == CatalogMade \cup {"containerSync", "link"}
LockMade == StateMade \cup {"lockSync", "flock", "second", "container"}
MarkerMade ==
  LockMade \cup {"markerSync", "confirm", "handles", "children", "preflight", "listState", "lock",
                 "maintenance", "maintenanceSync", "tryLock", "published"}
Later == MarkerMade \cup {"decide", "linkMarker", "final"}
Pos(x) == IF x.pc \in Checks THEN x.back ELSE x.pc

\* Where a call may be, and what it may have pinned there.
Placed(x) ==
  /\ DOMAIN x = Fields /\ x.tries \in Nat /\ x.late \in BOOLEAN
  /\ x.pc \in Early \cup {"bound"} \cup Checks \cup Later
  /\ x.pc \in Checks => x.back \in Later
  /\ x.pc = "rename" => x.pin \in Dirs
  /\ x.pc \notin Early => x.pin \in Objects
  /\ x.pin = Foreign => x.pc \in {"bound", "inspect", "list", "restat"}
  /\ x.pc # "idle" => x.res = "none"

-----------------------------------------------------------------------------
\* Directories

Names == FinalRootEntries \cup {Alien}
Disks ==
  [root : SUBSET (Objects \cup {None}), entries : [Objects -> SUBSET SUBSET Names],
   catalog : [Objects -> SUBSET BOOLEAN]]
Types ==
  /\ root \in Objects \cup {None}
  /\ entries \in [Objects -> SUBSET Names] /\ catalog \in [Objects -> BOOLEAN]
  /\ onDisk \in Disks
  /\ \E S : holder \in [Objects -> S]
  /\ \E S : proc \in [Proc -> S]
  /\ moved \in BOOLEAN /\ announced \in BOOLEAN

\* The other program's directory.
Untouched ==
  /\ entries[Foreign] = {Alien} /\ onDisk.entries[Foreign] = {{Alien}}
  /\ catalog[Foreign] = FALSE /\ onDisk.catalog[Foreign] = {FALSE}
  /\ holder[Foreign] = None

\* The names of a store appear in this order.
Ordered(e) ==
  /\ e \subseteq FinalRootEntries
  /\ e # {} => Marker \in e
  /\ State \in e => Lock \in e

\* What is there, and what a loss of power can leave of it.
World(r, en, ca, od) ==
  /\ r \in Dirs \cup {None} /\ r \in od.root /\ od.root \subseteq {None, r}
  /\ \A d \in Dirs :
       /\ en[d] \in od.entries[d]
       /\ \A e \in od.entries[d] : Ordered(e) /\ e \subseteq en[d]
       /\ ca[d] \in od.catalog[d] /\ (TRUE \in od.catalog[d] => ca[d])
       /\ ca[d] => State \in en[d]

\* A store that no loss of power can take away.
Durable(r, od) ==
  /\ r \in Dirs /\ od.root = {r} /\ od.catalog[r] = {TRUE}
  /\ \A e \in od.entries[r] : State \in e

\* How many names beside the descriptor there are.
Count(e) ==
  (IF Lock \in e THEN 1 ELSE 0) + (IF State \in e THEN 1 ELSE 0)
    + (IF Maintenance \in e THEN 1 ELSE 0)

-----------------------------------------------------------------------------
\* Calls while nobody interferes

\* The root a call has pinned stays the root, and what the call has seen or made
\* stays there.
Rooted(x, r, en, ca, od) ==
  /\ x.pc \notin Early => x.pin = r /\ r \in Dirs
  /\ x.pc = "reopen" => r # None
  /\ Pos(x) \in MarkerMade \/ x.pc \in {"layout", "relayout", "revalidate"} => Marker \in en[r]
  /\ Pos(x) \in LockMade => Lock \in en[r]
  /\ Pos(x) \in StateMade => State \in en[r]
  /\ Pos(x) \in CatalogMade => ca[r]
  /\ Pos(x) \in {"unlock", "finish"} => od.catalog[r] = {TRUE}
  /\ Pos(x) = "final" /\ x.op = "initialize" => Durable(r, od)

\* What an inspection has found is still so, and it need not start over too often:
\* whatever makes it do so can happen once for each name.
Inspected(x, r, en) ==
  /\ x.pc \in Early => x.found = "none"
  /\ x.found = "ready" => Marker \in en[r]
  /\ x.found = "missing" =>
       /\ x.pc \in {"inspect", "list", "restat", "decide", "linkMarker", "markerSync", "final"}
       /\ ~(x.pc = "final" /\ x.op = "initialize")
  /\ x.pc = "inspect" => x.tries = 0 \/ (x.tries = 1 /\ Marker \in en[r])
  /\ x.pc \in {"list", "restat", "decide", "linkMarker", "markerSync", "confirm", "handles"}
       => x.tries = 0
  /\ x.pc = "restat" => en[r] # {}
  /\ x.pc \in {"layout", "revalidate"} => x.tries <= Count(en[r])
  /\ x.pc = "relayout" => Marker \in x.names /\ x.names \subseteq en[r] /\ x.tries <= Count(x.names)

\* A call that began after a store was reported ready finds it.
Told(x, told) ==
  /\ x.late => told /\ x.found # "missing"
  /\ x.late /\ x.res \notin Unanswered => x.res = "ready"
  /\ parent = "safe" => x.res \notin Errors
  /\ x.pc \notin {"idle", "parent"} => parent = "safe"

\* All of it.
Held(x, r, en, ca, od, told) ==
  Rooted(x, r, en, ca, od) /\ Inspected(x, r, en) /\ Told(x, told)

Inv ==
  /\ Types /\ Untouched /\ \A p \in Proc : Placed(proc[p])
  /\ ~moved =>
       /\ World(root, entries, catalog, onDisk)
       /\ announced => parent = "safe" /\ Durable(root, onDisk)
       /\ \A p \in Proc : Held(proc[p], root, entries, catalog, onDisk, announced)

-----------------------------------------------------------------------------
\* What the steps of a call do to directories

FileTypes ==
  /\ root \in Objects \cup {None}
  /\ entries \in [Objects -> SUBSET Names] /\ catalog \in [Objects -> BOOLEAN]
  /\ onDisk \in Disks
  /\ entries[Foreign] = {Alien} /\ onDisk.entries[Foreign] = {{Alien}}
  /\ catalog[Foreign] = FALSE /\ onDisk.catalog[Foreign] = {FALSE}

\* Nothing that is there or on disk goes away.
Grown ==
  /\ root # None => root' = root /\ onDisk'.root \subseteq onDisk.root
  /\ \A d \in Dirs :
       /\ entries[d] \subseteq entries'[d] /\ (catalog[d] => catalog'[d])
       /\ \A e \in onDisk'.entries[d] : \E f \in onDisk.entries[d] : f \subseteq e
       /\ onDisk.catalog[d] = {TRUE} => onDisk'.catalog[d] = {TRUE}

Files == World(root, entries, catalog, onDisk)
FilesNext == World(root', entries', catalog', onDisk') /\ Grown

\* Nothing changes.
LEMMA FilesSame ==
  ASSUME UNCHANGED <<root, entries, catalog, onDisk>>, FileTypes
  PROVE  FileTypes' /\ (Files => FilesNext)
<1>1. FileTypes'
  BY DEF FileTypes, Disks
<1>2. Files => FilesNext
  BY DEF Files, FilesNext, Grown
<1> QED
  BY <1>1, <1>2

\* A name appears.
LEMMA Adds ==
  ASSUME NEW d \in Dirs, NEW name \in FinalRootEntries, AddEntry(d, name),
         UNCHANGED <<root, catalog>>, FileTypes
  PROVE  /\ FileTypes' /\ entries'[d] = entries[d] \cup {name}
         /\ Files /\ Ordered(entries[d] \cup {name}) => FilesNext
<1> DEFINE new == entries[d] \cup {name}
<1>1. /\ entries' = [entries EXCEPT ![d] = new]
      /\ onDisk'.root = onDisk.root /\ onDisk'.catalog = onDisk.catalog
      /\ onDisk'.entries = [onDisk.entries EXCEPT ![d] = @ \cup {new}]
      /\ onDisk' \in Disks
  BY DEF AddEntry, FileTypes, Disks, Objects, Names
<1>2. FileTypes' /\ entries'[d] = new
  BY <1>1, StoreConstants DEF FileTypes, Disks, Objects, Names
<1>3. ASSUME Files, Ordered(new) PROVE FilesNext
  <2> HIDE DEF new
  <2>1. ASSUME NEW c \in Dirs
        PROVE  /\ entries'[c] \in onDisk'.entries[c] /\ entries[c] \subseteq entries'[c]
               /\ \A e \in onDisk'.entries[c] : Ordered(e) /\ e \subseteq entries'[c]
               /\ \A e \in onDisk'.entries[c] : \E f \in onDisk.entries[c] : f \subseteq e
    <3>1. CASE c = d
      <4>1. entries'[c] = new /\ onDisk'.entries[c] = onDisk.entries[c] \cup {new}
        BY <1>1, <3>1 DEF FileTypes, Disks, Objects
      <4>2. /\ entries[c] \in onDisk.entries[c]
            /\ \A e \in onDisk.entries[c] : Ordered(e) /\ e \subseteq entries[c]
        BY <1>3 DEF Files, World
      <4>3. entries[c] \subseteq new
        BY <3>1 DEF new
      <4> QED
        BY <1>3, <4>1, <4>2, <4>3
    <3>2. CASE c # d
      <4>1. entries'[c] = entries[c] /\ onDisk'.entries[c] = onDisk.entries[c]
        BY <1>1, <3>2 DEF FileTypes, Disks, Objects
      <4>2. /\ entries[c] \in onDisk.entries[c]
            /\ \A e \in onDisk.entries[c] : Ordered(e) /\ e \subseteq entries[c]
        BY <1>3 DEF Files, World
      <4> QED
        BY <4>1, <4>2
    <3> QED
      BY <3>1, <3>2
  <2>2. Grown
    BY <1>1, <2>1 DEF Grown
  <2>3. World(root', entries', catalog', onDisk')
    BY <1>1, <1>3, <2>1 DEF Files, World
  <2> QED
    BY <2>2, <2>3 DEF FilesNext
<1> QED
  BY <1>2, <1>3

\* fsync of a root, of a state/, and of the parent together with the root.
LEMMA Syncs ==
  ASSUME NEW d \in Dirs, FileTypes, UNCHANGED <<root, entries, catalog>>,
         \/ SyncRoot(d)
         \/ SyncState(d)
         \/ onDisk' = [onDisk EXCEPT !.root = {root}, !.entries[d] = {entries[d]}]
  PROVE  FileTypes' /\ (Files => FilesNext)
<1>1. /\ onDisk'.root \in {onDisk.root, {root}}
      /\ onDisk'.entries \in {onDisk.entries, [onDisk.entries EXCEPT ![d] = {entries[d]}]}
      /\ onDisk'.catalog \in {onDisk.catalog, [onDisk.catalog EXCEPT ![d] = {catalog[d]}]}
      /\ DOMAIN onDisk' = {"root", "entries", "catalog"}
      /\ onDisk' = [f \in {"root", "entries", "catalog"} |-> onDisk'[f]]
  BY DEF SyncRoot, SyncState, FileTypes, Disks
<1>2. /\ onDisk'.root \in SUBSET (Objects \cup {None})
      /\ onDisk'.entries \in [Objects -> SUBSET SUBSET Names]
      /\ onDisk'.catalog \in [Objects -> SUBSET BOOLEAN]
  BY <1>1 DEF FileTypes, Disks, Objects
<1>3. FileTypes'
  BY <1>1, <1>2, StoreConstants DEF FileTypes, Disks, Objects
<1>4. ASSUME Files PROVE FilesNext
  <2>1. ASSUME NEW c \in Dirs
        PROVE  /\ onDisk'.entries[c] \in {onDisk.entries[c], {entries[c]}}
               /\ onDisk'.catalog[c] \in {onDisk.catalog[c], {catalog[c]}}
    BY <1>1 DEF FileTypes, Disks, Objects
  <2>2. ASSUME NEW c \in Dirs
        PROVE  /\ entries[c] \in onDisk'.entries[c] /\ catalog[c] \in onDisk'.catalog[c]
               /\ onDisk'.entries[c] \subseteq onDisk.entries[c]
               /\ onDisk'.catalog[c] \subseteq onDisk.catalog[c]
    <3>1. entries[c] \in onDisk.entries[c] /\ catalog[c] \in onDisk.catalog[c]
      BY <1>4 DEF Files, World
    <3>2. entries[c] \in onDisk'.entries[c] /\ onDisk'.entries[c] \subseteq onDisk.entries[c]
      BY <2>1, <3>1
    <3>3. catalog[c] \in onDisk'.catalog[c] /\ onDisk'.catalog[c] \subseteq onDisk.catalog[c]
      BY <2>1, <3>1
    <3> QED
      BY <3>2, <3>3
  <2>3. root \in onDisk'.root /\ onDisk'.root \subseteq onDisk.root
    BY <1>1, <1>4 DEF Files, World
  <2>4. World(root', entries', catalog', onDisk')
    BY <1>4, <2>2, <2>3 DEF Files, World
  <2>5. Grown
    BY <2>2, <2>3 DEF Grown
  <2> QED
    BY <2>4, <2>5 DEF FilesNext
<1> QED
  BY <1>3, <1>4

\* The catalog appears in a state/ that is there.
LEMMA Links ==
  ASSUME NEW d \in Dirs, FileTypes, UNCHANGED <<root, entries>>,
         catalog' = [catalog EXCEPT ![d] = TRUE],
         onDisk' = [onDisk EXCEPT !.catalog[d] = @ \cup {TRUE}]
  PROVE  /\ FileTypes' /\ catalog'[d] = TRUE
         /\ Files /\ State \in entries[d] => FilesNext
<1>1. /\ onDisk'.root = onDisk.root /\ onDisk'.entries = onDisk.entries
      /\ onDisk'.catalog = [onDisk.catalog EXCEPT ![d] = @ \cup {TRUE}]
      /\ onDisk' \in Disks
  BY DEF FileTypes, Disks, Objects
<1>2. FileTypes' /\ catalog'[d] = TRUE
  BY <1>1, StoreConstants DEF FileTypes, Disks, Objects
<1>3. ASSUME Files, State \in entries[d] PROVE FilesNext
  <2>1. ASSUME NEW c \in Dirs
        PROVE  /\ catalog'[c] \in onDisk'.catalog[c] /\ (TRUE \in onDisk'.catalog[c] => catalog'[c])
               /\ catalog'[c] => State \in entries[c]
               /\ catalog[c] => catalog'[c]
               /\ onDisk.catalog[c] = {TRUE} => onDisk'.catalog[c] = {TRUE}
    <3>1. CASE c = d
      <4>1. catalog'[c] = TRUE /\ onDisk'.catalog[c] = onDisk.catalog[c] \cup {TRUE}
        BY <1>1, <3>1 DEF FileTypes, Disks, Objects
      <4> QED
        BY <1>3, <3>1, <4>1
    <3>2. CASE c # d
      <4>1. catalog'[c] = catalog[c] /\ onDisk'.catalog[c] = onDisk.catalog[c]
        BY <1>1, <3>2 DEF FileTypes, Disks, Objects
      <4>2. /\ catalog[c] \in onDisk.catalog[c] /\ (TRUE \in onDisk.catalog[c] => catalog[c])
            /\ catalog[c] => State \in entries[c]
        BY <1>3 DEF Files, World
      <4> QED
        BY <4>1, <4>2
    <3> QED
      BY <3>1, <3>2
  <2>2. Grown
    BY <1>1, <2>1 DEF Grown
  <2>3. World(root', entries', catalog', onDisk')
    BY <1>1, <1>3, <2>1 DEF Files, World
  <2> QED
    BY <2>2, <2>3 DEF FilesNext
<1> QED
  BY <1>2, <1>3

\* A directory becomes the root where there is none.
LEMMA Publishes ==
  ASSUME NEW d \in Dirs, FileTypes, UNCHANGED <<entries, catalog>>, Name(d), root = None
  PROVE  FileTypes' /\ (Files => FilesNext)
<1>1. /\ root' = d /\ onDisk'.root = onDisk.root \cup {d} /\ onDisk'.entries = onDisk.entries
      /\ onDisk'.catalog = onDisk.catalog
      /\ onDisk' \in Disks
  BY DEF Name, FileTypes, Disks, Objects
<1>2. FileTypes'
  BY <1>1 DEF FileTypes, Disks, Objects
<1>3. Files => FilesNext
  BY <1>1 DEF Files, FilesNext, World, Grown
<1> QED
  BY <1>2, <1>3

\* What holds of a call survives what the others do.
LEMMA Survives ==
  ASSUME NEW x, NEW told, NEW tell, told => tell, Placed(x), Files, FilesNext,
         Held(x, root, entries, catalog, onDisk, told)
  PROVE  Held(x, root', entries', catalog', onDisk', tell)
<1>1. ASSUME root # None
      PROVE  /\ root' = root /\ root \in Dirs /\ entries[root] \subseteq entries'[root]
             /\ catalog[root] => catalog'[root]
             /\ onDisk.catalog[root] = {TRUE} => onDisk'.catalog[root] = {TRUE}
             /\ Durable(root, onDisk) => Durable(root, onDisk')
  <2>1. root' = root /\ root \in Dirs /\ onDisk'.root \subseteq onDisk.root
    BY <1>1 DEF Files, FilesNext, World, Grown
  <2>2. /\ entries[root] \subseteq entries'[root]
        /\ catalog[root] => catalog'[root]
        /\ onDisk.catalog[root] = {TRUE} => onDisk'.catalog[root] = {TRUE}
        /\ \A e \in onDisk'.entries[root] : \E f \in onDisk.entries[root] : f \subseteq e
    BY <2>1 DEF FilesNext, Grown
  <2>3. root \in onDisk'.root
    BY <2>1 DEF FilesNext, World
  <2>4. Durable(root, onDisk) => Durable(root, onDisk')
    BY <2>1, <2>2, <2>3 DEF Durable
  <2> QED
    BY <2>1, <2>2, <2>4
<1>2. Told(x, tell)
  BY DEF Held, Told
<1>3. CASE x.pc \in Early
  <2>1. Pos(x) = x.pc /\ x.pc \notin MarkerMade /\ x.pc # "final" /\ x.pc \notin Checks
    BY <1>3 DEF Pos, Early, Checks, MarkerMade, LockMade, StateMade, CatalogMade
  <2>2. Rooted(x, root', entries', catalog', onDisk')
    BY <1>1, <1>3, <2>1
       DEF Held, Rooted, Early, Checks, MarkerMade, LockMade, StateMade, CatalogMade
  <2>3. Inspected(x, root', entries')
    BY <1>3 DEF Held, Inspected, Early
  <2> QED
    BY <1>2, <2>2, <2>3 DEF Held
<1>4. CASE x.pc \notin Early
  <2>1. root # None
    BY <1>4, StoreConstants DEF Held, Rooted, Objects
  <2>2. Rooted(x, root', entries', catalog', onDisk')
    BY <1>1, <1>4, <2>1 DEF Held, Rooted, Early
  <2>3. Count(entries[root]) <= Count(entries'[root]) /\ Count(entries'[root]) \in Nat
        /\ Count(entries[root]) \in Nat
    BY <1>1, <2>1 DEF Count
  <2>4. Inspected(x, root', entries')
    BY <1>1, <1>4, <2>1, <2>3 DEF Held, Inspected, Early, Placed
  <2> QED
    BY <1>2, <2>2, <2>4 DEF Held
<1> QED
  BY <1>3, <1>4

\* A name that appears adds to the count.
LEMMA MoreNames ==
  ASSUME NEW a, NEW b, Marker \in a, a \subseteq b, b \subseteq FinalRootEntries, a # b
  PROVE  Count(a) + 1 <= Count(b) /\ Count(b) <= 3 /\ Count(a) \in Nat /\ Count(b) \in Nat
<1>1. Count(b) <= 3 /\ Count(a) \in Nat /\ Count(b) \in Nat
  BY DEF Count
<1>2. PICK n : n \in b /\ n \notin a
  OBVIOUS
<1>3. n \in {Lock, State, Maintenance}
  BY <1>2 DEF FinalRootEntries
<1>4. Count(a) + 1 <= Count(b)
  BY <1>2, <1>3 DEF Count
<1> QED
  BY <1>1, <1>4

-----------------------------------------------------------------------------
\* The steps of a call

\* What p can count on before a step.
Before(p) ==
  /\ Placed(proc[p]) /\ FileTypes
  /\ ~moved =>
       /\ Files /\ Held(proc[p], root, entries, catalog, onDisk, announced)
       /\ announced => parent = "safe" /\ Durable(root, onDisk)
       /\ root \in Dirs \cup {None}
       /\ root \in Dirs =>
            /\ entries[root] \subseteq FinalRootEntries
            /\ entries[root] # {} => Marker \in entries[root]
            /\ State \in entries[root] => Lock \in entries[root]
            /\ catalog[root] => State \in entries[root]

\* What a step of p leaves, but for locks.
Steps(p) ==
  /\ FileTypes'
  /\ \E r : /\ Set(p, r) /\ Placed(r)
            /\ ~moved => /\ FilesNext
                         /\ Held(r, root', entries', catalog', onDisk', announced')

\* The invariant says so.
LEMMA Now ==
  ASSUME Inv, NEW p \in Proc
  PROVE  Before(p)
<1>1. Placed(proc[p]) /\ FileTypes
  BY DEF Inv, Types, Disks, Untouched, FileTypes
<1>2. ASSUME ~moved
      PROVE  /\ Files /\ Held(proc[p], root, entries, catalog, onDisk, announced)
             /\ announced => parent = "safe" /\ Durable(root, onDisk)
  BY <1>2 DEF Inv, Files
<1>3. ASSUME Files
      PROVE  /\ root \in Dirs \cup {None}
             /\ root \in Dirs =>
                  /\ entries[root] \subseteq FinalRootEntries
                  /\ entries[root] # {} => Marker \in entries[root]
                  /\ State \in entries[root] => Lock \in entries[root]
                  /\ catalog[root] => State \in entries[root]
  BY <1>3 DEF Files, World, Ordered
<1> QED
  BY <1>1, <1>2, <1>3 DEF Before

\* A root whose store is durable has all names of a store.
LEMMA DurableNow ==
  ASSUME Files, Durable(root, onDisk)
  PROVE  root \in Dirs /\ Marker \in entries[root] /\ catalog[root] /\ State \in entries[root]
<1>1. /\ root \in Dirs /\ entries[root] \in onDisk.entries[root]
      /\ catalog[root] \in onDisk.catalog[root]
  BY DEF Files, World, Durable
<1>2. State \in entries[root] /\ Ordered(entries[root])
  BY <1>1 DEF Files, World, Durable
<1>3. catalog[root]
  BY <1>1 DEF Durable
<1> QED
  BY <1>1, <1>2, <1>3 DEF Ordered

\* A step of p from place to place.
LEMMA Goes ==
  ASSUME Inv, NEW p \in Proc, NEW r, Set(p, r), Placed(r), FileTypes',
         ~moved => FilesNext, announced' = announced,
         r.late = proc[p].late, r.res = proc[p].res, proc[p].pc # "idle",
         proc[p].pc # "parent" \/ parent = "safe",
         ~moved => /\ Rooted(r, root', entries', catalog', onDisk') /\ Inspected(r, root', entries')
                   /\ r.late => r.found # "missing" \/ r.found = proc[p].found
  PROVE  Steps(p)
<1>1. ~moved => Told(r, announced')
  BY Now DEF Before, Held, Told
<1> QED
  BY <1>1 DEF Steps, Held

\* The same where the directories stay as they are.
LEMMA Turns ==
  ASSUME Inv, NEW p \in Proc, NEW r, Set(p, r), Placed(r),
         UNCHANGED <<root, entries, catalog, onDisk, announced>>,
         r.late = proc[p].late, r.res = proc[p].res, proc[p].pc # "idle",
         proc[p].pc # "parent" \/ parent = "safe",
         ~moved => /\ Rooted(r, root, entries, catalog, onDisk) /\ Inspected(r, root, entries)
                   /\ r.late => r.found # "missing" \/ r.found = proc[p].found
  PROVE  Steps(p)
<1>1. FileTypes' /\ (~moved => FilesNext)
  BY Now, FilesSame DEF Before
<1> QED
  BY <1>1, Goes

\* The call ends.
LEMMA Returns ==
  ASSUME Inv, NEW p \in Proc, NEW res, Return(p, res), UNCHANGED <<root, entries, catalog, onDisk>>,
         announced => announced',
         ~moved => /\ proc[p].late => res \in Unanswered \/ res = "ready"
                   /\ parent = "safe" => res \notin Errors
  PROVE  Steps(p)
<1> DEFINE r == [Idle EXCEPT !.op = proc[p].op, !.res = res, !.late = proc[p].late]
<1>1. /\ DOMAIN r = Fields /\ r.pc = "idle" /\ r.res = res /\ r.late = proc[p].late
      /\ r.found = "none" /\ r.tries = 0 /\ r.pin = None /\ r.back = "none"
  BY DEF Idle, Fields
<1>2. Set(p, r)
  BY DEF Return
<1> HIDE DEF r
<1>3. Placed(r)
  BY <1>1, Now, StoreConstants DEF Before, Placed, Early, Checks
<1>4. Pos(r) = "idle"
  BY <1>1 DEF Pos, Checks
<1>5. Rooted(r, root', entries', catalog', onDisk') /\ Inspected(r, root', entries')
  BY <1>1, <1>4
     DEF Rooted, Inspected, Early, Checks, MarkerMade, LockMade, StateMade, CatalogMade
<1>6. ~moved => Told(r, announced')
  BY <1>1, Now DEF Before, Held, Told
<1>7. FileTypes' /\ (~moved => FilesNext)
  BY Now, FilesSame DEF Before
<1> QED
  BY <1>2, <1>3, <1>5, <1>6, <1>7 DEF Steps, Held

\* The steps in their order, each with the places it leads to.
USE DEF Before, Early, Checks, Later, MarkerMade, LockMade, StateMade, CatalogMade

\* There is no parent, or not one of the user's.
LEMMA ParentStep ==
  ASSUME Inv, NEW p \in Proc, ParentRefused(p)
  PROVE  Steps(p)
<1> DEFINE x == proc[p]
<1>1. Before(p)
  BY Now
<1>2. CASE parent = "missing" /\ proc[p].op = "initialize"
  <2>1. /\ Return(p, "StateParentMissing") /\ UNCHANGED <<root, entries, catalog, onDisk>>
        /\ announced => announced'
    BY <1>2 DEF ParentRefused, Fail, files, others, At
  <2>2. ~moved => ~x.late /\ parent # "safe"
    BY <1>1, <1>2, DurableNow DEF Held, Told
  <2> QED
    BY <2>1, <2>2, Returns
<1>3. CASE parent = "missing" /\ proc[p].op # "initialize"
  <2>1. /\ Return(p, "absent") /\ UNCHANGED <<root, entries, catalog, onDisk>>
        /\ announced => announced'
    BY <1>3 DEF ParentRefused, Fail, files, others, At
  <2>2. ~moved => ~x.late
    BY <1>1, <1>3, DurableNow DEF Held, Told
  <2> QED
    BY <2>1, <2>2, Returns DEF Errors
<1>4. CASE parent = "unsafe"
  <2>1. /\ Return(p, "UnsafeDirectory") /\ UNCHANGED <<root, entries, catalog, onDisk>>
        /\ announced => announced'
    BY <1>4 DEF ParentRefused, Fail, files, others, At
  <2>2. ~moved => ~x.late /\ parent # "safe"
    BY <1>1, <1>4, DurableNow DEF Held, Told
  <2> QED
    BY <2>1, <2>2, Returns
<1> QED
  BY <1>2, <1>3, <1>4 DEF ParentRefused

\* The root is pinned, missing or to be made.
LEMMA OpenChildStep ==
  ASSUME Inv, NEW p \in Proc, OpenChild(p)
  PROVE  Steps(p)
<1> DEFINE x == proc[p]
<1>1. Before(p)
  BY Now
<1>2. CASE root # None
  <2> DEFINE r == [x EXCEPT !.pc = "bound", !.pin = root]
  <2>1. Same(x, r, {"pc", "pin"}) /\ r.pc = "bound" /\ r.pin = root
    BY <1>1 DEF Same, Fields, Placed
  <2>2. /\ Set(p, r) /\ UNCHANGED <<root, entries, catalog, onDisk, announced>> /\ x.pc = "parent"
        /\ parent = "safe"
    BY <1>2 DEF OpenChild, Goto, At, Pin, files, others
  <2> HIDE DEF r
  <2>3. Placed(r)
    BY <1>1, <1>2, <2>1, <2>2, StoreConstants DEF Placed, Same, Fields, Objects, At, Pin,
       FileTypes
  <2>4. ASSUME ~moved PROVE Rooted(r, root, entries, catalog, onDisk)
    BY <1>1, <1>2, <2>1, <2>2, <2>3, <2>4, StoreConstants DEF Placed, Same, Fields, Held,
       Rooted, Inspected, Pos, Objects, At, Pin, FileTypes
  <2>5. ASSUME ~moved PROVE Inspected(r, root, entries)
    BY <1>1, <2>1, <2>2, <2>4, <2>5 DEF Placed, Same, Fields, Held, Inspected, FileTypes, Disks
  <2> QED
    BY <2>1, <2>2, <2>3, <2>4, <2>5, Turns DEF Same, Fields
<1>3. CASE root = None /\ proc[p].op # "initialize"
  <2>1. /\ Return(p, "absent") /\ UNCHANGED <<root, entries, catalog, onDisk>>
        /\ announced => announced'
    BY <1>3 DEF OpenChild, Fail, files, others, At
  <2>2. ~moved => ~x.late
    BY <1>1, <1>3, <2>1, DurableNow, StoreConstants DEF Held, Rooted, Inspected, Told, At, Pos,
       Placed, Objects, OpenChild
  <2> QED
    BY <2>1, <2>2, Returns DEF Errors
<1>4. CASE root = None /\ proc[p].op = "initialize"
  <2> DEFINE r == [x EXCEPT !.pc = "stage"]
  <2>1. Same(x, r, {"pc"}) /\ r.pc = "stage"
    BY <1>1 DEF Same, Fields, Placed
  <2>2. /\ Set(p, r) /\ UNCHANGED <<root, entries, catalog, onDisk, announced>> /\ x.pc = "parent"
        /\ parent = "safe"
    BY <1>4 DEF OpenChild, Goto, At, Pin, files, others
  <2> HIDE DEF r
  <2>3. Placed(r)
    BY <1>1, <2>1, <2>2 DEF Placed, Same, Fields
  <2>4. ASSUME ~moved PROVE Rooted(r, root, entries, catalog, onDisk)
    BY <1>1, <2>1, <2>2, <2>4 DEF Placed, Same, Fields, Held, Rooted, Pos
  <2>5. ASSUME ~moved PROVE Inspected(r, root, entries)
    BY <1>1, <2>1, <2>2, <2>4, <2>5 DEF Placed, Same, Fields, Held, Inspected
  <2> QED
    BY <2>1, <2>2, <2>3, <2>4, <2>5, Turns DEF Same, Fields
<1> QED
  BY <1>2, <1>3, <1>4 DEF OpenChild

\* A directory is made in private.
LEMMA StageStep ==
  ASSUME Inv, NEW p \in Proc, Stage(p)
  PROVE  Steps(p)
<1> DEFINE x == proc[p]
<1>1. Before(p)
  BY Now
<1> DEFINE r == [x EXCEPT !.pc = "rename", !.pin = (CHOOSE d \in Dirs : d \notin made)]
<1>2. Same(x, r, {"pc", "pin"}) /\ r.pc = "rename" /\ r.pin = (CHOOSE d \in Dirs : d \notin made)
  BY <1>1 DEF Same, Fields, Placed
<1>3. /\ Set(p, r) /\ UNCHANGED <<root, entries, catalog, onDisk, announced>> /\ x.pc = "stage"
      /\ (CHOOSE d \in Dirs : d \notin made) \in Dirs
  BY DEF Stage, Goto, At, Pin, files, others
<1> HIDE DEF r
<1>4. Placed(r)
  BY <1>1, <1>2, <1>3, StoreConstants DEF Placed, Same, Fields, Objects
<1>5. ASSUME ~moved PROVE Rooted(r, root, entries, catalog, onDisk)
  BY <1>1, <1>2, <1>3, <1>5 DEF Placed, Same, Fields, Held, Rooted, Pos
<1>6. ASSUME ~moved PROVE Inspected(r, root, entries)
  BY <1>1, <1>2, <1>3, <1>5, <1>6 DEF Placed, Same, Fields, Held, Inspected
<1> QED
  BY <1>2, <1>3, <1>4, <1>5, <1>6, Turns DEF Same, Fields

\* It becomes the root, or is discarded.
LEMMA RenameStep ==
  ASSUME Inv, NEW p \in Proc, Rename(p)
  PROVE  Steps(p)
<1> DEFINE x == proc[p]
<1>1. Before(p)
  BY Now
<1>2. CASE root = None
  <2> DEFINE r == [x EXCEPT !.pc = "bound"]
  <2>1. Same(x, r, {"pc"}) /\ r.pc = "bound"
    BY <1>1 DEF Same, Fields, Placed
  <2>2. Set(p, r) /\ UNCHANGED announced /\ x.pc = "rename"
    BY <1>2 DEF Rename, Goto, At, Pin, files, others
  <2> HIDE DEF r
  <2>3. FileTypes' /\ (~moved => FilesNext) /\ root' = x.pin /\ UNCHANGED <<entries, catalog>>
    <3>1. x.pin \in Dirs /\ Name(x.pin) /\ UNCHANGED <<entries, catalog>>
      BY <1>1, <1>2 DEF Rename, Pin, At, Placed
    <3> QED
      BY <1>1, <1>2, <3>1, Publishes DEF Name
  <2>4. Placed(r)
    BY <1>1, <2>1, <2>2, StoreConstants DEF Placed, Same, Fields, Objects
  <2>5. ASSUME ~moved PROVE Held(x, root', entries', catalog', onDisk', announced)
    BY <1>1, <2>3, <2>5, Survives
  <2>6. ASSUME ~moved PROVE Rooted(r, root', entries', catalog', onDisk')
    BY <1>1, <2>1, <2>2, <2>3, <2>5, <2>6 DEF Placed, Same, Fields, Held, Rooted, Pos
  <2>7. ASSUME ~moved PROVE Inspected(r, root', entries')
    BY <1>1, <2>1, <2>2, <2>3, <2>5, <2>6, <2>7 DEF Placed, Same, Fields, Held, Inspected
  <2> QED
    BY <2>1, <2>2, <2>3, <2>4, <2>6, <2>7, Goes DEF Same, Fields
<1>3. CASE root # None
  <2> DEFINE r == [x EXCEPT !.pc = "reopen", !.pin = None]
  <2>1. Same(x, r, {"pc", "pin"}) /\ r.pc = "reopen" /\ r.pin = None
    BY <1>1 DEF Same, Fields, Placed
  <2>2. Set(p, r) /\ UNCHANGED <<root, entries, catalog, onDisk, announced>> /\ x.pc = "rename"
    BY <1>3 DEF Rename, Goto, At, Pin, files, others
  <2> HIDE DEF r
  <2>3. Placed(r)
    BY <1>1, <2>1, <2>2, StoreConstants DEF Placed, Same, Fields, Objects
  <2>4. ASSUME ~moved PROVE Rooted(r, root, entries, catalog, onDisk)
    BY <1>1, <1>3, <2>1, <2>2, <2>3, <2>4, StoreConstants DEF Placed, Same, Fields, Held,
       Rooted, Inspected, Pos, Objects, At, Pin
  <2>5. ASSUME ~moved PROVE Inspected(r, root, entries)
    BY <1>1, <2>1, <2>2, <2>4, <2>5 DEF Placed, Same, Fields, Held, Inspected
  <2> QED
    BY <2>1, <2>2, <2>3, <2>4, <2>5, Turns DEF Same, Fields
<1> QED
  BY <1>2, <1>3 DEF Rename

\* The winner's root is pinned.
LEMMA ReopenStep ==
  ASSUME Inv, NEW p \in Proc, Reopen(p)
  PROVE  Steps(p)
<1> DEFINE x == proc[p]
<1>1. Before(p)
  BY Now
<1>2. CASE root = None
  <2>1. /\ Return(p, "RootObservationChanged") /\ UNCHANGED <<root, entries, catalog, onDisk>>
        /\ announced => announced'
    BY <1>2 DEF Reopen, Fail, files, others, At
  <2>2. moved
    BY <1>1, <1>2, DurableNow DEF Held, Rooted, Inspected, Told, At, Reopen
  <2> QED
    BY <2>1, <2>2, Returns
<1>3. CASE root # None
  <2> DEFINE r == [x EXCEPT !.pc = "bound", !.pin = root]
  <2>1. Same(x, r, {"pc", "pin"}) /\ r.pc = "bound" /\ r.pin = root
    BY <1>1 DEF Same, Fields, Placed
  <2>2. Set(p, r) /\ UNCHANGED <<root, entries, catalog, onDisk, announced>> /\ x.pc = "reopen"
    BY <1>3 DEF Reopen, Goto, At, Pin, files, others
  <2> HIDE DEF r
  <2>3. Placed(r)
    BY <1>1, <1>3, <2>1, <2>2, StoreConstants DEF Placed, Same, Fields, Objects, At, Pin,
       FileTypes
  <2>4. ASSUME ~moved PROVE Rooted(r, root, entries, catalog, onDisk)
    BY <1>1, <2>1, <2>2, <2>4 DEF Placed, Same, Fields, Held, Rooted, Pos, FileTypes, Disks
  <2>5. ASSUME ~moved PROVE Inspected(r, root, entries)
    BY <1>1, <2>1, <2>2, <2>4, <2>5 DEF Placed, Same, Fields, Held, Inspected, FileTypes, Disks
  <2> QED
    BY <2>1, <2>2, <2>3, <2>4, <2>5, Turns DEF Same, Fields
<1> QED
  BY <1>2, <1>3 DEF Reopen

\* The path names what was pinned.
LEMMA BoundStep ==
  ASSUME Inv, NEW p \in Proc, BoundRoot(p)
  PROVE  Steps(p)
<1> DEFINE x == proc[p]
<1>1. Before(p)
  BY Now
<1>2. CASE ~Bound(p)
  <2>1. /\ Return(p, "RootObservationChanged") /\ UNCHANGED <<root, entries, catalog, onDisk>>
        /\ announced => announced'
    BY <1>2 DEF BoundRoot, Fail, files, others, At
  <2>2. moved
    BY <1>1, <1>2, DurableNow DEF Held, Rooted, Inspected, Told, At, BoundRoot, Bound, Pin
  <2> QED
    BY <2>1, <2>2, Returns
<1>3. CASE Bound(p) /\ proc[p].op = "initialize"
  <2> DEFINE r == [x EXCEPT !.pc = "inspect", !.back = "decide", !.tries = 0]
  <2>1. Same(x, r, {"pc", "back", "tries"}) /\ r.pc = "inspect" /\ r.back = "decide" /\ r.tries = 0
    BY <1>1 DEF Same, Fields, Placed
  <2>2. Set(p, r) /\ UNCHANGED <<root, entries, catalog, onDisk, announced>> /\ x.pc = "bound"
    BY <1>3 DEF BoundRoot, Goto, Inspect, Revalidate, At, Pin, files, others, Bound
  <2> HIDE DEF r
  <2>3. Placed(r)
    BY <1>1, <2>1, <2>2 DEF Placed, Same, Fields
  <2>4. ASSUME ~moved PROVE Rooted(r, root, entries, catalog, onDisk)
    BY <1>1, <2>1, <2>2, <2>4 DEF Placed, Same, Fields, Held, Rooted, Pos
  <2>5. ASSUME ~moved PROVE Inspected(r, root, entries)
    BY <1>1, <2>1, <2>2, <2>4, <2>5 DEF Placed, Same, Fields, Held, Inspected
  <2> QED
    BY <2>1, <2>2, <2>3, <2>4, <2>5, Turns DEF Same, Fields
<1>4. CASE Bound(p) /\ proc[p].op # "initialize"
  <2> DEFINE r == [x EXCEPT !.pc = "inspect", !.back = "final", !.tries = 0]
  <2>1. Same(x, r, {"pc", "back", "tries"}) /\ r.pc = "inspect" /\ r.back = "final" /\ r.tries = 0
    BY <1>1 DEF Same, Fields, Placed
  <2>2. /\ Set(p, r) /\ UNCHANGED <<root, entries, catalog, onDisk, announced>> /\ x.pc = "bound"
        /\ x.op # "initialize"
    BY <1>4 DEF BoundRoot, Goto, Inspect, Revalidate, At, Pin, files, others, Bound
  <2> HIDE DEF r
  <2>3. Placed(r)
    BY <1>1, <2>1, <2>2 DEF Placed, Same, Fields
  <2>4. ASSUME ~moved PROVE Rooted(r, root, entries, catalog, onDisk)
    BY <1>1, <2>1, <2>2, <2>4 DEF Placed, Same, Fields, Held, Rooted, Pos
  <2>5. ASSUME ~moved PROVE Inspected(r, root, entries)
    BY <1>1, <2>1, <2>2, <2>4, <2>5 DEF Placed, Same, Fields, Held, Inspected
  <2> QED
    BY <2>1, <2>2, <2>3, <2>4, <2>5, Turns DEF Same, Fields
<1> QED
  BY <1>2, <1>3, <1>4 DEF BoundRoot

\* The descriptor is looked for.
LEMMA StatMarkerStep ==
  ASSUME Inv, NEW p \in Proc, StatMarker(p)
  PROVE  Steps(p)
<1> DEFINE x == proc[p]
<1>1. Before(p)
  BY Now
<1>2. CASE proc[p].tries = MarkerTries
  <2>1. /\ Return(p, "ObservationChanged") /\ UNCHANGED <<root, entries, catalog, onDisk>>
        /\ announced => announced'
    BY <1>2, <1>1, StoreConstants DEF StatMarker, Fail, files, others, At, Placed
  <2>a. x.pc = "inspect" /\ x.tries \in Nat /\ x.tries > 1
    BY <1>1, <1>2, StoreConstants DEF StatMarker, At, Placed
  <2>b. ASSUME ~moved PROVE FALSE
    <3>1. Inspected(x, root, entries)
      BY <1>1, <2>b DEF Held
    <3> QED
      BY <2>a, <3>1 DEF Inspected
  <2>2. moved
    BY <1>1, <1>2, <2>b DEF Held, Rooted, Inspected, At
  <2> QED
    BY <2>1, <2>2, Returns
<1>3. CASE proc[p].tries < MarkerTries /\ Marker \in entries[Pin(p)]
  <2> DEFINE r == [x EXCEPT !.pc = "layout", !.found = "ready", !.tries = 0]
  <2>1. Same(x, r, {"pc", "found", "tries"}) /\ r.pc = "layout" /\ r.found = "ready" /\ r.tries = 0
    BY <1>1 DEF Same, Fields, Placed
  <2>2. /\ Set(p, r) /\ UNCHANGED <<root, entries, catalog, onDisk, announced>>
        /\ x.pc = "inspect" /\ Marker \in entries[x.pin]
    BY <1>3, <1>1, StoreConstants DEF StatMarker, Goto, At, Pin, files, others, Placed
  <2> HIDE DEF r
  <2>a. x.pin # Foreign
    <3>1. Marker \notin entries[Foreign]
      BY <1>1 DEF FileTypes, Disks, Marker, Alien
    <3> QED
      BY <2>2, <3>1
  <2>3. Placed(r)
    BY <1>1, <2>1, <2>2, <2>a DEF Placed, Same, Fields
  <2>4. ASSUME ~moved PROVE Rooted(r, root, entries, catalog, onDisk)
    BY <1>1, <2>1, <2>2, <2>4, <2>a DEF Placed, Same, Fields, Held, Rooted, Pos
  <2>5. ASSUME ~moved PROVE Inspected(r, root, entries)
    BY <1>1, <2>1, <2>2, <2>4, <2>5, <2>a DEF Placed, Same, Fields, Held, Rooted, Inspected,
       Count
  <2> QED
    BY <2>1, <2>2, <2>3, <2>4, <2>5, Turns DEF Same, Fields
<1>4. CASE proc[p].tries < MarkerTries /\ Marker \notin entries[Pin(p)]
  <2> DEFINE r == [x EXCEPT !.pc = "list"]
  <2>1. Same(x, r, {"pc"}) /\ r.pc = "list"
    BY <1>1 DEF Same, Fields, Placed
  <2>2. /\ Set(p, r) /\ UNCHANGED <<root, entries, catalog, onDisk, announced>>
        /\ x.pc = "inspect" /\ Marker \notin entries[x.pin]
    BY <1>4, <1>1, StoreConstants DEF StatMarker, Goto, At, Pin, files, others, Placed
  <2> HIDE DEF r
  <2>3. Placed(r)
    BY <1>1, <2>1, <2>2 DEF Placed, Same, Fields
  <2>4. ASSUME ~moved PROVE Rooted(r, root, entries, catalog, onDisk)
    BY <1>1, <2>1, <2>2, <2>4 DEF Placed, Same, Fields, Held, Rooted, Pos
  <2>5. ASSUME ~moved PROVE Inspected(r, root, entries)
    BY <1>1, <2>1, <2>2, <2>4, <2>5 DEF Placed, Same, Fields, Held, Rooted, Inspected
  <2> QED
    BY <2>1, <2>2, <2>3, <2>4, <2>5, Turns DEF Same, Fields
<1> QED
  BY <1>2, <1>3, <1>4, <1>1, StoreConstants DEF StatMarker, Placed

\* An empty root has none.
LEMMA ListRootStep ==
  ASSUME Inv, NEW p \in Proc, ListRoot(p)
  PROVE  Steps(p)
<1> DEFINE x == proc[p]
<1>1. Before(p)
  BY Now
<1>2. CASE entries[Pin(p)] = {}
  <2> DEFINE r == [x EXCEPT !.pc = x.back, !.back = "none", !.found = "missing", !.tries = 0]
  <2>1. /\ Same(x, r, {"pc", "back", "found", "tries"}) /\ r.pc = x.back /\ r.back = "none"
        /\ r.found = "missing" /\ r.tries = 0
    BY <1>1 DEF Same, Fields, Placed
  <2>2. /\ Set(p, r) /\ UNCHANGED <<root, entries, catalog, onDisk, announced>> /\ x.pc = "list"
        /\ entries[x.pin] = {}
    BY <1>2 DEF ListRoot, Goto, At, Pin, files, others
  <2> HIDE DEF r
  <2>a. x.back \in Later /\ x.pin # Foreign
    BY <1>1, <2>2 DEF Placed, FileTypes, Disks
  <2>b. x.back \notin Early \cup Checks \cup {"bound"}
    BY <2>a
  <2>3. Placed(r)
    BY <1>1, <2>1, <2>2, <2>a, <2>b DEF Placed, Same, Fields
  <2>c. ASSUME ~moved
        PROVE  /\ x.pin = root /\ root \in Dirs /\ entries[root] = {} /\ ~x.late
               /\ x.back \in {"decide", "linkMarker", "final"} /\ Pos(x) = x.back
               /\ ~(x.back = "final" /\ x.op = "initialize")
    <3>1. Pos(x) = x.back /\ x.pin = root /\ root \in Dirs /\ entries[root] = {}
      BY <1>1, <2>2, <2>c DEF Pos, Held, Rooted
    <3>2. ~Durable(root, onDisk)
      BY <1>1, <2>c, <3>1, DurableNow
    <3>3. x.back \notin MarkerMade /\ ~(x.back = "final" /\ x.op = "initialize") /\ ~x.late
      BY <1>1, <2>c, <3>1, <3>2 DEF Held, Rooted, Told
    <3> QED
      BY <2>a, <3>1, <3>3
  <2>4. ASSUME ~moved PROVE Rooted(r, root, entries, catalog, onDisk)
    BY <1>1, <2>1, <2>2, <2>4, <2>a, <2>b, <2>c DEF Placed, Same, Fields, Held, Rooted, Pos
  <2>5. ASSUME ~moved PROVE Inspected(r, root, entries)
    BY <1>1, <2>1, <2>2, <2>4, <2>5, <2>a, <2>b, <2>c DEF Placed, Same, Fields, Held, Inspected
  <2> QED
    BY <2>1, <2>2, <2>3, <2>4, <2>5, <2>c, Turns DEF Same, Fields
<1>3. CASE entries[Pin(p)] # {}
  <2> DEFINE r == [x EXCEPT !.pc = "restat"]
  <2>1. Same(x, r, {"pc"}) /\ r.pc = "restat"
    BY <1>1 DEF Same, Fields, Placed
  <2>2. /\ Set(p, r) /\ UNCHANGED <<root, entries, catalog, onDisk, announced>> /\ x.pc = "list"
        /\ entries[x.pin] # {}
    BY <1>3 DEF ListRoot, Goto, At, Pin, files, others
  <2> HIDE DEF r
  <2>3. Placed(r)
    BY <1>1, <2>1, <2>2 DEF Placed, Same, Fields
  <2>4. ASSUME ~moved PROVE Rooted(r, root, entries, catalog, onDisk)
    BY <1>1, <2>1, <2>2, <2>4 DEF Placed, Same, Fields, Held, Rooted, Pos
  <2>5. ASSUME ~moved PROVE Inspected(r, root, entries)
    BY <1>1, <2>1, <2>2, <2>4, <2>5 DEF Placed, Same, Fields, Held, Rooted, Inspected
  <2> QED
    BY <2>1, <2>2, <2>3, <2>4, <2>5, Turns DEF Same, Fields
<1> QED
  BY <1>2, <1>3 DEF ListRoot

\* In one that is not empty it has appeared.
LEMMA RestatStep ==
  ASSUME Inv, NEW p \in Proc, Restat(p)
  PROVE  Steps(p)
<1> DEFINE x == proc[p]
<1>1. Before(p)
  BY Now
<1>2. CASE Marker \in entries[Pin(p)]
  <2> DEFINE r == [x EXCEPT !.pc = "inspect", !.tries = @ + 1]
  <2>1. Same(x, r, {"pc", "tries"}) /\ r.pc = "inspect" /\ r.tries = x.tries + 1
    BY <1>1 DEF Same, Fields, Placed
  <2>2. /\ Set(p, r) /\ UNCHANGED <<root, entries, catalog, onDisk, announced>> /\ x.pc = "restat"
        /\ Marker \in entries[x.pin]
    BY <1>2 DEF Restat, Goto, At, Pin, files, others
  <2> HIDE DEF r
  <2>a. x.tries + 1 \in Nat
    BY <1>1 DEF Placed
  <2>3. Placed(r)
    BY <1>1, <2>1, <2>2, <2>a DEF Placed, Same, Fields
  <2>4. ASSUME ~moved PROVE Rooted(r, root, entries, catalog, onDisk)
    BY <1>1, <2>1, <2>2, <2>4, <2>a DEF Placed, Same, Fields, Held, Rooted, Pos
  <2>5. ASSUME ~moved PROVE Inspected(r, root, entries)
    BY <1>1, <2>1, <2>2, <2>4, <2>5, <2>a DEF Placed, Same, Fields, Held, Rooted, Inspected
  <2> QED
    BY <2>1, <2>2, <2>3, <2>4, <2>5, Turns DEF Same, Fields
<1>3. CASE Marker \notin entries[Pin(p)]
  <2>1. /\ Return(p, "MarkerMissingWithOtherEntries")
        /\ UNCHANGED <<root, entries, catalog, onDisk>>
        /\ announced => announced'
    BY <1>3 DEF Restat, Fail, files, others, At
  <2>2. moved
    BY <1>1, <1>3, DurableNow DEF Held, Rooted, Inspected, Told, At, Restat, Pin
  <2> QED
    BY <2>1, <2>2, Returns
<1> QED
  BY <1>2, <1>3 DEF Restat

\* The names are listed.
LEMMA LayoutStep ==
  ASSUME Inv, NEW p \in Proc, Layout(p)
  PROVE  Steps(p)
<1> DEFINE x == proc[p]
<1>1. Before(p)
  BY Now
<1>2. CASE entries[Pin(p)] \ FinalRootEntries # {}
  <2>1. /\ Return(p, "UnexpectedRootEntry") /\ UNCHANGED <<root, entries, catalog, onDisk>>
        /\ announced => announced'
    BY <1>2 DEF Layout, List, Fail, files, others, At
  <2>2. moved
    BY <1>1, <1>2, DurableNow DEF Held, Rooted, Inspected, Told, At, Layout, List, Pin
  <2> QED
    BY <2>1, <2>2, Returns
<1>3. CASE entries[Pin(p)] \subseteq FinalRootEntries
  <2> DEFINE r == [x EXCEPT !.pc = "relayout", !.names = entries[Pin(p)]]
  <2>1. Same(x, r, {"pc", "names"}) /\ r.pc = "relayout" /\ r.names = entries[Pin(p)]
    BY <1>1 DEF Same, Fields, Placed
  <2>2. Set(p, r) /\ UNCHANGED <<root, entries, catalog, onDisk, announced>> /\ x.pc = "layout"
    BY <1>3 DEF Layout, List, Goto, At, Pin, files, others
  <2> HIDE DEF r
  <2>3. Placed(r)
    BY <1>1, <2>1, <2>2 DEF Placed, Same, Fields
  <2>4. ASSUME ~moved PROVE Rooted(r, root, entries, catalog, onDisk)
    BY <1>1, <2>1, <2>2, <2>4 DEF Placed, Same, Fields, Held, Rooted, Pos
  <2>5. ASSUME ~moved PROVE Inspected(r, root, entries)
    BY <1>1, <1>3, <2>1, <2>2, <2>3, <2>4, <2>5, StoreConstants DEF Placed, Same, Fields, Held,
       Rooted, Inspected, Count, Pos, Objects, At, Pin
  <2> QED
    BY <2>1, <2>2, <2>3, <2>4, <2>5, Turns DEF Same, Fields
<1> QED
  BY <1>2, <1>3 DEF Layout, List

\* The handles are revalidated and the names listed.
LEMMA RevalidateStep ==
  ASSUME Inv, NEW p \in Proc, RevalidateHandles(p)
  PROVE  Steps(p)
<1> DEFINE x == proc[p]
<1>1. Before(p)
  BY Now
<1>2. CASE Bound(p) /\ IsStore(Pin(p)) /\ entries[Pin(p)] \ FinalRootEntries # {}
  <2>1. /\ Return(p, "UnexpectedRootEntry") /\ UNCHANGED <<root, entries, catalog, onDisk>>
        /\ announced => announced'
    BY <1>2 DEF RevalidateHandles, List, Fail, files, others, At
  <2>2. moved
    BY <1>1, <1>2, DurableNow DEF Held, Rooted, Inspected, Told, At, RevalidateHandles, List,
       Pin
  <2> QED
    BY <2>1, <2>2, Returns
<1>3. CASE Bound(p) /\ IsStore(Pin(p)) /\ entries[Pin(p)] \subseteq FinalRootEntries
  <2> DEFINE r == [x EXCEPT !.pc = "relayout", !.names = entries[Pin(p)]]
  <2>1. Same(x, r, {"pc", "names"}) /\ r.pc = "relayout" /\ r.names = entries[Pin(p)]
    BY <1>1 DEF Same, Fields, Placed
  <2>2. Set(p, r) /\ UNCHANGED <<root, entries, catalog, onDisk, announced>> /\ x.pc = "revalidate"
    BY <1>3 DEF RevalidateHandles, List, Goto, At, Pin, files, others
  <2> HIDE DEF r
  <2>3. Placed(r)
    BY <1>1, <2>1, <2>2 DEF Placed, Same, Fields
  <2>4. ASSUME ~moved PROVE Rooted(r, root, entries, catalog, onDisk)
    BY <1>1, <2>1, <2>2, <2>4 DEF Placed, Same, Fields, Held, Rooted, Pos
  <2>5. ASSUME ~moved PROVE Inspected(r, root, entries)
    BY <1>1, <1>3, <2>1, <2>2, <2>3, <2>4, <2>5, StoreConstants DEF Placed, Same, Fields, Held,
       Rooted, Inspected, Count, Pos, Objects, At, Pin
  <2> QED
    BY <2>1, <2>2, <2>3, <2>4, <2>5, Turns DEF Same, Fields
<1>4. CASE ~(Bound(p) /\ IsStore(Pin(p)))
  <2>1. /\ Return(p, "InvalidStore") /\ UNCHANGED <<root, entries, catalog, onDisk>>
        /\ announced => announced'
    BY <1>4 DEF RevalidateHandles, List, Fail, files, others, At
  <2>2. moved
    BY <1>1, <1>4, <2>1, DurableNow, StoreConstants DEF Held, Rooted, Inspected, Told, At, Pos,
       Placed, Objects, RevalidateHandles, List, Pin, Bound, IsStore
  <2> QED
    BY <2>1, <2>2, Returns
<1> QED
  BY <1>2, <1>3, <1>4 DEF RevalidateHandles, List

\* They are listed again.
LEMMA RelayoutStep ==
  ASSUME Inv, NEW p \in Proc, Relayout(p)
  PROVE  Steps(p)
<1> DEFINE x == proc[p]
<1>1. Before(p)
  BY Now
<1>2. CASE proc[p].names = entries[Pin(p)]
  <2> DEFINE r == [x EXCEPT !.pc = x.back, !.back = "none", !.names = {}, !.tries = 0]
  <2>1. /\ Same(x, r, {"pc", "back", "names", "tries"}) /\ r.pc = x.back /\ r.back = "none"
        /\ r.names = {} /\ r.tries = 0
    BY <1>1 DEF Same, Fields, Placed
  <2>2. Set(p, r) /\ UNCHANGED <<root, entries, catalog, onDisk, announced>> /\ x.pc = "relayout"
    BY <1>2 DEF Relayout, Goto, At, Pin, files, others
  <2> HIDE DEF r
  <2>a. x.back \in Later /\ x.pin # Foreign /\ x.pin \in Objects /\ x.res = "none"
    BY <1>1, <2>2 DEF Placed
  <2>b. x.back \notin Early \cup Checks \cup {"bound"}
    BY <2>a
  <2>3. Placed(r)
    BY <1>1, <2>1, <2>2, <2>a, <2>b DEF Placed, Same, Fields
  <2>c. Pos(x) = x.back
    BY <2>2 DEF Pos
  <2>4. ASSUME ~moved PROVE Rooted(r, root, entries, catalog, onDisk)
    BY <1>1, <2>1, <2>2, <2>4, <2>a, <2>b, <2>c DEF Placed, Same, Fields, Held, Rooted, Pos
  <2>5. ASSUME ~moved PROVE Inspected(r, root, entries)
    BY <1>1, <2>1, <2>2, <2>4, <2>5, <2>a, <2>b, <2>c DEF Placed, Same, Fields, Held, Inspected
  <2> QED
    BY <2>1, <2>2, <2>3, <2>4, <2>5, <2>c, Turns DEF Same, Fields
<1>3. CASE proc[p].names # entries[Pin(p)] /\ proc[p].tries + 1 < LayoutTries
  <2> DEFINE r == [x EXCEPT !.pc = "layout", !.names = {}, !.tries = @ + 1]
  <2>1. /\ Same(x, r, {"pc", "names", "tries"}) /\ r.pc = "layout" /\ r.names = {}
        /\ r.tries = x.tries + 1
    BY <1>1 DEF Same, Fields, Placed
  <2>2. /\ Set(p, r) /\ UNCHANGED <<root, entries, catalog, onDisk, announced>>
        /\ x.pc = "relayout" /\ x.names # entries[x.pin]
    BY <1>3, <1>1, StoreConstants DEF Relayout, Goto, At, Pin, files, others, Placed
  <2> HIDE DEF r
  <2>a. x.tries + 1 \in Nat
    BY <1>1 DEF Placed
  <2>3. Placed(r)
    BY <1>1, <2>1, <2>2, <2>a DEF Placed, Same, Fields
  <2>c. ASSUME ~moved PROVE x.tries + 1 <= Count(entries[root])
    <3>1. x.pin = root /\ root \in Dirs /\ Marker \in x.names /\ x.names \subseteq entries[root]
          /\ x.tries <= Count(x.names) /\ entries[root] \subseteq FinalRootEntries
      BY <1>1, <2>2, <2>c DEF Held, Rooted, Inspected
    <3>2. /\ Count(x.names) + 1 <= Count(entries[root]) /\ Count(x.names) \in Nat
          /\ Count(entries[root]) \in Nat
      BY <2>2, <3>1, MoreNames
    <3> QED
      BY <1>1, <3>1, <3>2 DEF Placed
  <2>4. ASSUME ~moved PROVE Rooted(r, root, entries, catalog, onDisk)
    BY <1>1, <2>1, <2>2, <2>4, <2>a, <2>c DEF Placed, Same, Fields, Held, Rooted, Pos
  <2>5. ASSUME ~moved PROVE Inspected(r, root, entries)
    BY <1>1, <2>1, <2>2, <2>4, <2>5, <2>a, <2>c DEF Placed, Same, Fields, Held, Inspected
  <2> QED
    BY <2>1, <2>2, <2>3, <2>4, <2>5, <2>c, Turns DEF Same, Fields
<1>4. CASE proc[p].names # entries[Pin(p)] /\ proc[p].tries + 1 >= LayoutTries
  <2>1. /\ Return(p, "ObservationChanged") /\ UNCHANGED <<root, entries, catalog, onDisk>>
        /\ announced => announced'
    BY <1>4, <1>1, StoreConstants DEF Relayout, Fail, files, others, At, Placed
  <2>a. ASSUME ~moved PROVE FALSE
    <3>1. x.pin = root /\ root \in Dirs /\ Marker \in x.names /\ x.names \subseteq entries[root]
          /\ x.tries <= Count(x.names) /\ entries[root] \subseteq FinalRootEntries
      BY <1>1, <2>a DEF Held, Rooted, Inspected, Relayout, At
    <3>2. /\ Count(x.names) + 1 <= Count(entries[root]) /\ Count(entries[root]) <= 3
          /\ Count(x.names) \in Nat /\ Count(entries[root]) \in Nat
      BY <1>4, <3>1, MoreNames DEF Pin
    <3> QED
      BY <1>1, <1>4, <3>1, <3>2, StoreConstants DEF Placed
  <2>2. moved
    BY <1>1, <1>4, <2>a, DurableNow DEF Held, Told
  <2> QED
    BY <2>1, <2>2, Returns
<1> QED
  BY <1>2, <1>3, <1>4, <1>1, StoreConstants DEF Relayout, Placed

\* A descriptor that is missing is written.
LEMMA DecideStep ==
  ASSUME Inv, NEW p \in Proc, Decide(p)
  PROVE  Steps(p)
<1> DEFINE x == proc[p]
<1>1. Before(p)
  BY Now
<1>2. CASE proc[p].found = "ready"
  <2> DEFINE r == [x EXCEPT !.pc = "handles"]
  <2>1. Same(x, r, {"pc"}) /\ r.pc = "handles"
    BY <1>1 DEF Same, Fields, Placed
  <2>2. /\ Set(p, r) /\ UNCHANGED <<root, entries, catalog, onDisk, announced>> /\ x.pc = "decide"
        /\ x.found = "ready"
    BY <1>2 DEF Decide, Goto, At, Pin, files, others
  <2> HIDE DEF r
  <2>3. Placed(r)
    BY <1>1, <2>1, <2>2 DEF Placed, Same, Fields
  <2>4. ASSUME ~moved PROVE Rooted(r, root, entries, catalog, onDisk)
    BY <1>1, <2>1, <2>2, <2>4 DEF Placed, Same, Fields, Held, Rooted, Inspected, Pos
  <2>5. ASSUME ~moved PROVE Inspected(r, root, entries)
    BY <1>1, <2>1, <2>2, <2>4, <2>5 DEF Placed, Same, Fields, Held, Inspected
  <2> QED
    BY <2>1, <2>2, <2>3, <2>4, <2>5, Turns DEF Same, Fields
<1>3. CASE proc[p].found = "missing" /\ Bound(p)
  <2> DEFINE r == [x EXCEPT !.pc = "inspect", !.back = "linkMarker", !.tries = 0]
  <2>1. /\ Same(x, r, {"pc", "back", "tries"}) /\ r.pc = "inspect" /\ r.back = "linkMarker"
        /\ r.tries = 0
    BY <1>1 DEF Same, Fields, Placed
  <2>2. Set(p, r) /\ UNCHANGED <<root, entries, catalog, onDisk, announced>> /\ x.pc = "decide"
    BY <1>3 DEF Decide, Goto, Inspect, Revalidate, At, Pin, files, others, Bound
  <2> HIDE DEF r
  <2>3. Placed(r)
    BY <1>1, <2>1, <2>2 DEF Placed, Same, Fields
  <2>4. ASSUME ~moved PROVE Rooted(r, root, entries, catalog, onDisk)
    BY <1>1, <2>1, <2>2, <2>4 DEF Placed, Same, Fields, Held, Rooted, Pos
  <2>5. ASSUME ~moved PROVE Inspected(r, root, entries)
    BY <1>1, <2>1, <2>2, <2>4, <2>5 DEF Placed, Same, Fields, Held, Inspected
  <2> QED
    BY <2>1, <2>2, <2>3, <2>4, <2>5, Turns DEF Same, Fields
<1>4. CASE proc[p].found = "missing" /\ ~Bound(p)
  <2>1. /\ Return(p, "RootObservationChanged") /\ UNCHANGED <<root, entries, catalog, onDisk>>
        /\ announced => announced'
    BY <1>4 DEF Decide, Fail, files, others, At
  <2>2. moved
    BY <1>1, <1>4, DurableNow DEF Held, Rooted, Inspected, Told, At, Decide, Bound, Pin
  <2> QED
    BY <2>1, <2>2, Returns
<1> QED
  BY <1>2, <1>3, <1>4 DEF Decide

\* It is linked, unless another process was faster.
LEMMA LinkMarkerStep ==
  ASSUME Inv, NEW p \in Proc, LinkMarker(p)
  PROVE  Steps(p)
<1> DEFINE x == proc[p]
<1>1. Before(p)
  BY Now
<1>2. CASE proc[p].found = "ready"
  <2> DEFINE r == [x EXCEPT !.pc = "markerSync"]
  <2>1. Same(x, r, {"pc"}) /\ r.pc = "markerSync"
    BY <1>1 DEF Same, Fields, Placed
  <2>2. /\ Set(p, r) /\ UNCHANGED <<root, entries, catalog, onDisk, announced>>
        /\ x.pc = "linkMarker" /\ x.found = "ready"
    BY <1>2 DEF LinkMarker, Goto, At, Pin, files, others
  <2> HIDE DEF r
  <2>3. Placed(r)
    BY <1>1, <2>1, <2>2 DEF Placed, Same, Fields
  <2>4. ASSUME ~moved PROVE Rooted(r, root, entries, catalog, onDisk)
    BY <1>1, <2>1, <2>2, <2>4 DEF Placed, Same, Fields, Held, Rooted, Inspected, Pos
  <2>5. ASSUME ~moved PROVE Inspected(r, root, entries)
    BY <1>1, <2>1, <2>2, <2>4, <2>5 DEF Placed, Same, Fields, Held, Inspected
  <2> QED
    BY <2>1, <2>2, <2>3, <2>4, <2>5, Turns DEF Same, Fields
<1>3. CASE proc[p].found = "missing" /\ Marker \notin entries[Pin(p)]
  <2> DEFINE r == [x EXCEPT !.pc = "markerSync"]
  <2>1. Same(x, r, {"pc"}) /\ r.pc = "markerSync"
    BY <1>1 DEF Same, Fields, Placed
  <2>2. Set(p, r) /\ UNCHANGED announced /\ x.pc = "linkMarker" /\ x.found = "missing"
    BY <1>3 DEF LinkMarker, Goto, At, Pin, files, others
  <2> HIDE DEF r
  <2>3. /\ FileTypes' /\ (~moved => FilesNext) /\ UNCHANGED <<root, catalog>>
        /\ entries'[x.pin] = entries[x.pin] \cup {Marker}
    <3>1. x.pin \in Dirs /\ AddEntry(x.pin, Marker) /\ UNCHANGED <<root, catalog>>
      BY <1>1, <1>3, <2>2 DEF LinkMarker, Pin, Placed, Objects
    <3>2. ~moved => Ordered(entries[x.pin] \cup {Marker})
      <4>1. ASSUME ~moved
            PROVE  /\ x.pin = root /\ entries[root] \subseteq FinalRootEntries
                   /\ State \in entries[root] => Lock \in entries[root]
                   /\ Marker = Marker \/ Marker \in entries[root]
                   /\ Marker = State => Lock \in entries[root]
        BY <1>1, <2>2, <4>1
           DEF Held, Rooted, Pos, Marker, Lock, State, Maintenance
      <4> QED
        BY <4>1 DEF Ordered, FinalRootEntries, Marker, Lock, State, Maintenance
    <3> QED
      BY <1>1, <3>1, <3>2, Adds DEF FinalRootEntries
  <2>4. Placed(r)
    BY <1>1, <2>1, <2>2 DEF Placed, Same, Fields
  <2>5. ASSUME ~moved PROVE Held(x, root', entries', catalog', onDisk', announced)
    BY <1>1, <2>3, <2>5, Survives
  <2>6. ASSUME ~moved PROVE Rooted(r, root', entries', catalog', onDisk')
    BY <1>1, <2>1, <2>2, <2>3, <2>5, <2>6 DEF Placed, Same, Fields, Held, Rooted, Pos
  <2>7. ASSUME ~moved PROVE Inspected(r, root', entries')
    BY <1>1, <2>1, <2>2, <2>3, <2>5, <2>6, <2>7 DEF Placed, Same, Fields, Held, Inspected
  <2> QED
    BY <2>1, <2>2, <2>3, <2>4, <2>6, <2>7, Goes DEF Same, Fields
<1>4. CASE proc[p].found = "missing" /\ Marker \in entries[Pin(p)]
  <2> DEFINE r == [x EXCEPT !.pc = "inspect", !.back = "markerSync", !.tries = 0]
  <2>1. /\ Same(x, r, {"pc", "back", "tries"}) /\ r.pc = "inspect" /\ r.back = "markerSync"
        /\ r.tries = 0
    BY <1>1 DEF Same, Fields, Placed
  <2>2. /\ Set(p, r) /\ UNCHANGED <<root, entries, catalog, onDisk, announced>>
        /\ x.pc = "linkMarker" /\ Marker \in entries[x.pin]
    BY <1>4 DEF LinkMarker, Goto, Inspect, Revalidate, At, Pin, files, others, Bound
  <2> HIDE DEF r
  <2>3. Placed(r)
    BY <1>1, <2>1, <2>2 DEF Placed, Same, Fields
  <2>4. ASSUME ~moved PROVE Rooted(r, root, entries, catalog, onDisk)
    BY <1>1, <2>1, <2>2, <2>4 DEF Placed, Same, Fields, Held, Rooted, Pos
  <2>5. ASSUME ~moved PROVE Inspected(r, root, entries)
    BY <1>1, <2>1, <2>2, <2>4, <2>5 DEF Placed, Same, Fields, Held, Inspected
  <2> QED
    BY <2>1, <2>2, <2>3, <2>4, <2>5, Turns DEF Same, Fields
<1> QED
  BY <1>2, <1>3, <1>4 DEF LinkMarker

\* It is made durable.
LEMMA MarkerSyncStep ==
  ASSUME Inv, NEW p \in Proc, MarkerSync(p)
  PROVE  Steps(p)
<1> DEFINE x == proc[p]
<1>1. Before(p)
  BY Now
<1>2. CASE proc[p].found = "missing"
  <2> DEFINE r == [x EXCEPT !.pc = "inspect", !.back = "confirm", !.tries = 0]
  <2>1. Same(x, r, {"pc", "back", "tries"}) /\ r.pc = "inspect" /\ r.back = "confirm" /\ r.tries = 0
    BY <1>1 DEF Same, Fields, Placed
  <2>2. Set(p, r) /\ UNCHANGED announced /\ x.pc = "markerSync"
    BY <1>2 DEF MarkerSync, Goto, Inspect, Revalidate, At, Pin, files, others, Bound
  <2> HIDE DEF r
  <2>3. FileTypes' /\ (~moved => FilesNext) /\ UNCHANGED <<root, entries, catalog>>
    <3>1. x.pin \in Dirs
      BY <1>1, <2>2 DEF Placed, Objects
    <3>2. /\ UNCHANGED <<root, entries, catalog>>
          /\ \/ SyncRoot(x.pin)
             \/ SyncState(x.pin)
             \/ onDisk' = [onDisk EXCEPT !.root = {root}, !.entries[x.pin] = {entries[x.pin]}]
      BY <1>2 DEF MarkerSync, Pin
    <3> QED
      BY <1>1, <3>1, <3>2, Syncs
  <2>4. Placed(r)
    BY <1>1, <2>1, <2>2 DEF Placed, Same, Fields
  <2>5. ASSUME ~moved PROVE Held(x, root', entries', catalog', onDisk', announced)
    BY <1>1, <2>3, <2>5, Survives
  <2>6. ASSUME ~moved PROVE Rooted(r, root', entries', catalog', onDisk')
    BY <1>1, <2>1, <2>2, <2>3, <2>5, <2>6 DEF Placed, Same, Fields, Held, Rooted, Pos
  <2>7. ASSUME ~moved PROVE Inspected(r, root', entries')
    BY <1>1, <2>1, <2>2, <2>3, <2>5, <2>6, <2>7 DEF Placed, Same, Fields, Held, Inspected
  <2> QED
    BY <2>1, <2>2, <2>3, <2>4, <2>6, <2>7, Goes DEF Same, Fields
<1>3. CASE proc[p].found # "missing"
  <2> DEFINE r == [x EXCEPT !.pc = "handles"]
  <2>1. Same(x, r, {"pc"}) /\ r.pc = "handles"
    BY <1>1 DEF Same, Fields, Placed
  <2>2. Set(p, r) /\ UNCHANGED announced /\ x.pc = "markerSync" /\ x.found # "missing"
    BY <1>3 DEF MarkerSync, Goto, At, Pin, files, others
  <2> HIDE DEF r
  <2>3. FileTypes' /\ (~moved => FilesNext) /\ UNCHANGED <<root, entries, catalog>>
    <3>1. x.pin \in Dirs
      BY <1>1, <2>2 DEF Placed, Objects
    <3>2. /\ UNCHANGED <<root, entries, catalog>>
          /\ \/ SyncRoot(x.pin)
             \/ SyncState(x.pin)
             \/ onDisk' = [onDisk EXCEPT !.root = {root}, !.entries[x.pin] = {entries[x.pin]}]
      BY <1>3 DEF MarkerSync, Pin
    <3> QED
      BY <1>1, <3>1, <3>2, Syncs
  <2>4. Placed(r)
    BY <1>1, <2>1, <2>2 DEF Placed, Same, Fields
  <2>5. ASSUME ~moved PROVE Held(x, root', entries', catalog', onDisk', announced)
    BY <1>1, <2>3, <2>5, Survives
  <2>6. ASSUME ~moved PROVE Rooted(r, root', entries', catalog', onDisk')
    BY <1>1, <2>1, <2>2, <2>3, <2>5, <2>6 DEF Placed, Same, Fields, Held, Rooted, Pos
  <2>7. ASSUME ~moved PROVE Inspected(r, root', entries')
    BY <1>1, <2>1, <2>2, <2>3, <2>5, <2>6, <2>7 DEF Placed, Same, Fields, Held, Inspected
  <2> QED
    BY <2>1, <2>2, <2>3, <2>4, <2>6, <2>7, Goes DEF Same, Fields
<1> QED
  BY <1>2, <1>3 DEF MarkerSync

\* It is there.
LEMMA ConfirmStep ==
  ASSUME Inv, NEW p \in Proc, Confirm(p)
  PROVE  Steps(p)
<1> DEFINE x == proc[p]
<1>1. Before(p)
  BY Now
<1>2. CASE proc[p].found = "ready"
  <2> DEFINE r == [x EXCEPT !.pc = "handles"]
  <2>1. Same(x, r, {"pc"}) /\ r.pc = "handles"
    BY <1>1 DEF Same, Fields, Placed
  <2>2. /\ Set(p, r) /\ UNCHANGED <<root, entries, catalog, onDisk, announced>>
        /\ x.pc = "confirm" /\ x.found = "ready"
    BY <1>2 DEF Confirm, Goto, At, Pin, files, others
  <2> HIDE DEF r
  <2>3. Placed(r)
    BY <1>1, <2>1, <2>2 DEF Placed, Same, Fields
  <2>4. ASSUME ~moved PROVE Rooted(r, root, entries, catalog, onDisk)
    BY <1>1, <2>1, <2>2, <2>4 DEF Placed, Same, Fields, Held, Rooted, Pos
  <2>5. ASSUME ~moved PROVE Inspected(r, root, entries)
    BY <1>1, <2>1, <2>2, <2>4, <2>5 DEF Placed, Same, Fields, Held, Inspected
  <2> QED
    BY <2>1, <2>2, <2>3, <2>4, <2>5, Turns DEF Same, Fields
<1>3. CASE proc[p].found = "missing"
  <2>1. /\ Return(p, "ObservationChanged") /\ UNCHANGED <<root, entries, catalog, onDisk>>
        /\ announced => announced'
    BY <1>3 DEF Confirm, Fail, files, others, At
  <2>2. moved
    BY <1>1, <1>3, DurableNow DEF Held, Rooted, Inspected, Told, At, Confirm
  <2> QED
    BY <2>1, <2>2, Returns
<1> QED
  BY <1>2, <1>3 DEF Confirm

\* The root is opened anew.
LEMMA OpenHandlesStep ==
  ASSUME Inv, NEW p \in Proc, OpenHandles(p)
  PROVE  Steps(p)
<1> DEFINE x == proc[p]
<1>1. Before(p)
  BY Now
<1>2. CASE IsStore(root)
  <2> DEFINE r == [x EXCEPT !.pc = "layout", !.back = "children", !.pin = root, !.found = "none"]
  <2>1. /\ Same(x, r, {"pc", "back", "pin", "found"}) /\ r.pc = "layout" /\ r.back = "children"
        /\ r.pin = root /\ r.found = "none"
    BY <1>1 DEF Same, Fields, Placed
  <2>2. /\ Set(p, r) /\ UNCHANGED <<root, entries, catalog, onDisk, announced>>
        /\ x.pc = "handles" /\ IsStore(root)
    BY <1>2 DEF OpenHandles, Goto, At, Pin, files, others
  <2> HIDE DEF r
  <2>a. root \in Objects /\ root # Foreign
    <3>1. Marker \notin entries[Foreign]
      BY <1>1 DEF FileTypes, Disks, Marker, Alien
    <3>2. root # None /\ Marker \in entries[root]
      BY <2>2 DEF IsStore
    <3> QED
      BY <1>1, <3>1, <3>2 DEF FileTypes, Disks
  <2>3. Placed(r)
    BY <1>1, <2>1, <2>2, <2>a DEF Placed, Same, Fields, IsStore
  <2>4. ASSUME ~moved PROVE Rooted(r, root, entries, catalog, onDisk)
    BY <1>1, <2>1, <2>2, <2>4, <2>a DEF Placed, Same, Fields, Held, Rooted, Pos, IsStore
  <2>5. ASSUME ~moved PROVE Inspected(r, root, entries)
    BY <1>1, <2>1, <2>2, <2>4, <2>5, <2>a DEF Placed, Same, Fields, Held, Rooted, Inspected,
       Count, IsStore
  <2> QED
    BY <2>1, <2>2, <2>3, <2>4, <2>5, Turns DEF Same, Fields
<1>3. CASE ~IsStore(root)
  <2>1. /\ Return(p, "InvalidStore") /\ UNCHANGED <<root, entries, catalog, onDisk>>
        /\ announced => announced'
    BY <1>3 DEF OpenHandles, Fail, files, others, At
  <2>2. moved
    BY <1>1, <1>3, <2>1, DurableNow, StoreConstants DEF Held, Rooted, Inspected, Told, At, Pos,
       Placed, Objects, OpenHandles, IsStore
  <2> QED
    BY <2>1, <2>2, Returns
<1> QED
  BY <1>2, <1>3 DEF OpenHandles

\* So are its containers.
LEMMA ChildrenStep ==
  ASSUME Inv, NEW p \in Proc, Children(p)
  PROVE  Steps(p)
<1> DEFINE x == proc[p]
<1>1. Before(p)
  BY Now
<1> DEFINE r == [x EXCEPT !.pc = "revalidate", !.back = "preflight", !.tries = 0,
                          !.state = (State \in entries[Pin(p)])]
<1>2. /\ Same(x, r, {"pc", "back", "tries", "state"}) /\ r.pc = "revalidate"
      /\ r.back = "preflight" /\ r.tries = 0 /\ r.state = (State \in entries[Pin(p)])
  BY <1>1 DEF Same, Fields, Placed
<1>3. Set(p, r) /\ UNCHANGED <<root, entries, catalog, onDisk, announced>> /\ x.pc = "children"
  BY DEF Children, Goto, At, Pin, files, others
<1> HIDE DEF r
<1>4. Placed(r)
  BY <1>1, <1>2, <1>3 DEF Placed, Same, Fields, Count
<1>5. ASSUME ~moved PROVE Rooted(r, root, entries, catalog, onDisk)
  BY <1>1, <1>2, <1>3, <1>5 DEF Placed, Same, Fields, Held, Rooted, Pos, Count
<1>6. ASSUME ~moved PROVE Inspected(r, root, entries)
  BY <1>1, <1>2, <1>3, <1>5, <1>6 DEF Placed, Same, Fields, Held, Inspected, Count
<1> QED
  BY <1>2, <1>3, <1>4, <1>5, <1>6, Turns DEF Same, Fields

\* The catalog is looked for.
LEMMA PreflightStep ==
  ASSUME Inv, NEW p \in Proc, Preflight(p)
  PROVE  Steps(p)
<1> DEFINE x == proc[p]
<1>1. Before(p)
  BY Now
<1>2. CASE proc[p].state /\ ~catalog[Pin(p)]
  <2> DEFINE r == [x EXCEPT !.pc = "listState"]
  <2>1. Same(x, r, {"pc"}) /\ r.pc = "listState"
    BY <1>1 DEF Same, Fields, Placed
  <2>2. Set(p, r) /\ UNCHANGED <<root, entries, catalog, onDisk, announced>> /\ x.pc = "preflight"
    BY <1>2 DEF Preflight, Goto, At, Pin, files, others
  <2> HIDE DEF r
  <2>3. Placed(r)
    BY <1>1, <2>1, <2>2 DEF Placed, Same, Fields
  <2>4. ASSUME ~moved PROVE Rooted(r, root, entries, catalog, onDisk)
    BY <1>1, <2>1, <2>2, <2>4 DEF Placed, Same, Fields, Held, Rooted, Pos
  <2>5. ASSUME ~moved PROVE Inspected(r, root, entries)
    BY <1>1, <2>1, <2>2, <2>4, <2>5 DEF Placed, Same, Fields, Held, Inspected
  <2> QED
    BY <2>1, <2>2, <2>3, <2>4, <2>5, Turns DEF Same, Fields
<1>3. CASE ~(proc[p].state /\ ~catalog[Pin(p)])
  <2> DEFINE r == [x EXCEPT !.pc = "lock"]
  <2>1. Same(x, r, {"pc"}) /\ r.pc = "lock"
    BY <1>1 DEF Same, Fields, Placed
  <2>2. Set(p, r) /\ UNCHANGED <<root, entries, catalog, onDisk, announced>> /\ x.pc = "preflight"
    BY <1>3 DEF Preflight, Goto, At, Pin, files, others
  <2> HIDE DEF r
  <2>3. Placed(r)
    BY <1>1, <2>1, <2>2 DEF Placed, Same, Fields
  <2>4. ASSUME ~moved PROVE Rooted(r, root, entries, catalog, onDisk)
    BY <1>1, <2>1, <2>2, <2>4 DEF Placed, Same, Fields, Held, Rooted, Pos
  <2>5. ASSUME ~moved PROVE Inspected(r, root, entries)
    BY <1>1, <2>1, <2>2, <2>4, <2>5 DEF Placed, Same, Fields, Held, Inspected
  <2> QED
    BY <2>1, <2>2, <2>3, <2>4, <2>5, Turns DEF Same, Fields
<1> QED
  BY <1>2, <1>3 DEF Preflight

\* One that has appeared has a lock beside it.
LEMMA ListStateStep ==
  ASSUME Inv, NEW p \in Proc, ListState(p)
  PROVE  Steps(p)
<1> DEFINE x == proc[p]
<1>1. Before(p)
  BY Now
<1>2. CASE catalog[Pin(p)] /\ Lock \notin entries[Pin(p)]
  <2>1. /\ Return(p, "MissingStateCatalog") /\ UNCHANGED <<root, entries, catalog, onDisk>>
        /\ announced => announced'
    BY <1>2 DEF ListState, Fail, files, others, At
  <2>2. moved
    BY <1>1, <1>2, DurableNow DEF Held, Rooted, Inspected, Told, At, ListState, Pin
  <2> QED
    BY <2>1, <2>2, Returns
<1>3. CASE catalog[Pin(p)] /\ Lock \in entries[Pin(p)]
  <2> DEFINE r == [x EXCEPT !.pc = "flock"]
  <2>1. Same(x, r, {"pc"}) /\ r.pc = "flock"
    BY <1>1 DEF Same, Fields, Placed
  <2>2. /\ Set(p, r) /\ UNCHANGED <<root, entries, catalog, onDisk, announced>>
        /\ x.pc = "listState" /\ Lock \in entries[x.pin]
    BY <1>3 DEF ListState, Goto, At, Pin, files, others
  <2> HIDE DEF r
  <2>3. Placed(r)
    BY <1>1, <2>1, <2>2 DEF Placed, Same, Fields
  <2>4. ASSUME ~moved PROVE Rooted(r, root, entries, catalog, onDisk)
    BY <1>1, <2>1, <2>2, <2>4 DEF Placed, Same, Fields, Held, Rooted, Pos
  <2>5. ASSUME ~moved PROVE Inspected(r, root, entries)
    BY <1>1, <2>1, <2>2, <2>4, <2>5 DEF Placed, Same, Fields, Held, Inspected
  <2> QED
    BY <2>1, <2>2, <2>3, <2>4, <2>5, Turns DEF Same, Fields
<1>4. CASE ~catalog[Pin(p)]
  <2> DEFINE r == [x EXCEPT !.pc = "lock"]
  <2>1. Same(x, r, {"pc"}) /\ r.pc = "lock"
    BY <1>1 DEF Same, Fields, Placed
  <2>2. Set(p, r) /\ UNCHANGED <<root, entries, catalog, onDisk, announced>> /\ x.pc = "listState"
    BY <1>4 DEF ListState, Goto, At, Pin, files, others
  <2> HIDE DEF r
  <2>3. Placed(r)
    BY <1>1, <2>1, <2>2 DEF Placed, Same, Fields
  <2>4. ASSUME ~moved PROVE Rooted(r, root, entries, catalog, onDisk)
    BY <1>1, <2>1, <2>2, <2>4 DEF Placed, Same, Fields, Held, Rooted, Pos
  <2>5. ASSUME ~moved PROVE Inspected(r, root, entries)
    BY <1>1, <2>1, <2>2, <2>4, <2>5 DEF Placed, Same, Fields, Held, Inspected
  <2> QED
    BY <2>1, <2>2, <2>3, <2>4, <2>5, Turns DEF Same, Fields
<1> QED
  BY <1>2, <1>3, <1>4 DEF ListState

\* The lock is opened or created.
LEMMA OpenLockStep ==
  ASSUME Inv, NEW p \in Proc, OpenLock(p)
  PROVE  Steps(p)
<1> DEFINE x == proc[p]
<1>1. Before(p)
  BY Now
<1>2. CASE Lock \in entries[Pin(p)]
  <2> DEFINE r == [x EXCEPT !.pc = "lockSync"]
  <2>1. Same(x, r, {"pc"}) /\ r.pc = "lockSync"
    BY <1>1 DEF Same, Fields, Placed
  <2>2. /\ Set(p, r) /\ UNCHANGED <<root, entries, catalog, onDisk, announced>> /\ x.pc = "lock"
        /\ Lock \in entries[x.pin]
    BY <1>2 DEF OpenLock, Goto, At, Pin, files, others
  <2> HIDE DEF r
  <2>3. Placed(r)
    BY <1>1, <2>1, <2>2 DEF Placed, Same, Fields
  <2>4. ASSUME ~moved PROVE Rooted(r, root, entries, catalog, onDisk)
    BY <1>1, <2>1, <2>2, <2>4 DEF Placed, Same, Fields, Held, Rooted, Pos
  <2>5. ASSUME ~moved PROVE Inspected(r, root, entries)
    BY <1>1, <2>1, <2>2, <2>4, <2>5 DEF Placed, Same, Fields, Held, Inspected
  <2> QED
    BY <2>1, <2>2, <2>3, <2>4, <2>5, Turns DEF Same, Fields
<1>3. CASE Lock \notin entries[Pin(p)]
  <2> DEFINE r == [x EXCEPT !.pc = "lockSync"]
  <2>1. Same(x, r, {"pc"}) /\ r.pc = "lockSync"
    BY <1>1 DEF Same, Fields, Placed
  <2>2. Set(p, r) /\ UNCHANGED announced /\ x.pc = "lock"
    BY <1>3 DEF OpenLock, Goto, At, Pin, files, others
  <2> HIDE DEF r
  <2>3. /\ FileTypes' /\ (~moved => FilesNext) /\ UNCHANGED <<root, catalog>>
        /\ entries'[x.pin] = entries[x.pin] \cup {Lock}
    <3>1. x.pin \in Dirs /\ AddEntry(x.pin, Lock) /\ UNCHANGED <<root, catalog>>
      BY <1>1, <1>3, <2>2 DEF OpenLock, Pin, Placed, Objects
    <3>2. ~moved => Ordered(entries[x.pin] \cup {Lock})
      <4>1. ASSUME ~moved
            PROVE  /\ x.pin = root /\ entries[root] \subseteq FinalRootEntries
                   /\ State \in entries[root] => Lock \in entries[root]
                   /\ Lock = Marker \/ Marker \in entries[root]
                   /\ Lock = State => Lock \in entries[root]
        BY <1>1, <2>2, <4>1
           DEF Held, Rooted, Pos, Marker, Lock, State, Maintenance
      <4> QED
        BY <4>1 DEF Ordered, FinalRootEntries, Marker, Lock, State, Maintenance
    <3> QED
      BY <1>1, <3>1, <3>2, Adds DEF FinalRootEntries
  <2>4. Placed(r)
    BY <1>1, <2>1, <2>2 DEF Placed, Same, Fields
  <2>5. ASSUME ~moved PROVE Held(x, root', entries', catalog', onDisk', announced)
    BY <1>1, <2>3, <2>5, Survives
  <2>6. ASSUME ~moved PROVE Rooted(r, root', entries', catalog', onDisk')
    BY <1>1, <2>1, <2>2, <2>3, <2>5, <2>6 DEF Placed, Same, Fields, Held, Rooted, Pos
  <2>7. ASSUME ~moved PROVE Inspected(r, root', entries')
    BY <1>1, <2>1, <2>2, <2>3, <2>5, <2>6, <2>7 DEF Placed, Same, Fields, Held, Inspected
  <2> QED
    BY <2>1, <2>2, <2>3, <2>4, <2>6, <2>7, Goes DEF Same, Fields
<1> QED
  BY <1>2, <1>3 DEF OpenLock

\* Its name is durable.
LEMMA LockSyncStep ==
  ASSUME Inv, NEW p \in Proc, LockSync(p)
  PROVE  Steps(p)
<1> DEFINE x == proc[p]
<1>1. Before(p)
  BY Now
<1> DEFINE r == [x EXCEPT !.pc = "flock"]
<1>2. Same(x, r, {"pc"}) /\ r.pc = "flock"
  BY <1>1 DEF Same, Fields, Placed
<1>3. Set(p, r) /\ UNCHANGED announced /\ x.pc = "lockSync"
  BY DEF LockSync, Goto, At, Pin, files, others
<1> HIDE DEF r
<1>4. FileTypes' /\ (~moved => FilesNext) /\ UNCHANGED <<root, entries, catalog>>
  <2>1. x.pin \in Dirs
    BY <1>1, <1>3 DEF Placed, Objects
  <2>2. /\ UNCHANGED <<root, entries, catalog>>
        /\ \/ SyncRoot(x.pin)
           \/ SyncState(x.pin)
           \/ onDisk' = [onDisk EXCEPT !.root = {root}, !.entries[x.pin] = {entries[x.pin]}]
    BY DEF LockSync, Pin
  <2> QED
    BY <1>1, <2>1, <2>2, Syncs
<1>5. Placed(r)
  BY <1>1, <1>2, <1>3 DEF Placed, Same, Fields
<1>6. ASSUME ~moved PROVE Held(x, root', entries', catalog', onDisk', announced)
  BY <1>1, <1>4, <1>6, Survives
<1>7. ASSUME ~moved PROVE Rooted(r, root', entries', catalog', onDisk')
  BY <1>1, <1>2, <1>3, <1>4, <1>6, <1>7 DEF Placed, Same, Fields, Held, Rooted, Pos
<1>8. ASSUME ~moved PROVE Inspected(r, root', entries')
  BY <1>1, <1>2, <1>3, <1>4, <1>6, <1>7, <1>8 DEF Placed, Same, Fields, Held, Inspected
<1> QED
  BY <1>2, <1>3, <1>4, <1>5, <1>7, <1>8, Goes DEF Same, Fields

\* It is taken.
LEMMA FlockStep ==
  ASSUME Inv, NEW p \in Proc, Flock(p)
  PROVE  Steps(p)
<1> DEFINE x == proc[p]
<1>1. Before(p)
  BY Now
<1> DEFINE r == [x EXCEPT !.pc = "revalidate", !.back = "second", !.tries = 0,
                          !.state = (State \in entries[Pin(p)])]
<1>2. /\ Same(x, r, {"pc", "back", "tries", "state"}) /\ r.pc = "revalidate" /\ r.back = "second"
      /\ r.tries = 0 /\ r.state = (State \in entries[Pin(p)])
  BY <1>1 DEF Same, Fields, Placed
<1>3. Set(p, r) /\ UNCHANGED <<root, entries, catalog, onDisk, announced>> /\ x.pc = "flock"
  BY DEF Flock, Goto, At, Pin, files, others
<1> HIDE DEF r
<1>4. Placed(r)
  BY <1>1, <1>2, <1>3 DEF Placed, Same, Fields, Count
<1>5. ASSUME ~moved PROVE Rooted(r, root, entries, catalog, onDisk)
  BY <1>1, <1>2, <1>3, <1>5 DEF Placed, Same, Fields, Held, Rooted, Pos, Count
<1>6. ASSUME ~moved PROVE Inspected(r, root, entries)
  BY <1>1, <1>2, <1>3, <1>5, <1>6 DEF Placed, Same, Fields, Held, Inspected, Count
<1> QED
  BY <1>2, <1>3, <1>4, <1>5, <1>6, Turns DEF Same, Fields

\* Under it the catalog is looked for again.
LEMMA SecondStep ==
  ASSUME Inv, NEW p \in Proc, Second(p)
  PROVE  Steps(p)
<1> DEFINE x == proc[p]
<1>1. Before(p)
  BY Now
<1>2. CASE proc[p].state /\ catalog[Pin(p)]
  <2> DEFINE r == [x EXCEPT !.pc = "link"]
  <2>1. Same(x, r, {"pc"}) /\ r.pc = "link"
    BY <1>1 DEF Same, Fields, Placed
  <2>2. /\ Set(p, r) /\ UNCHANGED <<root, entries, catalog, onDisk, announced>> /\ x.pc = "second"
        /\ catalog[x.pin]
    BY <1>2 DEF Second, Goto, At, Pin, files, others
  <2> HIDE DEF r
  <2>3. Placed(r)
    BY <1>1, <2>1, <2>2 DEF Placed, Same, Fields
  <2>4. ASSUME ~moved PROVE Rooted(r, root, entries, catalog, onDisk)
    BY <1>1, <2>1, <2>2, <2>4 DEF Placed, Same, Fields, Held, Rooted, Pos
  <2>5. ASSUME ~moved PROVE Inspected(r, root, entries)
    BY <1>1, <2>1, <2>2, <2>4, <2>5 DEF Placed, Same, Fields, Held, Inspected
  <2> QED
    BY <2>1, <2>2, <2>3, <2>4, <2>5, Turns DEF Same, Fields
<1>3. CASE ~(proc[p].state /\ catalog[Pin(p)])
  <2> DEFINE r == [x EXCEPT !.pc = "container"]
  <2>1. Same(x, r, {"pc"}) /\ r.pc = "container"
    BY <1>1 DEF Same, Fields, Placed
  <2>2. Set(p, r) /\ UNCHANGED <<root, entries, catalog, onDisk, announced>> /\ x.pc = "second"
    BY <1>3 DEF Second, Goto, At, Pin, files, others
  <2> HIDE DEF r
  <2>3. Placed(r)
    BY <1>1, <2>1, <2>2 DEF Placed, Same, Fields
  <2>4. ASSUME ~moved PROVE Rooted(r, root, entries, catalog, onDisk)
    BY <1>1, <2>1, <2>2, <2>4 DEF Placed, Same, Fields, Held, Rooted, Pos
  <2>5. ASSUME ~moved PROVE Inspected(r, root, entries)
    BY <1>1, <2>1, <2>2, <2>4, <2>5 DEF Placed, Same, Fields, Held, Inspected
  <2> QED
    BY <2>1, <2>2, <2>3, <2>4, <2>5, Turns DEF Same, Fields
<1> QED
  BY <1>2, <1>3 DEF Second

\* A container for it is created.
LEMMA ContainerStep ==
  ASSUME Inv, NEW p \in Proc, Container(p)
  PROVE  Steps(p)
<1> DEFINE x == proc[p]
<1>1. Before(p)
  BY Now
<1>2. CASE State \in entries[Pin(p)]
  <2> DEFINE r == [x EXCEPT !.pc = "containerSync"]
  <2>1. Same(x, r, {"pc"}) /\ r.pc = "containerSync"
    BY <1>1 DEF Same, Fields, Placed
  <2>2. /\ Set(p, r) /\ UNCHANGED <<root, entries, catalog, onDisk, announced>>
        /\ x.pc = "container" /\ State \in entries[x.pin]
    BY <1>2 DEF Container, Goto, At, Pin, files, others
  <2> HIDE DEF r
  <2>3. Placed(r)
    BY <1>1, <2>1, <2>2 DEF Placed, Same, Fields
  <2>4. ASSUME ~moved PROVE Rooted(r, root, entries, catalog, onDisk)
    BY <1>1, <2>1, <2>2, <2>4 DEF Placed, Same, Fields, Held, Rooted, Pos
  <2>5. ASSUME ~moved PROVE Inspected(r, root, entries)
    BY <1>1, <2>1, <2>2, <2>4, <2>5 DEF Placed, Same, Fields, Held, Inspected
  <2> QED
    BY <2>1, <2>2, <2>3, <2>4, <2>5, Turns DEF Same, Fields
<1>3. CASE State \notin entries[Pin(p)]
  <2> DEFINE r == [x EXCEPT !.pc = "containerSync"]
  <2>1. Same(x, r, {"pc"}) /\ r.pc = "containerSync"
    BY <1>1 DEF Same, Fields, Placed
  <2>2. Set(p, r) /\ UNCHANGED announced /\ x.pc = "container"
    BY <1>3 DEF Container, Goto, At, Pin, files, others
  <2> HIDE DEF r
  <2>3. /\ FileTypes' /\ (~moved => FilesNext) /\ UNCHANGED <<root, catalog>>
        /\ entries'[x.pin] = entries[x.pin] \cup {State}
    <3>1. x.pin \in Dirs /\ AddEntry(x.pin, State) /\ UNCHANGED <<root, catalog>>
      BY <1>1, <1>3, <2>2 DEF Container, Pin, Placed, Objects
    <3>2. ~moved => Ordered(entries[x.pin] \cup {State})
      <4>1. ASSUME ~moved
            PROVE  /\ x.pin = root /\ entries[root] \subseteq FinalRootEntries
                   /\ State \in entries[root] => Lock \in entries[root]
                   /\ State = Marker \/ Marker \in entries[root]
                   /\ State = State => Lock \in entries[root]
        BY <1>1, <2>2, <4>1
           DEF Held, Rooted, Pos, Marker, Lock, State, Maintenance
      <4> QED
        BY <4>1 DEF Ordered, FinalRootEntries, Marker, Lock, State, Maintenance
    <3> QED
      BY <1>1, <3>1, <3>2, Adds DEF FinalRootEntries
  <2>4. Placed(r)
    BY <1>1, <2>1, <2>2 DEF Placed, Same, Fields
  <2>5. ASSUME ~moved PROVE Held(x, root', entries', catalog', onDisk', announced)
    BY <1>1, <2>3, <2>5, Survives
  <2>6. ASSUME ~moved PROVE Rooted(r, root', entries', catalog', onDisk')
    BY <1>1, <2>1, <2>2, <2>3, <2>5, <2>6 DEF Placed, Same, Fields, Held, Rooted, Pos
  <2>7. ASSUME ~moved PROVE Inspected(r, root', entries')
    BY <1>1, <2>1, <2>2, <2>3, <2>5, <2>6, <2>7 DEF Placed, Same, Fields, Held, Inspected
  <2> QED
    BY <2>1, <2>2, <2>3, <2>4, <2>6, <2>7, Goes DEF Same, Fields
<1> QED
  BY <1>2, <1>3 DEF Container

\* The container's name is durable.
LEMMA ContainerSyncStep ==
  ASSUME Inv, NEW p \in Proc, ContainerSync(p)
  PROVE  Steps(p)
<1> DEFINE x == proc[p]
<1>1. Before(p)
  BY Now
<1> DEFINE r == [x EXCEPT !.pc = "revalidate", !.back = "link", !.tries = 0]
<1>2. Same(x, r, {"pc", "back", "tries"}) /\ r.pc = "revalidate" /\ r.back = "link" /\ r.tries = 0
  BY <1>1 DEF Same, Fields, Placed
<1>3. Set(p, r) /\ UNCHANGED announced /\ x.pc = "containerSync"
  BY DEF ContainerSync, Goto, Inspect, Revalidate, At, Pin, files, others, Bound
<1> HIDE DEF r
<1>4. FileTypes' /\ (~moved => FilesNext) /\ UNCHANGED <<root, entries, catalog>>
  <2>1. x.pin \in Dirs
    BY <1>1, <1>3 DEF Placed, Objects
  <2>2. /\ UNCHANGED <<root, entries, catalog>>
        /\ \/ SyncRoot(x.pin)
           \/ SyncState(x.pin)
           \/ onDisk' = [onDisk EXCEPT !.root = {root}, !.entries[x.pin] = {entries[x.pin]}]
    BY DEF ContainerSync, Pin
  <2> QED
    BY <1>1, <2>1, <2>2, Syncs
<1>5. Placed(r)
  BY <1>1, <1>2, <1>3 DEF Placed, Same, Fields, Count
<1>6. ASSUME ~moved PROVE Held(x, root', entries', catalog', onDisk', announced)
  BY <1>1, <1>4, <1>6, Survives
<1>7. ASSUME ~moved PROVE Rooted(r, root', entries', catalog', onDisk')
  BY <1>1, <1>2, <1>3, <1>4, <1>6, <1>7 DEF Placed, Same, Fields, Held, Rooted, Pos, Count
<1>8. ASSUME ~moved PROVE Inspected(r, root', entries')
  BY <1>1, <1>2, <1>3, <1>4, <1>6, <1>7, <1>8 DEF Placed, Same, Fields, Held, Inspected,
     Count
<1> QED
  BY <1>2, <1>3, <1>4, <1>5, <1>7, <1>8, Goes DEF Same, Fields

\* The catalog is linked, or there.
LEMMA LinkCatalogStep ==
  ASSUME Inv, NEW p \in Proc, LinkCatalog(p)
  PROVE  Steps(p)
<1> DEFINE x == proc[p]
<1>1. Before(p)
  BY Now
<1> DEFINE r == [x EXCEPT !.pc = "catalogSync"]
<1>2. Same(x, r, {"pc"}) /\ r.pc = "catalogSync"
  BY <1>1 DEF Same, Fields, Placed
<1>3. Set(p, r) /\ UNCHANGED announced /\ x.pc = "link"
  BY DEF LinkCatalog, Goto, At, Pin, files, others
<1> HIDE DEF r
<1>4. FileTypes' /\ (~moved => FilesNext) /\ UNCHANGED <<root, entries>> /\ catalog'[x.pin] = TRUE
  <2>1. /\ x.pin \in Dirs /\ UNCHANGED <<root, entries>>
        /\ catalog' = [catalog EXCEPT ![x.pin] = TRUE]
        /\ onDisk' = [onDisk EXCEPT !.catalog[x.pin] = @ \cup {TRUE}]
    BY <1>1, <1>3 DEF LinkCatalog, Pin, Placed, Objects
  <2>2. ~moved => State \in entries[x.pin]
    BY <1>1, <1>3 DEF Held, Rooted, Pos
  <2> QED
    BY <1>1, <2>1, <2>2, Links
<1>5. Placed(r)
  BY <1>1, <1>2, <1>3 DEF Placed, Same, Fields
<1>6. ASSUME ~moved PROVE Held(x, root', entries', catalog', onDisk', announced)
  BY <1>1, <1>4, <1>6, Survives
<1>7. ASSUME ~moved PROVE Rooted(r, root', entries', catalog', onDisk')
  BY <1>1, <1>2, <1>3, <1>4, <1>6, <1>7 DEF Placed, Same, Fields, Held, Rooted, Pos
<1>8. ASSUME ~moved PROVE Inspected(r, root', entries')
  BY <1>1, <1>2, <1>3, <1>4, <1>6, <1>7, <1>8 DEF Placed, Same, Fields, Held, Inspected
<1> QED
  BY <1>2, <1>3, <1>4, <1>5, <1>7, <1>8, Goes DEF Same, Fields

\* It is durable.
LEMMA CatalogSyncStep ==
  ASSUME Inv, NEW p \in Proc, CatalogSync(p)
  PROVE  Steps(p)
<1> DEFINE x == proc[p]
<1>1. Before(p)
  BY Now
<1> DEFINE r == [x EXCEPT !.pc = "revalidate", !.back = "unlock", !.tries = 0]
<1>2. Same(x, r, {"pc", "back", "tries"}) /\ r.pc = "revalidate" /\ r.back = "unlock" /\ r.tries = 0
  BY <1>1 DEF Same, Fields, Placed
<1>3. Set(p, r) /\ UNCHANGED announced /\ x.pc = "catalogSync"
  BY DEF CatalogSync, Goto, Inspect, Revalidate, At, Pin, files, others, Bound
<1> HIDE DEF r
<1>4. /\ FileTypes' /\ (~moved => FilesNext) /\ UNCHANGED <<root, entries, catalog>>
      /\ onDisk'.catalog[x.pin] = {catalog[x.pin]}
  <2>1. x.pin \in Dirs
    BY <1>1, <1>3 DEF Placed, Objects
  <2>2. /\ UNCHANGED <<root, entries, catalog>>
        /\ \/ SyncRoot(x.pin)
           \/ SyncState(x.pin)
           \/ onDisk' = [onDisk EXCEPT !.root = {root}, !.entries[x.pin] = {entries[x.pin]}]
    BY DEF CatalogSync, Pin
  <2>3. onDisk'.catalog[x.pin] = {catalog[x.pin]}
    BY <1>1, <2>1 DEF CatalogSync, SyncState, Pin, FileTypes, Disks, Objects
  <2> QED
    BY <1>1, <2>1, <2>2, <2>3, Syncs
<1>5. Placed(r)
  BY <1>1, <1>2, <1>3 DEF Placed, Same, Fields, Count
<1>6. ASSUME ~moved PROVE Held(x, root', entries', catalog', onDisk', announced)
  BY <1>1, <1>4, <1>6, Survives
<1>c. ASSUME ~moved PROVE onDisk'.catalog[root] = {TRUE}
  <2>1. catalog[root] \in BOOLEAN /\ catalog[root] /\ x.pin = root
    BY <1>1, <1>3, <1>c DEF FileTypes, Disks, Objects, Held, Rooted, Pos
  <2>2. catalog[root] = TRUE
    BY <2>1
  <2> QED
    BY <1>4, <2>1, <2>2
<1>7. ASSUME ~moved PROVE Rooted(r, root', entries', catalog', onDisk')
  BY <1>1, <1>2, <1>3, <1>4, <1>6, <1>7, <1>c DEF Placed, Same, Fields, Held, Rooted, Pos,
     Count
<1>8. ASSUME ~moved PROVE Inspected(r, root', entries')
  BY <1>1, <1>2, <1>3, <1>4, <1>6, <1>7, <1>8, <1>c DEF Placed, Same, Fields, Held,
     Inspected, Count
<1> QED
  BY <1>2, <1>3, <1>4, <1>5, <1>7, <1>8, Goes DEF Same, Fields

\* The lock is dropped.
LEMMA UnlockStep ==
  ASSUME Inv, NEW p \in Proc, Unlock(p)
  PROVE  Steps(p)
<1> DEFINE x == proc[p]
<1>1. Before(p)
  BY Now
<1> DEFINE r == [x EXCEPT !.pc = "finish"]
<1>2. Same(x, r, {"pc"}) /\ r.pc = "finish"
  BY <1>1 DEF Same, Fields, Placed
<1>3. Set(p, r) /\ UNCHANGED <<root, entries, catalog, onDisk, announced>> /\ x.pc = "unlock"
  BY DEF Unlock, Goto, At, Pin, files, others
<1> HIDE DEF r
<1>4. Placed(r)
  BY <1>1, <1>2, <1>3 DEF Placed, Same, Fields
<1>5. ASSUME ~moved PROVE Rooted(r, root, entries, catalog, onDisk)
  BY <1>1, <1>2, <1>3, <1>5 DEF Placed, Same, Fields, Held, Rooted, Pos
<1>6. ASSUME ~moved PROVE Inspected(r, root, entries)
  BY <1>1, <1>2, <1>3, <1>5, <1>6 DEF Placed, Same, Fields, Held, Inspected
<1> QED
  BY <1>2, <1>3, <1>4, <1>5, <1>6, Turns DEF Same, Fields

\* The root and its name are durable.
LEMMA FinishStep ==
  ASSUME Inv, NEW p \in Proc, Finish(p)
  PROVE  Steps(p)
<1> DEFINE x == proc[p]
<1>1. Before(p)
  BY Now
<1> DEFINE r == [x EXCEPT !.pc = "inspect", !.back = "final", !.tries = 0]
<1>2. Same(x, r, {"pc", "back", "tries"}) /\ r.pc = "inspect" /\ r.back = "final" /\ r.tries = 0
  BY <1>1 DEF Same, Fields, Placed
<1>3. Set(p, r) /\ UNCHANGED announced /\ x.pc = "finish"
  BY DEF Finish, Goto, Inspect, Revalidate, At, Pin, files, others, Bound
<1> HIDE DEF r
<1>4. FileTypes' /\ (~moved => FilesNext) /\ UNCHANGED <<root, entries, catalog>>
      /\ onDisk'.root = {root} /\ onDisk'.entries[x.pin] = {entries[x.pin]}
      /\ onDisk'.catalog = onDisk.catalog
  <2>1. x.pin \in Dirs
    BY <1>1, <1>3 DEF Placed, Objects
  <2>2. /\ UNCHANGED <<root, entries, catalog>>
        /\ \/ SyncRoot(x.pin)
           \/ SyncState(x.pin)
           \/ onDisk' = [onDisk EXCEPT !.root = {root}, !.entries[x.pin] = {entries[x.pin]}]
    BY DEF Finish, Pin
  <2>3. /\ onDisk'.root = {root} /\ onDisk'.entries[x.pin] = {entries[x.pin]}
        /\ onDisk'.catalog = onDisk.catalog
    BY <1>1, <2>1 DEF Finish, Pin, FileTypes, Disks, Objects
  <2> QED
    BY <1>1, <2>1, <2>2, <2>3, Syncs
<1>5. Placed(r)
  BY <1>1, <1>2, <1>3 DEF Placed, Same, Fields
<1>6. ASSUME ~moved PROVE Held(x, root', entries', catalog', onDisk', announced)
  BY <1>1, <1>4, <1>6, Survives
<1>c. ASSUME ~moved PROVE Durable(root, onDisk')
  BY <1>1, <1>3, <1>4, <1>c DEF Durable, Held, Rooted, Pos
<1>7. ASSUME ~moved PROVE Rooted(r, root', entries', catalog', onDisk')
  BY <1>1, <1>2, <1>3, <1>4, <1>6, <1>7, <1>c DEF Placed, Same, Fields, Held, Rooted, Pos
<1>8. ASSUME ~moved PROVE Inspected(r, root', entries')
  BY <1>1, <1>2, <1>3, <1>4, <1>6, <1>7, <1>8, <1>c DEF Placed, Same, Fields, Held, Inspected
<1> QED
  BY <1>2, <1>3, <1>4, <1>5, <1>7, <1>8, Goes DEF Same, Fields

\* The call answers, or a publisher goes on.
LEMMA FinalStep ==
  ASSUME Inv, NEW p \in Proc, Final(p)
  PROVE  Steps(p)
<1> DEFINE x == proc[p]
<1>1. Before(p)
  BY Now
<1>2. CASE ~Bound(p)
  <2>1. /\ Return(p, "RootObservationChanged") /\ UNCHANGED <<root, entries, catalog, onDisk>>
        /\ announced => announced'
    BY <1>2 DEF Final, Fail, files, others, At
  <2>2. moved
    BY <1>1, <1>2, DurableNow DEF Held, Rooted, Inspected, Told, At, Final, Bound, Pin
  <2> QED
    BY <2>1, <2>2, Returns
<1>3. CASE Bound(p) /\ proc[p].op = "initialize" /\ proc[p].found = "missing"
  <2>1. /\ Return(p, "ObservationChanged") /\ UNCHANGED <<root, entries, catalog, onDisk>>
        /\ announced => announced'
    BY <1>3 DEF Final, Fail, files, others, At
  <2>2. moved
    BY <1>1, <1>3, DurableNow DEF Held, Rooted, Inspected, Told, At, Final
  <2> QED
    BY <2>1, <2>2, Returns
<1>4. CASE Bound(p) /\ proc[p].op = "initialize" /\ proc[p].found = "ready"
  <2>1. /\ Return(p, "ready") /\ UNCHANGED <<root, entries, catalog, onDisk>>
        /\ announced => announced'
    BY <1>4 DEF Final, Fail, files, others, At
  <2> QED
    BY <2>1, Returns DEF Unanswered, Errors
<1>5. CASE Bound(p) /\ proc[p].op # "initialize" /\ proc[p].found = "missing"
  <2>1. /\ Return(p, "uninitialized") /\ UNCHANGED <<root, entries, catalog, onDisk>>
        /\ announced => announced'
    BY <1>5 DEF Final, Fail, files, others, At
  <2>2. ~moved => ~x.late
    BY <1>1, <1>5, DurableNow DEF Held, Told, Final
  <2> QED
    BY <2>1, <2>2, Returns DEF Errors
<1>6. CASE Bound(p) /\ proc[p].op = "status" /\ proc[p].found # "missing"
  <2>1. /\ Return(p, "ready") /\ UNCHANGED <<root, entries, catalog, onDisk>>
        /\ announced => announced'
    BY <1>6 DEF Final, Fail, files, others, At
  <2> QED
    BY <2>1, Returns DEF Unanswered, Errors
<1>7. CASE Bound(p) /\ proc[p].op = "publish" /\ proc[p].found = "ready"
  <2> DEFINE r == [x EXCEPT !.pc = "revalidate", !.back = "maintenance", !.tries = 0]
  <2>1. /\ Same(x, r, {"pc", "back", "tries"}) /\ r.pc = "revalidate" /\ r.back = "maintenance"
        /\ r.tries = 0
    BY <1>1 DEF Same, Fields, Placed
  <2>2. /\ Set(p, r) /\ UNCHANGED <<root, entries, catalog, onDisk, announced>> /\ x.pc = "final"
        /\ x.found = "ready"
    BY <1>7 DEF Final, Goto, Inspect, Revalidate, At, Pin, files, others, Bound
  <2> HIDE DEF r
  <2>3. Placed(r)
    BY <1>1, <2>1, <2>2 DEF Placed, Same, Fields, Count
  <2>4. ASSUME ~moved PROVE Rooted(r, root, entries, catalog, onDisk)
    BY <1>1, <2>1, <2>2, <2>4 DEF Placed, Same, Fields, Held, Rooted, Inspected, Pos, Count
  <2>5. ASSUME ~moved PROVE Inspected(r, root, entries)
    BY <1>1, <2>1, <2>2, <2>4, <2>5 DEF Placed, Same, Fields, Held, Inspected, Count
  <2> QED
    BY <2>1, <2>2, <2>3, <2>4, <2>5, Turns DEF Same, Fields
<1> QED
  BY <1>2, <1>3, <1>4, <1>5, <1>6, <1>7 DEF Final

\* The publisher's work is done.
LEMMA PublishedStep ==
  ASSUME Inv, NEW p \in Proc, Published(p)
  PROVE  Steps(p)
<1> DEFINE x == proc[p]
<1>1. Before(p)
  BY Now
<1>2. /\ Return(p, "ready") /\ UNCHANGED <<root, entries, catalog, onDisk>>
      /\ announced => announced'
  BY DEF Published, Fail, files, others, At
<1> QED
  BY <1>2, Returns DEF Unanswered, Errors

\* The publication lock is opened or created.
LEMMA OpenMaintenanceStep ==
  ASSUME Inv, NEW p \in Proc, OpenMaintenance(p)
  PROVE  Steps(p)
<1> DEFINE x == proc[p]
<1>1. Before(p)
  BY Now
<1>2. CASE Maintenance \in entries[Pin(p)]
  <2> DEFINE r == [x EXCEPT !.pc = "tryLock"]
  <2>1. Same(x, r, {"pc"}) /\ r.pc = "tryLock"
    BY <1>1 DEF Same, Fields, Placed
  <2>2. Set(p, r) /\ UNCHANGED <<root, entries, catalog, onDisk, announced>> /\ x.pc = "maintenance"
    BY <1>2 DEF OpenMaintenance, Goto, At, Pin, files, others
  <2> HIDE DEF r
  <2>3. Placed(r)
    BY <1>1, <2>1, <2>2 DEF Placed, Same, Fields
  <2>4. ASSUME ~moved PROVE Rooted(r, root, entries, catalog, onDisk)
    BY <1>1, <2>1, <2>2, <2>4 DEF Placed, Same, Fields, Held, Rooted, Pos
  <2>5. ASSUME ~moved PROVE Inspected(r, root, entries)
    BY <1>1, <2>1, <2>2, <2>4, <2>5 DEF Placed, Same, Fields, Held, Inspected
  <2> QED
    BY <2>1, <2>2, <2>3, <2>4, <2>5, Turns DEF Same, Fields
<1>3. CASE Maintenance \notin entries[Pin(p)]
  <2> DEFINE r == [x EXCEPT !.pc = "maintenanceSync"]
  <2>1. Same(x, r, {"pc"}) /\ r.pc = "maintenanceSync"
    BY <1>1 DEF Same, Fields, Placed
  <2>2. Set(p, r) /\ UNCHANGED announced /\ x.pc = "maintenance"
    BY <1>3 DEF OpenMaintenance, Goto, At, Pin, files, others
  <2> HIDE DEF r
  <2>3. /\ FileTypes' /\ (~moved => FilesNext) /\ UNCHANGED <<root, catalog>>
        /\ entries'[x.pin] = entries[x.pin] \cup {Maintenance}
    <3>1. x.pin \in Dirs /\ AddEntry(x.pin, Maintenance) /\ UNCHANGED <<root, catalog>>
      BY <1>1, <1>3, <2>2 DEF OpenMaintenance, Pin, Placed, Objects
    <3>2. ~moved => Ordered(entries[x.pin] \cup {Maintenance})
      <4>1. ASSUME ~moved
            PROVE  /\ x.pin = root /\ entries[root] \subseteq FinalRootEntries
                   /\ State \in entries[root] => Lock \in entries[root]
                   /\ Maintenance = Marker \/ Marker \in entries[root]
                   /\ Maintenance = State => Lock \in entries[root]
        BY <1>1, <2>2, <4>1
           DEF Held, Rooted, Pos, Marker, Lock, State, Maintenance
      <4> QED
        BY <4>1 DEF Ordered, FinalRootEntries, Marker, Lock, State, Maintenance
    <3> QED
      BY <1>1, <3>1, <3>2, Adds DEF FinalRootEntries
  <2>4. Placed(r)
    BY <1>1, <2>1, <2>2 DEF Placed, Same, Fields
  <2>5. ASSUME ~moved PROVE Held(x, root', entries', catalog', onDisk', announced)
    BY <1>1, <2>3, <2>5, Survives
  <2>6. ASSUME ~moved PROVE Rooted(r, root', entries', catalog', onDisk')
    BY <1>1, <2>1, <2>2, <2>3, <2>5, <2>6 DEF Placed, Same, Fields, Held, Rooted, Pos
  <2>7. ASSUME ~moved PROVE Inspected(r, root', entries')
    BY <1>1, <2>1, <2>2, <2>3, <2>5, <2>6, <2>7 DEF Placed, Same, Fields, Held, Inspected
  <2> QED
    BY <2>1, <2>2, <2>3, <2>4, <2>6, <2>7, Goes DEF Same, Fields
<1> QED
  BY <1>2, <1>3 DEF OpenMaintenance

\* Its name is durable.
LEMMA MaintenanceSyncStep ==
  ASSUME Inv, NEW p \in Proc, MaintenanceSync(p)
  PROVE  Steps(p)
<1> DEFINE x == proc[p]
<1>1. Before(p)
  BY Now
<1> DEFINE r == [x EXCEPT !.pc = "tryLock"]
<1>2. Same(x, r, {"pc"}) /\ r.pc = "tryLock"
  BY <1>1 DEF Same, Fields, Placed
<1>3. Set(p, r) /\ UNCHANGED announced /\ x.pc = "maintenanceSync"
  BY DEF MaintenanceSync, Goto, Inspect, Revalidate, At, Pin, files, others, Bound
<1> HIDE DEF r
<1>4. FileTypes' /\ (~moved => FilesNext) /\ UNCHANGED <<root, entries, catalog>>
  <2>1. x.pin \in Dirs
    BY <1>1, <1>3 DEF Placed, Objects
  <2>2. /\ UNCHANGED <<root, entries, catalog>>
        /\ \/ SyncRoot(x.pin)
           \/ SyncState(x.pin)
           \/ onDisk' = [onDisk EXCEPT !.root = {root}, !.entries[x.pin] = {entries[x.pin]}]
    BY DEF MaintenanceSync, Pin
  <2> QED
    BY <1>1, <2>1, <2>2, Syncs
<1>5. Placed(r)
  BY <1>1, <1>2, <1>3 DEF Placed, Same, Fields
<1>6. ASSUME ~moved PROVE Held(x, root', entries', catalog', onDisk', announced)
  BY <1>1, <1>4, <1>6, Survives
<1>7. ASSUME ~moved PROVE Rooted(r, root', entries', catalog', onDisk')
  BY <1>1, <1>2, <1>3, <1>4, <1>6, <1>7 DEF Placed, Same, Fields, Held, Rooted, Pos
<1>8. ASSUME ~moved PROVE Inspected(r, root', entries')
  BY <1>1, <1>2, <1>3, <1>4, <1>6, <1>7, <1>8 DEF Placed, Same, Fields, Held, Inspected
<1> QED
  BY <1>2, <1>3, <1>4, <1>5, <1>7, <1>8, Goes DEF Same, Fields

\* The publication lock is taken, found busy once more, or given up.
LEMMA TryLockStep ==
  ASSUME Inv, NEW p \in Proc, TryLock(p)
  PROVE  Steps(p)
<1> DEFINE x == proc[p]
           busy == \E q \in Proc : HoldsPublication(q) /\ Pin(q) = Pin(p)
<1>1. Before(p)
  BY Now
<1>2. CASE ~busy
  <2> DEFINE r == [x EXCEPT !.pc = "revalidate", !.back = "published", !.tries = 0]
  <2>1. /\ Same(x, r, {"pc", "back", "tries"}) /\ r.pc = "revalidate" /\ r.back = "published"
        /\ r.tries = 0
    BY <1>1 DEF Same, Fields, Placed
  <2>2. Set(p, r) /\ UNCHANGED <<root, entries, catalog, onDisk, announced>> /\ x.pc = "tryLock"
    BY <1>2 DEF TryLock, Revalidate, At, files, others
  <2> HIDE DEF r
  <2>3. Placed(r)
    BY <1>1, <2>1, <2>2 DEF Placed, Same, Fields, Count
  <2>4. ASSUME ~moved PROVE Rooted(r, root, entries, catalog, onDisk)
    BY <1>1, <2>1, <2>2, <2>4 DEF Placed, Same, Fields, Held, Rooted, Pos, Count
  <2>5. ASSUME ~moved PROVE Inspected(r, root, entries)
    BY <1>1, <2>1, <2>2, <2>4, <2>5 DEF Placed, Same, Fields, Held, Inspected, Count
  <2> QED
    BY <2>1, <2>2, <2>3, <2>4, <2>5, Turns DEF Same, Fields
<1>3. CASE busy /\ x.tries + 1 < LockTries
  <2> DEFINE r == [x EXCEPT !.pc = "maintenance", !.tries = x.tries + 1]
  <2>a. x.tries + 1 \in Nat
    BY <1>1 DEF Placed
  <2>b. Same(x, r, {"pc", "tries"}) /\ r.pc = "maintenance" /\ r.tries = x.tries + 1
    BY <1>1 DEF Same, Fields, Placed
  <2>1. Same(x, r, {"pc", "tries"}) /\ r.pc = "maintenance" /\ r.tries \in Nat
    BY <2>a, <2>b
  <2>2. Set(p, r) /\ UNCHANGED <<root, entries, catalog, onDisk, announced>> /\ x.pc = "tryLock"
    <3>1. ~(x.tries + 1 >= LockTries)
      BY <1>1, <1>3, StoreConstants DEF Placed
    <3>2. /\ Set(p, [proc[p] EXCEPT !.pc = "maintenance", !.tries = @ + 1])
          /\ UNCHANGED <<files, holder, others>> /\ At(p, "tryLock")
      BY <1>3, <3>1 DEF TryLock
    <3> QED
      BY <3>2 DEF At, files, others
  <2> HIDE DEF r
  <2>3. Placed(r)
    BY <1>1, <2>1, <2>2 DEF Placed, Same, Fields
  <2>4. ASSUME ~moved PROVE Rooted(r, root, entries, catalog, onDisk)
    BY <1>1, <2>1, <2>2, <2>4 DEF Placed, Same, Fields, Held, Rooted, Pos
  <2>5. ASSUME ~moved PROVE Inspected(r, root, entries)
    BY <1>1, <2>1, <2>2, <2>4, <2>5 DEF Placed, Same, Fields, Held, Inspected
  <2> QED
    BY <2>1, <2>2, <2>3, <2>4, <2>5, Turns DEF Same, Fields
<1>4. CASE busy /\ x.tries + 1 >= LockTries
  <2>1. /\ Return(p, "PublicationBusy") /\ UNCHANGED <<root, entries, catalog, onDisk>>
        /\ announced => announced'
    BY <1>1, <1>4, StoreConstants DEF TryLock, Fail, files, others, At, Placed
  <2> QED
    BY <2>1, Returns DEF Unanswered, Errors
<1>5. x.tries + 1 < LockTries \/ x.tries + 1 >= LockTries
  BY <1>1, StoreConstants DEF Placed
<1> QED
  BY <1>2, <1>3, <1>4, <1>5

\* The process is killed.
LEMMA KillStep ==
  ASSUME Inv, NEW p \in Proc, Kill(p)
  PROVE  Steps(p)
<1> DEFINE x == proc[p]
<1>1. Before(p)
  BY Now
<1>2. /\ Return(p, "killed") /\ UNCHANGED <<root, entries, catalog, onDisk>>
      /\ announced => announced'
  BY DEF Kill, Fail, files, others, At
<1> QED
  BY <1>2, Returns DEF Unanswered, Errors

\* A call begins.
LEMMA CallStep ==
  ASSUME Inv, NEW p \in Proc, NEW op, Call(p, op)
  PROVE  Steps(p)
<1> DEFINE r == [Idle EXCEPT !.op = op, !.pc = "parent", !.late = announced]
<1>1. /\ DOMAIN r = Fields /\ r.pc = "parent" /\ r.res = "none" /\ r.late = announced
      /\ r.found = "none" /\ r.tries = 0 /\ r.pin = None /\ r.back = "none"
  BY DEF Idle, Fields
<1>2. Set(p, r) /\ UNCHANGED <<root, entries, catalog, onDisk, announced>>
  BY DEF Call, files
<1> HIDE DEF r
<1>3. announced \in BOOLEAN
  BY DEF Inv, Types, Disks
<1>4. Placed(r)
  BY <1>1, <1>3, StoreConstants DEF Placed, Early, Checks
<1>5. Pos(r) = "parent"
  BY <1>1 DEF Pos, Checks
<1>6. Rooted(r, root', entries', catalog', onDisk') /\ Inspected(r, root', entries')
  BY <1>1, <1>5
     DEF Rooted, Inspected, Early, Checks, MarkerMade, LockMade, StateMade, CatalogMade
<1>7. Told(r, announced')
  BY <1>1, <1>2 DEF Told, Unanswered, Errors
<1>8. FileTypes' /\ (~moved => FilesNext)
  BY <1>2, Now, FilesSame DEF Before
<1> QED
  BY <1>2, <1>4, <1>6, <1>7, <1>8 DEF Steps, Held

\* Every step of a call.
LEMMA AnyStep ==
  ASSUME Inv, NEW p \in Proc, Begin(p) \/ Step(p) \/ Kill(p)
  PROVE  Steps(p)
<1>1. CASE Begin(p)
  BY <1>1, CallStep DEF Begin
<1>2. CASE Kill(p)
  BY <1>2, KillStep
<1>3. CASE Step(p)
  BY <1>3, ParentStep, OpenChildStep, StageStep, RenameStep, ReopenStep, BoundStep,
     StatMarkerStep, ListRootStep, RestatStep, RevalidateStep, LayoutStep, RelayoutStep,
     DecideStep, LinkMarkerStep, MarkerSyncStep, ConfirmStep, OpenHandlesStep, ChildrenStep,
     PreflightStep, ListStateStep, OpenLockStep, LockSyncStep, FlockStep, SecondStep,
     ContainerStep, ContainerSyncStep, LinkCatalogStep, CatalogSyncStep, UnlockStep,
     FinishStep, FinalStep, PublishedStep, OpenMaintenanceStep, MaintenanceSyncStep,
     TryLockStep
     DEF Step
<1> QED
  BY <1>1, <1>2, <1>3

\* What a step does beside: only the last one of an initialization announces, and
\* only flock and the end of a call change who holds a lock.
LEMMA Beside ==
  ASSUME NEW p \in Proc, Begin(p) \/ Step(p) \/ Kill(p)
  PROVE  /\ UNCHANGED <<parent, moved>>
         /\ announced' = announced \/ (Final(p) /\ announced' = TRUE)
         /\ holder' = holder \/ holder' = Released(p) \/ Flock(p)
<1> USE DEF files, others, Fail, Return
<1>1. CASE Begin(p) \/ Kill(p)
  BY <1>1 DEF Begin, Call, Kill
<1>2. CASE ParentRefused(p) \/ OpenChild(p) \/ Stage(p) \/ Rename(p) \/ Reopen(p) \/ BoundRoot(p)
  BY <1>2 DEF ParentRefused, OpenChild, Stage, Rename, Reopen, BoundRoot
<1>3. CASE \/ StatMarker(p) \/ ListRoot(p) \/ Restat(p) \/ RevalidateHandles(p) \/ Layout(p)
           \/ Relayout(p)
  BY <1>3 DEF StatMarker, ListRoot, Restat, RevalidateHandles, Layout, List, Relayout
<1>4. CASE Decide(p) \/ LinkMarker(p) \/ MarkerSync(p) \/ Confirm(p)
  BY <1>4 DEF Decide, LinkMarker, MarkerSync, Confirm
<1>5. CASE OpenHandles(p) \/ Children(p) \/ Preflight(p) \/ ListState(p)
  BY <1>5 DEF OpenHandles, Children, Preflight, ListState
<1>6. CASE OpenLock(p) \/ LockSync(p) \/ Flock(p) \/ Second(p)
  BY <1>6 DEF OpenLock, LockSync, Flock, Second
<1>7. CASE Container(p) \/ ContainerSync(p) \/ LinkCatalog(p) \/ CatalogSync(p) \/ Unlock(p)
  BY <1>7 DEF Container, ContainerSync, LinkCatalog, CatalogSync, Unlock
<1>8. CASE \/ Finish(p) \/ Final(p) \/ Published(p) \/ OpenMaintenance(p)
           \/ MaintenanceSync(p) \/ TryLock(p)
  BY <1>8 DEF Finish, Final, Published, OpenMaintenance, MaintenanceSync, TryLock
<1> QED
  BY <1>1, <1>2, <1>3, <1>4, <1>5, <1>6, <1>7, <1>8 DEF Step

\* A store is announced when it is durable.
LEMMA Announces ==
  ASSUME Inv, NEW p \in Proc, Final(p), ~moved, announced' # announced
  PROVE  parent = "safe" /\ Durable(root, onDisk)
<1>1. proc[p].pc = "final" /\ proc[p].op = "initialize"
  BY DEF Final, At, Fail, others
<1>2. Held(proc[p], root, entries, catalog, onDisk, announced)
  BY Now DEF Before
<1>3. Pos(proc[p]) = "final"
  BY <1>1 DEF Pos, Checks
<1> QED
  BY <1>1, <1>2, <1>3 DEF Held, Rooted, Told

\* The other program's directory stays unlocked.
LEMMA Unlocked ==
  ASSUME Inv, NEW p \in Proc, holder' = holder \/ holder' = Released(p) \/ Flock(p)
  PROVE  (\E S : holder' \in [Objects -> S]) /\ holder'[Foreign] = None
<1>1. PICK S : holder \in [Objects -> S]
  BY DEF Inv, Types, Disks
<1>2. holder[Foreign] = None /\ Foreign \in Objects
  BY DEF Inv, Untouched, Objects
<1>3. CASE holder' = holder
  BY <1>1, <1>2, <1>3
<1>4. CASE holder' = Released(p)
  <2>1. holder' \in [Objects -> S \cup {None}] /\ holder'[Foreign] = None
    BY <1>1, <1>2, <1>4 DEF Released
  <2> QED
    BY <2>1
<1>5. CASE Flock(p)
  <2>1. Pin(p) # Foreign /\ holder' = [holder EXCEPT ![Pin(p)] = p]
    BY <1>5, Now DEF Before, Flock, At, Pin, Placed
  <2>2. holder' \in [Objects -> S \cup {p}] /\ holder'[Foreign] = None
    BY <1>1, <1>2, <2>1
  <2> QED
    BY <2>2
<1> QED
  BY <1>3, <1>4, <1>5

\* A step of a call keeps the invariant.
LEMMA StepKeeps ==
  ASSUME Inv, NEW p \in Proc, Begin(p) \/ Step(p) \/ Kill(p)
  PROVE  Inv'
<1>1. PICK r : /\ FileTypes' /\ Set(p, r) /\ Placed(r)
               /\ ~moved => /\ FilesNext
                            /\ Held(r, root', entries', catalog', onDisk', announced')
  BY AnyStep DEF Steps
<1>2. /\ UNCHANGED <<parent, moved>>
      /\ announced' = announced \/ (Final(p) /\ announced' = TRUE)
      /\ holder' = holder \/ holder' = Released(p) \/ Flock(p)
  BY Beside
<1>3. PICK S : proc \in [Proc -> S]
  BY DEF Inv, Types, Disks
<1>4. proc' \in [Proc -> S \cup {r}] /\ proc'[p] = r /\ \A q \in Proc \ {p} : proc'[q] = proc[q]
  BY <1>1, <1>3 DEF Set
<1>5. Types' /\ Untouched'
  <2>1. (\E T : holder' \in [Objects -> T]) /\ holder'[Foreign] = None
    BY <1>2, Unlocked
  <2>2. \E T : proc' \in [Proc -> T]
    BY <1>4
  <2>3. moved' \in BOOLEAN /\ announced' \in BOOLEAN
    BY <1>2 DEF Inv, Types, Disks
  <2> QED
    BY <1>1, <2>1, <2>2, <2>3 DEF Types, Disks, Untouched, FileTypes
<1>6. \A q \in Proc : Placed(proc'[q])
  BY <1>1, <1>4 DEF Inv
<1>7. ASSUME ~moved
      PROVE  /\ World(root', entries', catalog', onDisk')
             /\ announced' => parent' = "safe" /\ Durable(root', onDisk')
             /\ \A q \in Proc : Held(proc'[q], root', entries', catalog', onDisk', announced')
  <2>1. Files /\ FilesNext
    BY <1>1, <1>7 DEF Inv, Files
  <2>2. ASSUME NEW q \in Proc
        PROVE  Held(proc'[q], root', entries', catalog', onDisk', announced')
    <3>1. CASE q = p
      BY <1>1, <1>4, <1>7, <3>1
    <3>2. CASE q # p
      <4>1. Placed(proc[q]) /\ Held(proc[q], root, entries, catalog, onDisk, announced)
        BY <1>7 DEF Inv
      <4>2. announced => announced'
        BY <1>2
      <4>3. Held(proc[q], root', entries', catalog', onDisk', announced')
        BY <2>1, <4>1, <4>2, Survives
      <4> QED
        BY <1>4, <3>2, <4>3
    <3> QED
      BY <3>1, <3>2
  <2>3. ASSUME announced' PROVE parent' = "safe" /\ Durable(root', onDisk')
    <3>1. parent = "safe" /\ Durable(root, onDisk)
      <4>1. CASE announced' = announced
        BY <1>7, <2>3, <4>1 DEF Inv
      <4>2. CASE announced' # announced
        BY <1>2, <1>7, <4>2, Announces
      <4> QED
        BY <4>1, <4>2
    <3>2. root \in Dirs /\ root # None
      BY <3>1, StoreConstants DEF Durable
    <3>3. root' = root /\ onDisk'.root \subseteq onDisk.root /\ root \in onDisk'.root
      BY <2>1, <3>2 DEF FilesNext, Grown, World
    <3>4. /\ onDisk.catalog[root] = {TRUE} => onDisk'.catalog[root] = {TRUE}
          /\ \A e \in onDisk'.entries[root] : \E f \in onDisk.entries[root] : f \subseteq e
      BY <2>1, <3>2 DEF FilesNext, Grown
    <3> QED
      <4>1. Durable(root, onDisk')
        <5>1. onDisk'.root = {root}
          BY <3>1, <3>3 DEF Durable
        <5>2. onDisk'.catalog[root] = {TRUE} /\ \A e \in onDisk'.entries[root] : State \in e
          BY <3>1, <3>4 DEF Durable
        <5> QED
          BY <3>2, <5>1, <5>2 DEF Durable
      <4> QED
        BY <1>2, <3>1, <3>3, <4>1
  <2> QED
    BY <2>1, <2>2, <2>3 DEF FilesNext
<1>8. ASSUME ~moved, NEW q \in Proc
      PROVE  Held(proc[q], root, entries, catalog, onDisk, announced)'
  <2>1. Held(proc'[q], root', entries', catalog', onDisk', announced')
    BY <1>7, <1>8
  <2> QED
    BY <1>2, <2>1 DEF Held, Told
<1> QED
  BY <1>2, <1>5, <1>6, <1>7, <1>8 DEF Inv

-----------------------------------------------------------------------------
\* Losses of power and other programs

\* A record of no call, of the world it is in.
LEMMA NoCall ==
  ASSUME NEW r, NEW ro, NEW en, NEW ca, NEW od,
         DOMAIN r = Fields, r.pc = "idle", r.found = "none"
  PROVE  Rooted(r, ro, en, ca, od) /\ Inspected(r, ro, en)
<1>1. Pos(r) = "idle"
  BY DEF Pos, Checks
<1> QED
  BY <1>1 DEF Rooted, Inspected, Early, Checks, MarkerMade, LockMade, StateMade, CatalogMade

\* A loss of power leaves what the invariant allows.
LEMMA PowerLossKeeps ==
  ASSUME Inv, PowerLoss
  PROVE  Inv'
<1>1. PICK c \in OneOfEach(onDisk.catalog) :
        catalog' = [d \in Objects |-> c[d] /\ State \in entries'[d]]
  BY DEF PowerLoss
<1>2. FileTypes
  BY DEF Inv, Types, Disks, Untouched, FileTypes
<1>3. \A d \in Objects : entries'[d] \in onDisk.entries[d] /\ c[d] \in onDisk.catalog[d]
  BY <1>1 DEF PowerLoss, OneOfEach
<1>4. entries' \in [Objects -> SUBSET Names]
  <2>1. DOMAIN entries' = Objects /\ entries' = [d \in Objects |-> entries'[d]]
    BY DEF PowerLoss, OneOfEach
  <2>2. \A d \in Objects : entries'[d] \in SUBSET Names
    BY <1>2, <1>3 DEF FileTypes, Disks
  <2> QED
    BY <2>1, <2>2
<1>5. catalog' \in [Objects -> BOOLEAN] /\ \A d \in Objects : c[d] \in BOOLEAN
  BY <1>1, <1>2, <1>3 DEF FileTypes, Disks
<1>6. /\ root' \in onDisk.root /\ onDisk'.root = {root'}
      /\ \A d \in Objects : onDisk'.entries[d] = {entries'[d]} /\ onDisk'.catalog[d] = {catalog'[d]}
      /\ onDisk' \in Disks
  <2>1. onDisk' = [root |-> {root'}, entries |-> [d \in Objects |-> {entries'[d]}],
                   catalog |-> [d \in Objects |-> {catalog'[d]}]]
        /\ root' \in onDisk.root
    BY DEF PowerLoss
  <2>2. root' \in Objects \cup {None}
    BY <1>2, <2>1 DEF FileTypes, Disks
  <2> QED
    BY <1>4, <1>5, <2>1, <2>2 DEF Disks
<1>7. /\ entries'[Foreign] = {Alien} /\ onDisk'.entries[Foreign] = {{Alien}}
      /\ catalog'[Foreign] = FALSE /\ onDisk'.catalog[Foreign] = {FALSE}
  <2>1. Foreign \in Objects
    BY DEF Objects
  <2>2. entries'[Foreign] = {Alien} /\ c[Foreign] = FALSE
    BY <1>2, <1>3, <2>1 DEF FileTypes, Disks
  <2>3. catalog'[Foreign] = FALSE
    BY <1>1, <2>1, <2>2
  <2> QED
    BY <1>6, <2>1, <2>2, <2>3
<1>8. /\ holder' = [d \in Objects |-> None]
      /\ proc' = [p \in Proc |-> IF At(p, "idle") THEN proc[p]
                                 ELSE [Idle EXCEPT !.op = proc[p].op, !.res = "killed"]]
      /\ UNCHANGED <<parent, announced, moved>>
  BY DEF PowerLoss
<1>9. Types' /\ Untouched'
  <2>1. (\E S : holder' \in [Objects -> S]) /\ holder'[Foreign] = None
    <3>1. holder' \in [Objects -> {None}] /\ holder'[Foreign] = None
      BY <1>8 DEF Objects
    <3> QED
      BY <3>1
  <2>2. \E S : proc' \in [Proc -> S]
    <3> DEFINE after(p) == IF At(p, "idle") THEN proc[p]
                           ELSE [Idle EXCEPT !.op = proc[p].op, !.res = "killed"]
    <3>1. proc' \in [Proc -> {after(p) : p \in Proc}]
      BY <1>8
    <3> QED
      BY <3>1
  <2>3. root' \in Objects \cup {None}
    BY <1>2, <1>6 DEF FileTypes, Disks
  <2>4. moved' \in BOOLEAN /\ announced' \in BOOLEAN
    BY <1>8 DEF Inv, Types, Disks
  <2> QED
    BY <1>4, <1>5, <1>6, <1>7, <2>1, <2>2, <2>3, <2>4 DEF Types, Disks, Untouched
<1>10. ASSUME NEW p \in Proc
       PROVE  /\ DOMAIN proc'[p] = Fields /\ proc'[p].pc = "idle"
              /\ Placed(proc'[p])
              /\ proc'[p] = proc[p] \/ (proc'[p].res = "killed" /\ proc'[p].late = FALSE
                                        /\ proc'[p].found = "none")
  <2>1. CASE At(p, "idle")
    BY <1>8, <2>1 DEF Inv, Placed, At
  <2>2. CASE ~At(p, "idle")
    <3> DEFINE r == [Idle EXCEPT !.op = proc[p].op, !.res = "killed"]
    <3>1. /\ DOMAIN r = Fields /\ r.pc = "idle" /\ r.res = "killed" /\ r.late = FALSE
          /\ r.found = "none" /\ r.tries = 0 /\ r.pin = None /\ r.back = "none"
      BY DEF Idle, Fields
    <3>2. proc'[p] = r
      BY <1>8, <2>2
    <3> HIDE DEF r
    <3>3. Placed(r)
      <4>1. r.late \in BOOLEAN
        BY <3>1, Zenon
      <4>2. r.tries \in Nat
        BY <3>1
      <4> QED
        BY <3>1, <4>1, <4>2, StoreConstants DEF Placed, Early, Checks
    <3> QED
      BY <3>1, <3>2, <3>3
  <2> QED
    BY <2>1, <2>2
<1>11. ASSUME ~moved
       PROVE  /\ World(root', entries', catalog', onDisk')
              /\ announced' => parent' = "safe" /\ Durable(root', onDisk')
  <2>1. World(root, entries, catalog, onDisk)
    BY <1>11 DEF Inv
  <2>2. ASSUME NEW d \in Dirs
        PROVE  /\ entries'[d] \in onDisk'.entries[d]
               /\ \A e \in onDisk'.entries[d] : Ordered(e) /\ e \subseteq entries'[d]
               /\ catalog'[d] \in onDisk'.catalog[d] /\ (TRUE \in onDisk'.catalog[d] => catalog'[d])
               /\ catalog'[d] => State \in entries'[d]
    <3>1. d \in Objects
      BY DEF Objects
    <3>2. Ordered(entries'[d])
      BY <1>3, <2>1, <3>1 DEF World
    <3>3. onDisk'.entries[d] = {entries'[d]} /\ onDisk'.catalog[d] = {catalog'[d]}
      BY <1>6, <3>1
    <3>4. catalog'[d] => State \in entries'[d]
      BY <1>1, <3>1
    <3>5. catalog'[d] \in BOOLEAN
      BY <1>5, <3>1
    <3>6. catalog'[d] \in onDisk'.catalog[d] /\ (TRUE \in onDisk'.catalog[d] => catalog'[d])
      BY <3>3, <3>5
    <3> QED
      BY <3>2, <3>3, <3>4, <3>6
  <2>3. root' \in Dirs \cup {None} /\ root' \in onDisk'.root /\ onDisk'.root \subseteq {None, root'}
    BY <1>6, <2>1 DEF World
  <2>4. ASSUME announced' PROVE parent' = "safe" /\ Durable(root', onDisk')
    <3>1. parent = "safe" /\ Durable(root, onDisk)
      BY <1>8, <1>11, <2>4 DEF Inv
    <3>2. root' = root /\ root \in Dirs /\ root \in Objects
      BY <1>6, <3>1 DEF Durable, Objects
    <3>3. State \in entries'[root] /\ c[root] = TRUE
      BY <1>3, <3>1, <3>2 DEF Durable
    <3>4. catalog'[root] = TRUE
      BY <1>1, <3>2, <3>3
    <3>5. onDisk'.entries[root] = {entries'[root]} /\ onDisk'.catalog[root] = {TRUE}
      BY <1>6, <3>2, <3>4
    <3>6. Durable(root, onDisk')
      BY <1>6, <3>2, <3>3, <3>5 DEF Durable
    <3> QED
      BY <1>8, <3>1, <3>2, <3>6
  <2> QED
    BY <2>2, <2>3, <2>4 DEF World
<1>12. ASSUME ~moved, NEW p \in Proc
       PROVE  Held(proc[p], root, entries, catalog, onDisk, announced)'
  <2>1. Held(proc[p], root, entries, catalog, onDisk, announced) /\ Placed(proc[p])
    BY <1>12 DEF Inv
  <2>2. proc'[p].found = "none"
    BY <1>10, <2>1 DEF Held, Inspected, Early
  <2>3. /\ Rooted(proc'[p], root', entries', catalog', onDisk')
        /\ Inspected(proc'[p], root', entries')
    BY <1>10, <2>2, NoCall
  <2>4. Told(proc[p], announced)'
    BY <1>8, <1>10, <2>1 DEF Held, Told, Errors, Unanswered
  <2> QED
    BY <2>3, <2>4 DEF Held
<1> QED
  BY <1>8, <1>9, <1>10, <1>11, <1>12 DEF Inv

\* Another program's interference: only what holds in spite of it is left to show.
LEMMA InterferenceKeeps ==
  ASSUME Inv, Intrude \/ \E d \in {None, Foreign} : Move(d)
  PROVE  Inv'
<1>1. FileTypes
  BY DEF Inv, Types, Disks, Untouched, FileTypes
<1>2. UNCHANGED <<holder, proc, announced, parent>> /\ moved' = TRUE
  BY DEF Intrude, Move
<1>3. FileTypes'
  <2>1. CASE Intrude
    <3>1. /\ root \in Dirs /\ UNCHANGED <<root, catalog>>
          /\ entries' = [entries EXCEPT ![root] = @ \cup {Alien}]
          /\ onDisk' = [onDisk EXCEPT !.entries[root] = @ \cup {entries[root] \cup {Alien}}]
      BY <2>1 DEF Intrude, AddEntry
    <3>2. /\ onDisk'.root = onDisk.root /\ onDisk'.catalog = onDisk.catalog
          /\ onDisk'.entries = [onDisk.entries EXCEPT ![root] = @ \cup {entries[root] \cup {Alien}}]
          /\ onDisk' \in Disks
      BY <1>1, <3>1 DEF FileTypes, Disks, Objects, Names
    <3> QED
      BY <1>1, <3>1, <3>2, StoreConstants DEF FileTypes, Disks, Objects, Names
  <2>2. ASSUME NEW d \in {None, Foreign}, Move(d) PROVE FileTypes'
    <3>1. /\ root' = d /\ UNCHANGED <<entries, catalog>> /\ d \in Objects \cup {None}
          /\ onDisk' = [onDisk EXCEPT !.root = @ \cup {d}]
      BY <2>2 DEF Move, Name, Objects
    <3>2. /\ onDisk'.entries = onDisk.entries /\ onDisk'.catalog = onDisk.catalog
          /\ onDisk' \in Disks
      BY <1>1, <3>1 DEF FileTypes, Disks
    <3> QED
      BY <1>1, <3>1, <3>2 DEF FileTypes, Disks
  <2> QED
    BY <2>1, <2>2
<1>4. Types' /\ Untouched'
  BY <1>2, <1>3 DEF Inv, Types, Disks, Untouched, FileTypes
<1> QED
  BY <1>2, <1>4 DEF Inv

-----------------------------------------------------------------------------
\* The invariant

\* It holds initially.
LEMMA InitInv ==
  ASSUME Init
  PROVE  Inv
<1>1. /\ entries = [d \in Objects |-> IF d = Foreign THEN {Alien} ELSE {}]
      /\ catalog = [d \in Objects |-> FALSE] /\ root = None
      /\ onDisk = [root |-> {None}, entries |-> [d \in Objects |-> {entries[d]}],
                   catalog |-> [d \in Objects |-> {FALSE}]]
      /\ holder = [d \in Objects |-> None] /\ proc = [p \in Proc |-> Idle]
      /\ announced = FALSE /\ moved = FALSE
  BY DEF Init
<1>2. /\ onDisk.root = {None} /\ onDisk.catalog = [d \in Objects |-> {FALSE}]
      /\ onDisk.entries = [d \in Objects |-> {entries[d]}]
  BY <1>1
<1>3. entries \in [Objects -> SUBSET Names]
  BY <1>1 DEF Names
<1>4. Types
  <2>1. onDisk \in Disks
    BY <1>1, <1>3 DEF Disks
  <2>2. holder \in [Objects -> {None}] /\ proc \in [Proc -> {Idle}]
    BY <1>1
  <2>3. catalog \in [Objects -> BOOLEAN] /\ root \in Objects \cup {None}
    BY <1>1
  <2>4. moved \in BOOLEAN /\ announced \in BOOLEAN
    BY <1>1
  <2> QED
    BY <1>3, <2>1, <2>2, <2>3, <2>4 DEF Types, Disks
<1>5. Untouched
  BY <1>1, <1>2 DEF Untouched, Objects
<1>6. World(root, entries, catalog, onDisk)
  <2>1. ASSUME NEW d \in Dirs
        PROVE  entries[d] = {} /\ onDisk.entries[d] = {{}} /\ catalog[d] = FALSE
               /\ onDisk.catalog[d] = {FALSE}
    BY <1>1, <1>2, StoreConstants DEF Objects
  <2>2. ASSUME NEW d \in Dirs
        PROVE  catalog[d] \in onDisk.catalog[d] /\ ~(TRUE \in onDisk.catalog[d]) /\ ~catalog[d]
    BY <2>1
  <2>3. ASSUME NEW d \in Dirs
        PROVE  /\ entries[d] \in onDisk.entries[d]
               /\ \A e \in onDisk.entries[d] : Ordered(e) /\ e \subseteq entries[d]
    BY <2>1 DEF Ordered
  <2> QED
    BY <1>1, <1>2, <2>2, <2>3 DEF World
<1>7. /\ DOMAIN Idle = Fields /\ Idle.pc = "idle" /\ Idle.found = "none" /\ Idle.late = FALSE
      /\ Idle.res = "none" /\ Idle.tries = 0 /\ Idle.pin = None
  BY DEF Idle, Fields
<1>8. ASSUME NEW p \in Proc
      PROVE  Placed(proc[p]) /\ Held(proc[p], root, entries, catalog, onDisk, announced)
  <2>1. proc[p] = Idle
    BY <1>1
  <2>2. Placed(Idle)
    <3>1. Idle.late \in BOOLEAN
      BY <1>7, Zenon
    <3>2. Idle.tries \in Nat
      BY <1>7
    <3> QED
      BY <1>7, <3>1, <3>2, StoreConstants DEF Placed, Early, Checks
  <2>3. Rooted(Idle, root, entries, catalog, onDisk) /\ Inspected(Idle, root, entries)
    BY <1>7, NoCall
  <2>4. Told(Idle, announced)
    BY <1>7 DEF Told, Errors, Unanswered
  <2> QED
    BY <2>1, <2>2, <2>3, <2>4 DEF Held
<1> QED
  BY <1>1, <1>4, <1>5, <1>6, <1>8 DEF Inv

\* It always holds.
LEMMA Invariant == Spec => []Inv
<1>1. Init => Inv
  BY InitInv
<1>2. Inv /\ [Next]_vars => Inv'
  <2> SUFFICES ASSUME Inv, [Next]_vars PROVE Inv'
    OBVIOUS
  <2>1. CASE Next
    BY <2>1, StepKeeps, PowerLossKeeps, InterferenceKeeps DEF Next
  <2>2. CASE UNCHANGED vars
    BY <2>2
       DEF Inv, Types, Disks, Untouched, Held, Told, vars
  <2> QED
    BY <2>1, <2>2
<1> QED
  BY <1>1, <1>2, PTL DEF Spec

-----------------------------------------------------------------------------
\* initialize_store reports a ready store only when its root, its descriptor, its
\* lock and its catalog are durable: every call that begins afterwards finds the
\* store ready, for any number of processes, calls, deaths and losses of power.
THEOREM ReadySafe == Spec => []ReadyStays
<1>1. Inv => ReadyStays
  <2> SUFFICES ASSUME Inv, NEW p \in Proc, ~moved, proc[p].late, proc[p].res \notin Unanswered
               PROVE  proc[p].res = "ready" /\ root \in Dirs /\ catalog[root]
    BY DEF ReadyStays
  <2>1. Told(proc[p], announced)
    BY Now DEF Before, Held
  <2>2. announced /\ proc[p].res = "ready"
    BY <2>1 DEF Told
  <2>3. Files /\ Durable(root, onDisk)
    BY <2>2, Now DEF Before
  <2> QED
    BY <2>2, <2>3, DurableNow
<1> QED
  BY <1>1, Invariant, PTL

\* No call of a process that creates, opens or uses a store together with others
\* is refused while nobody else interferes, and a directory of another program is
\* never written to, whoever moves it where and when.
THEOREM ToldSafe == Spec => []StoresAreTold
<1>1. Inv => StoresAreTold
  <2> SUFFICES ASSUME Inv PROVE StoresAreTold
    OBVIOUS
  <2>1. ForeignUntouched
    BY DEF Inv, Untouched, ForeignUntouched
  <2>2. NeverRefused
    BY DEF Inv, Held, Told, NeverRefused
  <2> QED
    BY <2>1, <2>2 DEF StoresAreTold
<1> QED
  BY <1>1, Invariant, PTL
=============================================================================
