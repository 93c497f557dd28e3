-------------------------- MODULE RetentionProofs --------------------------
(***************************************************************************)
(* Proofs about the object store, for every set of plans, packs and        *)
(* objects and every retention count: it is closed under references, prune *)
(* never takes what rollback needs, and what an inspection answers is what *)
(* the store shows.                                                        *)
(*                                                                         *)
(* The invariants speak of Left, the states of a directory that the faults *)
(* still to come can bring back: a record in any of them has its artifacts *)
(* in every one of the blob directory's. The first invariant needs to know *)
(* what an unfinished publication and an unfinished prune have done so far *)
(* (Publishing, Pruning), and that a directory nobody is changing is on    *)
(* disk as it is (Settled).                                                *)
(*                                                                         *)
(* Retention keeps a lineage, a chain of predecessors that is followed a   *)
(* given number of times; the lemmas on chains give what a step may change *)
(* of it. The second invariant, HeadInv, relates the catalog's head, the   *)
(* commit under way and the prune under way to every state of generations/ *)
(* and plans/ that a loss of power may leave. A record counts as there     *)
(* when it was committed before it was durable (Begun): commit_v1 cannot   *)
(* tell, and a loss of power may still take it.                            *)
(*                                                                         *)
(* The last part is about the inspections of Inspection. What an           *)
(* inspection has read of the parts it compares is what the store shows    *)
(* now (InsInv), since a step that touches none of the compared            *)
(* directories leaves the whole store as it would be read: records are     *)
(* written once, so no lineage changes under a head (Known). What fsck,    *)
(* prune and commit follow through trees is one function of the number of  *)
(* steps, of which all of them take the last value; the lemmas on it say   *)
(* that it grows, that it is monotone, and that the marks of an fsck that  *)
(* misses nothing are a closure. The objects the head places are kept by a *)
(* third invariant, PlaceInv.                                              *)
(***************************************************************************)
EXTENDS Inspection, NatLemmas

\* The names a directory may hold.
NamesOf(a) ==
  IF a \in {"plan", "gen"} THEN Plan
  ELSE IF a = "blob" THEN Blob ELSE IF a = "pack" THEN Pack
  ELSE IF a = "tree" THEN Tree ELSE Leaf

Names == Plan \cup Pack \cup Blob \cup Tree \cup Leaf
Records == [prev : Plan \cup {None}, auth : Authority \cup {None}, removes : BOOLEAN]
Jobs(left) == [job : {"idle", "pack", "plan", "objects"}, name : Names \cup {None},
               left : {left}, dirty : {"none", "blob", "pack", "plan", "tree", "leaf"}]
Prunes == [on : Areas \cup {"idle"}, todo : [Areas -> SUBSET Names], dirty : BOOLEAN]

DirType ==
  /\ dir \in [Areas -> SUBSET Names] /\ disk \in [Areas -> SUBSET SUBSET Names]
  /\ \A a \in Areas : dir[a] \in disk[a]
  /\ \A a \in Areas : \A s \in disk[a] : s \subseteq NamesOf(a)
  /\ early \in [Areas -> SUBSET Names]

TypeOK ==
  /\ DirType
  /\ rec \in [Plan -> Records]
  /\ head \in Plan \cup {None} /\ jrn \in Plan \cup {None}
  /\ eng \in Jobs(eng.left) /\ pru \in Prunes
  /\ com \in {"idle", "generation", "sync", "catalog", "finish"}
  /\ kills \in Nat /\ cuts \in Nat

\* What is left of a directory after the faults that may still come.
Left(a) == IF cuts = 0 THEN {dir[a]} ELSE disk[a]

\* The locks, and where the engine is in its publication.
Working ==
  /\ pru.on # "idle" => eng.job = "idle" /\ com = "idle" /\ jrn = None
  /\ pru.on = "idle" => ~pru.dirty
  /\ com # "idle" => jrn # None
  /\ eng.job = "idle" => eng.dirty = "none" /\ eng.left = {} /\ eng.name = None
  /\ eng.job = "pack" => eng.name \in Pack /\ eng.dirty \in {"none", "blob", "pack"}
  /\ eng.job = "plan" => eng.name \in Plan /\ eng.dirty \in {"none", "blob", "plan"}
  /\ eng.job = "objects" => eng.dirty \in {"none", "blob", "tree", "leaf"}
  /\ eng.job \in {"pack", "plan"} => eng.left \subseteq Blob

\* Processes may still die, or power may still be lost, not both.
Apart == kills = 0 \/ cuts = 0

\* A directory nobody is changing is on disk as it is.
Settled ==
  \A a \in {"plan", "blob", "pack"} :
    eng.dirty # a /\ ~(pru.on = a /\ pru.dirty) => Left(a) = {dir[a]}

\* Blobs go before what names them comes.
RecordsWhole ==
  \A pl \in Left("plan"), b \in Left("blob") : \A p \in pl : Artifacts[p] \subseteq b
ManifestsWhole ==
  \A ks \in Left("pack"), b \in Left("blob") : \A k \in ks \ doomed : Members[k] \subseteq b

Publishing ==
  /\ eng.job = "plan" => Artifacts[eng.name] \ eng.left \subseteq dir["blob"]
  /\ eng.job = "pack" => Members[eng.name] \ eng.left \subseteq dir["blob"]

\* What prune is about to remove is named by nothing that stays.
Pruning ==
  pru.on # "idle" =>
    /\ \A p \in dir["plan"] \ pru.todo["plan"] : Artifacts[p] \cap pru.todo["blob"] = {}
    /\ \A k \in dir["pack"] \ doomed : Members[k] \cap pru.todo["blob"] = {}
    /\ pru.on \notin {"gen", "plan"} => pru.todo["plan"] = {}

ClosureInv ==
  TypeOK /\ Working /\ Apart /\ Settled /\ RecordsWhole /\ ManifestsWhole /\ Publishing /\ Pruning

-----------------------------------------------------------------------------
\* A directory's names are names.
LEMMA AreaNames ==
  ASSUME NEW a \in Areas
  PROVE  NamesOf(a) \subseteq Names
BY DEF NamesOf, Names, Areas

\* An entry comes or goes in one directory: the state before it may come back
\* after a loss of power, and the other directories are as they were.
LEMMA ChangeType ==
  ASSUME DirType, NEW a \in Areas, NEW s \in SUBSET NamesOf(a), Change(a, s)
  PROVE  DirType' /\ dir'[a] = s /\ disk'[a] = disk[a] \cup {s}
         /\ \A c \in Areas \ {a} : dir'[c] = dir[c] /\ disk'[c] = disk[c]
<1>1. /\ dir' \in [Areas -> SUBSET Names] /\ disk' \in [Areas -> SUBSET SUBSET Names]
      /\ dir'[a] = s /\ disk'[a] = disk[a] \cup {s}
      /\ \A c \in Areas \ {a} : dir'[c] = dir[c] /\ disk'[c] = disk[c]
  BY AreaNames DEF DirType, Change
<1>2. early' \in [Areas -> SUBSET Names]
  BY DEF DirType, Change
<1> QED BY <1>1, <1>2 DEF DirType

\* fsync(directory): what is in the directory is what a loss of power leaves.
LEMMA FsyncType ==
  ASSUME DirType, NEW a \in Areas, Fsync(a)
  PROVE  DirType' /\ dir' = dir /\ disk'[a] = {dir[a]}
         /\ \A c \in Areas \ {a} : disk'[c] = disk[c]
BY DEF DirType, Fsync

\* What publishing a blob or canonical object makes of the engine's job: the
\* last object of a batch ends it (publish_to, publish_bytes).
LEMMA MemberJob ==
  ASSUME TypeOK, NEW n \in Blob \cup Tree \cup Leaf, PublishMember(n)
  PROVE  /\ eng' \in Jobs(eng'.left)
         /\ \/ eng.job = "objects" /\ eng' = Idle
            \/ /\ eng'.job = eng.job /\ eng'.name = eng.name /\ eng'.left = eng.left \ {n}
               /\ eng'.dirty = IF n \in dir[AreaOf(n)] THEN "none" ELSE AreaOf(n)
<1> DEFINE area == AreaOf(n)
           e == [eng EXCEPT !.left = @ \ {n}]
           f == [eng EXCEPT !.left = @ \ {n}, !.dirty = area]
<1>1. area \in {"blob", "tree", "leaf"}
  BY DEF AreaOf
<1> HIDE DEF area
<1>2. e \in Jobs(eng.left \ {n}) /\ e.job = eng.job /\ e.name = eng.name /\ e.dirty = eng.dirty
      /\ e.left = eng.left \ {n}
  BY DEF TypeOK, Jobs
<1>3. f \in Jobs(eng.left \ {n}) /\ f.job = eng.job /\ f.name = eng.name /\ f.dirty = area
      /\ f.left = eng.left \ {n}
  BY <1>1 DEF TypeOK, Jobs
<1>4. Idle \in Jobs({}) /\ Idle.left = {}
  BY DEF Jobs, Idle
<1>5. CASE n \in dir[area]
  <2>1. eng' = Released(e) /\ eng.dirty = "none"
    BY <1>5 DEF PublishMember, area
  <2> QED BY <2>1, <1>2, <1>4, <1>5 DEF Released, area
<1>6. CASE n \notin dir[area]
  <2>1. eng' = f
    BY <1>6 DEF PublishMember, area
  <2> QED BY <2>1, <1>3, <1>6 DEF area
<1> QED BY <1>5, <1>6

\* The store begins empty.
LEMMA TypeInit == Init => TypeOK
BY RetentionConstants DEF Init, TypeOK, DirType, Areas, NamesOf, Names, Records, Jobs, Prunes,
   NoRecord,
   Record, Idle, NoPrune

\* Every step of the engine, of prune and of the transaction keeps the types.
LEMMA TypeStep == TypeOK /\ Working /\ [Next]_vars => TypeOK'
<1> SUFFICES ASSUME TypeOK, Working, [Next]_vars PROVE TypeOK'
  OBVIOUS
<1> USE DEF TypeOK
<1>1. ASSUME NEW k \in Pack, CapturePack(k) PROVE TypeOK'
  BY <1>1, RetentionConstants DEF CapturePack, DirType, Jobs, Names
<1>2. ASSUME NEW p \in Plan, NEW auth \in Authorities, NEW removes \in BOOLEAN,
             PreparePlan(p, auth, removes) PROVE TypeOK'
  BY <1>2, RetentionConstants DEF PreparePlan, DirType, Jobs, Names, Records, Record
<1>3. ASSUME NEW o \in Tree \cup Leaf, PublishObject(o) PROVE TypeOK'
  BY <1>3 DEF PublishObject, DirType, Jobs, Names
<1>4. ASSUME NEW t \in Tree, PublishArchive(t) PROVE TypeOK'
  BY <1>4 DEF PublishArchive, DirType, Jobs, Names
<1>5. ASSUME NEW n \in Blob \cup Tree \cup Leaf, PublishMember(n) PROVE TypeOK'
  <2>1. AreaOf(n) \in Areas /\ n \in NamesOf(AreaOf(n))
    BY DEF AreaOf, NamesOf, Areas
  <2>2. eng' \in Jobs(eng'.left)
    BY <1>5, MemberJob
  <2>3. CASE n \in dir[AreaOf(n)]
    BY <1>5, <2>2, <2>3 DEF PublishMember, DirType
  <2>4. CASE n \notin dir[AreaOf(n)]
    <3>1. dir[AreaOf(n)] \cup {n} \in SUBSET NamesOf(AreaOf(n))
      BY <2>1 DEF DirType
    <3>2. Change(AreaOf(n), dir[AreaOf(n)] \cup {n})
      BY <1>5, <2>4 DEF PublishMember
    <3>3. DirType'
      BY <2>1, <3>1, <3>2, ChangeType
    <3> QED BY <1>5, <2>2, <3>3 DEF PublishMember
  <2> QED BY <2>3, <2>4
<1>6. ASSUME PublishName PROVE TypeOK'
  <2>1. eng.job \in Areas /\ dir[eng.job] \cup {eng.name} \in SUBSET NamesOf(eng.job)
    BY <1>6 DEF PublishName, Working, DirType, Areas, NamesOf
  <2>2. DirType'
    BY <1>6, <2>1, ChangeType DEF PublishName
  <2> QED BY <1>6, <2>2 DEF PublishName, Jobs
<1>7. CASE PublishSync
  <2>1. DirType'
    BY <1>7, FsyncType DEF PublishSync, Jobs, Areas
  <2> QED BY <1>7, <2>1 DEF PublishSync, Jobs, Released, Idle
<1>8. ASSUME NEW p \in Plan, CommitBegin(p) PROVE TypeOK'
  <2>1. \A a \in Areas : Volatile(p, a) \subseteq Names
    <3>1. \A a \in Areas : Loads(p, a) \subseteq Names
      BY RetentionConstants DEF Loads, Areas, DirType, Names
    <3> QED BY <3>1 DEF Volatile
  <2>2. early' \in [Areas -> SUBSET Names]
    BY <1>8, <2>1 DEF CommitBegin, DirType
  <2> QED BY <1>8, <2>2 DEF CommitBegin, DirType
<1>9. ASSUME CommitGeneration PROVE TypeOK'
  <2>1. dir["gen"] \cup {jrn} \in SUBSET NamesOf("gen") /\ "gen" \in Areas
    BY <1>9 DEF CommitGeneration, Working, DirType, Areas, NamesOf
  <2>2. DirType'
    BY <1>9, <2>1, ChangeType DEF CommitGeneration
  <2> QED BY <1>9, <2>2 DEF CommitGeneration
<1>10. CASE CommitSync
  BY <1>10, FsyncType DEF CommitSync, Areas
<1>11. CASE CommitCatalog \/ CommitFinish \/ CommitFails \/ Recover
  BY <1>11 DEF CommitCatalog, CommitFinish, CommitFails, Recover, DirType
<1>12. ASSUME NEW R \in SUBSET Plan, NEW sweep \in BOOLEAN, PruneBegin(R, sweep) PROVE TypeOK'
  <2>1. Removals(R, sweep) \in [Areas -> SUBSET Names]
    BY DEF Removals, PrunedPlans, Areas, Names, DirType
  <2>2. pru' \in Prunes
    BY <1>12, <2>1 DEF PruneBegin, NextArea, Prunes, Areas
  <2> QED BY <1>12, <2>2 DEF PruneBegin, DirType
<1>13. ASSUME NEW n, PruneUnlink(n) PROVE TypeOK'
  <2>1. pru.on \in Areas /\ dir[pru.on] \ {n} \in SUBSET NamesOf(pru.on)
    BY <1>13 DEF PruneUnlink, Prunes, DirType
  <2>2. DirType'
    BY <1>13, <2>1, ChangeType DEF PruneUnlink
  <2>3. pru' \in Prunes
    BY <1>13, <2>1 DEF PruneUnlink, Prunes
  <2> QED BY <1>13, <2>2, <2>3 DEF PruneUnlink
<1>14. CASE PruneSync
  <2>1. pru.on \in Areas /\ NextArea(pru.on) \in Areas \cup {"idle"}
    BY <1>14 DEF PruneSync, Prunes, NextArea, Areas
  <2>2. DirType'
    BY <1>14, <2>1, FsyncType DEF PruneSync, DirType
  <2>3. pru' \in Prunes
    BY <1>14, <2>1 DEF PruneSync, Prunes
  <2> QED BY <1>14, <2>2, <2>3 DEF PruneSync
<1>15. CASE Kill
  <2>1. Idle \in Jobs(Idle.left) /\ NoPrune \in Prunes
    BY DEF Idle, NoPrune, Jobs, Prunes, Areas
  <2>2. DirType'
    BY <1>15 DEF Kill, DirType
  <2> QED BY <1>15, <2>1, <2>2 DEF Kill
<1>16. CASE PowerLoss
  <2>1. DirType'
    BY <1>16 DEF PowerLoss, DirType, Areas
  <2> QED BY <1>16, <2>1 DEF PowerLoss, Idle, NoPrune, Jobs, Prunes, Areas
<1>17. CASE UNCHANGED vars
  BY <1>17 DEF vars, DirType
<1> QED
  BY <1>1, <1>2, <1>3, <1>4, <1>5, <1>6, <1>7, <1>8, <1>9, <1>10, <1>11, <1>12, <1>13, <1>14, <1>15,
     <1>16, <1>17 DEF Next, Engine, CommitStep, PruneStep
-----------------------------------------------------------------------------
\* What is in a directory is among what may be left of it.
LEMMA LeftNow ==
  ASSUME TypeOK, NEW a \in Areas
  PROVE  dir[a] \in Left(a) /\ \A s \in Left(a) : s \subseteq NamesOf(a)
BY DEF TypeOK, DirType, Left

\* A step that touches no directory leaves what may be left as it is.
LEMMA LeftSame ==
  ASSUME UNCHANGED <<dir, disk, cuts>>, NEW a
  PROVE  Left(a)' = Left(a)
BY DEF Left

\* A change adds one state to what may be left of its directory.
LEMMA LeftChange ==
  ASSUME TypeOK, NEW a \in Areas, NEW s, Change(a, s), UNCHANGED cuts
  PROVE  /\ dir'[a] = s /\ Left(a)' \subseteq Left(a) \cup {s}
         /\ \A c \in Areas \ {a} : dir'[c] = dir[c] /\ Left(c)' = Left(c)
         /\ early'[a] = early[a] \ (dir[a] \ s) /\ \A c \in Areas \ {a} : early'[c] = early[c]
<1>1. early'[a] = early[a] \ (dir[a] \ s) /\ \A c \in Areas \ {a} : early'[c] = early[c]
  BY DEF TypeOK, DirType, Change
<1>2. /\ dir'[a] = s /\ Left(a)' \subseteq Left(a) \cup {s}
      /\ \A c \in Areas \ {a} : dir'[c] = dir[c] /\ Left(c)' = Left(c)
  BY DEF TypeOK, DirType, Left, Change
<1> QED BY <1>1, <1>2

\* A sync leaves one state of its directory.
LEMMA LeftFsync ==
  ASSUME TypeOK, NEW a \in Areas, Fsync(a), UNCHANGED cuts
  PROVE  /\ dir' = dir /\ Left(a)' = {dir[a]}
         /\ \A c \in Areas \ {a} : Left(c)' = Left(c)
         /\ early'[a] = early[a] \ dir[a] /\ \A c \in Areas \ {a} : early'[c] = early[c]
<1>1. early'[a] = early[a] \ dir[a] /\ \A c \in Areas \ {a} : early'[c] = early[c]
  BY DEF TypeOK, DirType, Fsync
<1>2. dir' = dir /\ Left(a)' = {dir[a]} /\ \A c \in Areas \ {a} : Left(c)' = Left(c)
  BY DEF TypeOK, DirType, Left, Fsync
<1> QED BY <1>1, <1>2

\* Every step keeps the control part: prune runs alone, the engine is at one of
\* the points of a publication, and a step of a commit has a journal.
LEMMA WorkingStep ==
  ASSUME TypeOK, Working, [Next]_vars
  PROVE  Working'
<1> USE DEF Working
<1>1. ASSUME NEW k \in Pack, CapturePack(k) PROVE Working'
  BY <1>1, RetentionConstants DEF CapturePack, MaintenanceHeld
<1>2. ASSUME NEW p \in Plan, NEW auth \in Authorities, NEW removes \in BOOLEAN,
             PreparePlan(p, auth, removes) PROVE Working'
  BY <1>2, RetentionConstants DEF PreparePlan, MaintenanceHeld
<1>3. ASSUME NEW o \in Tree \cup Leaf, PublishObject(o) PROVE Working'
  BY <1>3 DEF PublishObject, MaintenanceHeld
<1>4. ASSUME NEW t \in Tree, PublishArchive(t) PROVE Working'
  BY <1>4 DEF PublishArchive, MaintenanceHeld
<1>5. ASSUME NEW n \in Blob \cup Tree \cup Leaf, PublishMember(n) PROVE Working'
  <2>1. Idle.job = "idle" /\ Idle.dirty = "none" /\ Idle.left = {} /\ Idle.name = None
    BY DEF Idle
  <2>2. AreaOf(n) \in {"blob", "tree", "leaf"} /\ (n \in Blob => AreaOf(n) = "blob")
    BY DEF AreaOf
  <2>3. n \in eng.left /\ eng.job # "idle" /\ pru.on = "idle"
    BY <1>5 DEF PublishMember, TypeOK, Prunes
  <2>4. eng.job \in {"idle", "pack", "plan", "objects"}
    BY DEF TypeOK, Jobs
  <2> QED BY <1>5, <2>1, <2>2, <2>3, <2>4, MemberJob DEF PublishMember
<1>6. CASE PublishName
  <2>1. eng'.job = eng.job /\ eng'.name = eng.name /\ eng'.left = eng.left /\ eng'.dirty = eng.job
    BY <1>6 DEF PublishName, TypeOK, Jobs
  <2> QED BY <1>6, <2>1 DEF PublishName
<1>7. CASE PublishSync
  <2>1. Idle.job = "idle" /\ Idle.dirty = "none" /\ Idle.left = {} /\ Idle.name = None
    BY DEF Idle
  <2>2. \/ eng' = Idle
        \/ eng'.job = eng.job /\ eng'.name = eng.name /\ eng'.left = eng.left /\ eng'.dirty = "none"
    BY <1>7 DEF PublishSync, Released, TypeOK, Jobs
  <2> QED BY <1>7, <2>1, <2>2 DEF PublishSync
<1>8. ASSUME NEW p \in Plan, CommitBegin(p) PROVE Working'
  BY <1>8, RetentionConstants DEF CommitBegin, TransactionHeld
<1>9. CASE CommitStep \/ Recover
  BY <1>9 DEF CommitStep, CommitGeneration, CommitSync, CommitCatalog, CommitFinish, CommitFails,
     Recover,
              TransactionHeld
<1>10. ASSUME NEW R \in SUBSET Plan, NEW sweep \in BOOLEAN, PruneBegin(R, sweep) PROVE Working'
  <2>1. pru'.on = "gen"
    BY <1>10 DEF PruneBegin, NextArea
  <2> QED BY <1>10, <2>1 DEF PruneBegin, TransactionHeld, MaintenanceHeld
<1>11. ASSUME NEW n, PruneUnlink(n) PROVE Working'
  <2>1. pru'.on = pru.on
    BY <1>11 DEF PruneUnlink, TypeOK, Prunes
  <2> QED BY <1>11, <2>1 DEF PruneUnlink
<1>12. CASE PruneSync
  <2>1. pru.on # "idle" /\ pru'.dirty = FALSE
    BY <1>12 DEF PruneSync, TypeOK, Prunes
  <2> QED BY <1>12, <2>1 DEF PruneSync
<1>13. CASE Kill
  BY <1>13 DEF Kill, Idle, NoPrune, TypeOK
<1>14. CASE PowerLoss
  BY <1>14 DEF PowerLoss, Idle, NoPrune, TypeOK
<1>15. CASE UNCHANGED vars
  BY <1>15 DEF vars
<1> QED
  BY <1>1, <1>2, <1>3, <1>4, <1>5, <1>6, <1>7, <1>8, <1>9, <1>10, <1>11, <1>12, <1>13, <1>14, <1>15
     DEF Next, Engine, PruneStep
-----------------------------------------------------------------------------
\* Faults only become fewer.
LEMMA ApartStep ==
  ASSUME TypeOK, Apart, [Next]_vars
  PROVE  Apart'
<1>1. (UNCHANGED kills \/ kills' = kills - 1) /\ (UNCHANGED cuts \/ cuts' = cuts - 1)
      /\ (kills' # kills => kills > 0) /\ (cuts' # cuts => cuts > 0)
  BY DEF Next, Engine, CapturePack, PreparePlan, PublishObject, PublishArchive, PublishMember,
     PublishName, PublishSync, CommitBegin, CommitStep, CommitGeneration, CommitSync,
     CommitCatalog, CommitFinish, CommitFails, Recover, PruneBegin, PruneStep, PruneUnlink,
     PruneSync, Kill, PowerLoss, vars
<1> QED BY <1>1 DEF Apart, TypeOK
-----------------------------------------------------------------------------
\* The closure part of the invariant.
Whole == Settled /\ RecordsWhole /\ ManifestsWhole /\ Publishing /\ Pruning

\* Every step keeps the closure part: an artifact or a member is published and
\* synced before the record or manifest that names it is linked, and prune
\* removes it only after everything that names it is gone and synced.
LEMMA WholeStep ==
  ASSUME TypeOK, Working, Apart, Whole, [Next]_vars
  PROVE  Whole'
<1>0. /\ {"plan", "blob", "pack"} \subseteq Areas
      /\ \A a \in Areas : dir[a] \in Left(a)
      /\ eng.job \in {"idle", "pack", "plan", "objects"}
      /\ eng.dirty \in {"none", "blob", "pack", "plan", "tree", "leaf"}
      /\ pru.on \in Areas \cup {"idle"} /\ pru.todo \in [Areas -> SUBSET Names]
  BY LeftNow DEF TypeOK, Jobs, Prunes, Areas
<1>1. CASE UNCHANGED <<dir, disk, cuts, pru, doomed>>
           /\ \/ UNCHANGED eng
              \/ \E k \in Pack : CapturePack(k)
              \/ \E o \in Tree \cup Leaf : PublishObject(o)
              \/ \E t \in Tree : PublishArchive(t)
              \/ \E p \in Plan, auth \in Authorities, removes \in BOOLEAN : PreparePlan(p, auth,
                    removes)
  <2>1. \A a \in Areas : Left(a)' = Left(a)
    BY <1>1, LeftSame
  <2>2. UNCHANGED eng \/ (eng'.dirty = "none" /\ eng.dirty = "none"
           /\ (eng'.job = "plan" => eng'.left = Artifacts[eng'.name])
           /\ (eng'.job = "pack" => eng'.left = Members[eng'.name]))
    <3>1. Idle.dirty = "none"
      BY DEF Idle
    <3>2. ASSUME NEW k \in Pack, CapturePack(k) PROVE <2>2!1 \/ <2>2!2
      BY <3>1, <3>2 DEF CapturePack
    <3>3. ASSUME NEW p \in Plan, NEW auth, NEW removes, PreparePlan(p, auth, removes) PROVE <2>2!2
      BY <3>1, <3>3 DEF PreparePlan
    <3>4. ASSUME NEW o, PublishObject(o) \/ PublishArchive(o) PROVE <2>2!2
      BY <3>1, <3>4 DEF PublishObject, PublishArchive
    <3> QED BY <1>1, <3>2, <3>3, <3>4
  <2> QED BY <1>0, <1>1, <2>1, <2>2
       DEF Whole, Settled, RecordsWhole, ManifestsWhole, Publishing, Pruning
<1>2. ASSUME NEW n \in Blob \cup Tree \cup Leaf, PublishMember(n) PROVE Whole'
  <2> DEFINE area == AreaOf(n)
  <2>1. area \in {"blob", "tree", "leaf"} /\ (n \in Blob <=> area = "blob")
    BY DEF AreaOf
  <2>2. /\ eng.dirty = "none" /\ UNCHANGED <<pru, doomed, cuts>> /\ n \in eng.left
        /\ n \in dir[area] => UNCHANGED <<dir, disk>>
        /\ n \notin dir[area] => Change(area, dir[area] \cup {n})
    BY <1>2 DEF PublishMember
  <2>3. pru.on = "idle" /\ pru'.on = "idle"
    BY <2>2, <1>0 DEF Working
  <2>4. \/ eng' = Idle /\ n \in dir[area]
        \/ /\ eng'.job = eng.job /\ eng'.name = eng.name /\ eng'.left = eng.left \ {n}
           /\ eng'.dirty = IF n \in dir[area] THEN "none" ELSE area
    <3>1. n \notin dir[area] => eng'.job = eng.job
      BY <1>2 DEF PublishMember, TypeOK, Jobs
    <3>2. Idle.job = "idle"
      BY DEF Idle
    <3> QED BY <1>2, <3>1, <3>2, MemberJob
  <2>5. Idle.job = "idle" /\ Idle.dirty = "none"
    BY DEF Idle
  <2> HIDE DEF area
  <2>6. eng.job \in {"plan", "pack"} => n \in Blob
    BY <2>2 DEF Working
  <2>7. CASE n \in dir[area]
    <3>1. \A a \in Areas : Left(a)' = Left(a)
      BY <2>2, <2>7, LeftSame
    <3> QED BY <1>0, <2>1, <2>2, <2>3, <2>4, <2>5, <2>6, <2>7, <3>1
         DEF Whole, Settled, RecordsWhole, ManifestsWhole, Publishing, Pruning
  <2>8. CASE n \notin dir[area]
    <3>1. /\ dir'[area] = dir[area] \cup {n}
                /\ Left(area)' \subseteq Left(area) \cup {dir[area] \cup {n}}
          /\ \A c \in Areas \ {area} : dir'[c] = dir[c] /\ Left(c)' = Left(c)
      <4>1. area \in Areas
        BY <2>1 DEF Areas
      <4> QED BY <2>2, <2>8, <4>1, LeftChange
    <3> QED BY <1>0, <2>1, <2>2, <2>3, <2>4, <2>6, <2>8, <3>1
         DEF Whole, Settled, RecordsWhole, ManifestsWhole, Publishing, Pruning
  <2> QED BY <2>7, <2>8
<1>3. CASE PublishName
  <2>1. /\ eng.job \in Areas /\ eng.job \in {"pack", "plan"} /\ eng.left = {} /\ eng.dirty = "none"
        /\ Change(eng.job, dir[eng.job] \cup {eng.name}) /\ UNCHANGED <<pru, cuts>>
        /\ doomed' = IF eng.job = "pack" THEN doomed \ {eng.name} ELSE doomed
    BY <1>3, <1>0 DEF PublishName
  <2>2. eng'.job = eng.job /\ eng'.name = eng.name /\ eng'.left = eng.left /\ eng'.dirty = eng.job
    BY <1>3 DEF PublishName, TypeOK, Jobs
  <2> PICK a \in Areas : a = eng.job
    BY <2>1
  <2>3. /\ dir'[a] = dir[a] \cup {eng.name}
              /\ Left(a)' \subseteq Left(a) \cup {dir[a] \cup {eng.name}}
        /\ \A c \in Areas \ {a} : dir'[c] = dir[c] /\ Left(c)' = Left(c)
    BY <2>1, LeftChange
  <2>4. pru.on = "idle" /\ pru'.on = "idle"
    BY <2>1, <1>0 DEF Working
  <2>5. Left("blob") = {dir["blob"]} /\ Left("blob")' = {dir["blob"]}
    BY <2>1, <2>3, <2>4, <1>0 DEF Whole, Settled
  <2> QED BY <1>0, <2>1, <2>2, <2>3, <2>4, <2>5
       DEF Whole, Settled, RecordsWhole, ManifestsWhole, Publishing, Pruning
<1>4. CASE PublishSync
  <2>1. /\ eng.dirty \in Areas /\ Fsync(eng.dirty) /\ UNCHANGED <<pru, cuts, doomed>>
    BY <1>4, <1>0 DEF PublishSync, Areas
  <2>2. \/ eng' = Idle
        \/ eng'.job = eng.job /\ eng'.name = eng.name /\ eng'.left = eng.left /\ eng'.dirty = "none"
    BY <1>4 DEF PublishSync, Released, TypeOK, Jobs
  <2>3. Idle.job = "idle" /\ Idle.dirty = "none"
    BY DEF Idle
  <2> PICK a \in Areas : a = eng.dirty
    BY <2>1
  <2>4. dir' = dir /\ Left(a)' = {dir[a]} /\ \A c \in Areas \ {a} : Left(c)' = Left(c)
    BY <2>1, LeftFsync
  <2>5. pru.on = "idle"
    BY <2>1, <1>0 DEF Working, Areas
  <2>6. \A c \in Areas : Left(c)' \subseteq Left(c)
    BY <2>4, <1>0
  <2> QED BY <1>0, <2>1, <2>2, <2>3, <2>4, <2>5, <2>6
       DEF Whole, Settled, RecordsWhole, ManifestsWhole, Publishing, Pruning
<1>5. CASE CommitGeneration \/ CommitSync
  <2>1. /\ Fsync("gen") \/ Change("gen", dir["gen"] \cup {jrn})
        /\ UNCHANGED <<eng, pru, doomed, cuts>> /\ com # "idle"
    BY <1>5 DEF CommitGeneration, CommitSync
  <2>2. \A c \in {"plan", "blob", "pack"} : dir'[c] = dir[c] /\ Left(c)' = Left(c)
    BY <2>1, LeftFsync, LeftChange DEF Areas
  <2>3. pru.on = "idle"
    BY <2>1 DEF Working
  <2> QED BY <1>0, <2>1, <2>2, <2>3
       DEF Whole, Settled, RecordsWhole, ManifestsWhole, Publishing, Pruning
<1>6. ASSUME NEW R \in SUBSET Plan, NEW sweep \in BOOLEAN, PruneBegin(R, sweep) PROVE Whole'
  <2>1. pru'.on = "gen" /\ pru'.dirty = FALSE /\ pru'.todo = Removals(R, sweep)
    BY <1>6 DEF PruneBegin, NextArea
  <2>2. /\ UNCHANGED <<dir, disk, eng, cuts>> /\ pru.on = "idle"
        /\ doomed' = doomed \cup Removals(R, sweep).pack
    BY <1>6 DEF PruneBegin, TransactionHeld
  <2>3. \A a \in Areas : Left(a)' = Left(a)
    BY <2>2, LeftSame
  <2>4. \A p \in dir["plan"] \ Removals(R, sweep)["plan"] : Artifacts[p] \cap Removals(R,
           sweep)["blob"] = {}
    BY DEF Removals, KeptPlans, KeptBlobs
  <2>5. \A k \in dir["pack"] \ Removals(R, sweep)["pack"] : Members[k] \cap Removals(R,
           sweep)["blob"] = {}
    <3>1. \A k \in KeptPacks(R, sweep) : Members[k] \subseteq KeptBlobs(R, sweep)
      BY DEF KeptBlobs
    <3> QED BY <3>1 DEF Removals
  <2>6. Removals(R, sweep).pack = Removals(R, sweep)["pack"]
    BY DEF Removals
  <2> QED BY <1>0, <2>1, <2>2, <2>3, <2>4, <2>5, <2>6
       DEF Whole, Settled, RecordsWhole, ManifestsWhole, Publishing, Pruning
<1>7. ASSUME NEW n, PruneUnlink(n) PROVE Whole'
  <2>1. /\ pru.on \in Areas /\ n \in pru.todo[pru.on] /\ Change(pru.on, dir[pru.on] \ {n})
        /\ UNCHANGED <<eng, doomed, cuts>>
    BY <1>0, <1>7 DEF PruneUnlink
  <2>2. /\ pru'.on = pru.on /\ pru'.dirty = TRUE /\ pru'.todo[pru.on] = pru.todo[pru.on] \ {n}
        /\ \A a \in Areas \ {pru.on} : pru'.todo[a] = pru.todo[a]
    BY <1>7 DEF PruneUnlink, TypeOK, Prunes
  <2> PICK a \in Areas : a = pru.on
    BY <2>1
  <2>3. /\ dir'[a] = dir[a] \ {n} /\ Left(a)' \subseteq Left(a) \cup {dir[a] \ {n}}
        /\ \A c \in Areas \ {a} : dir'[c] = dir[c] /\ Left(c)' = Left(c)
    BY <2>1, LeftChange
  <2>4. eng.job = "idle" /\ eng.dirty = "none" /\ pru.on # "idle"
    BY <2>1 DEF Working, Areas
  <2>5. pru.on = "blob" => Left("plan") = {dir["plan"]} /\ Left("pack") = {dir["pack"]}
                           /\ pru.todo["plan"] = {}
    BY <2>4, <1>0 DEF Whole, Settled, Pruning
  <2>6. Settled'
    BY <1>0, <2>1, <2>2, <2>3, <2>4 DEF Whole, Settled
  <2>7. RecordsWhole' /\ ManifestsWhole'
    BY <1>0, <2>1, <2>2, <2>3, <2>4, <2>5 DEF Whole, RecordsWhole, ManifestsWhole, Pruning
  <2>8. Publishing' /\ Pruning'
    BY <1>0, <2>1, <2>2, <2>3, <2>4 DEF Whole, Publishing, Pruning
  <2> QED BY <2>6, <2>7, <2>8 DEF Whole
<1>8. CASE PruneSync
  <2>1. /\ pru.on \in Areas /\ UNCHANGED <<eng, doomed, cuts>>
        /\ IF pru.dirty THEN Fsync(pru.on) ELSE UNCHANGED <<dir, disk>>
    BY <1>0, <1>8 DEF PruneSync
  <2>2. /\ pru'.dirty = FALSE /\ pru'.todo = pru.todo
        /\ pru'.on = IF pru.todo[pru.on] = {} THEN NextArea(pru.on) ELSE pru.on
    BY <1>8 DEF PruneSync, TypeOK, Prunes
  <2> PICK a \in Areas : a = pru.on
    BY <2>1
  <2>3. /\ pru.dirty => Left(a)' = {dir[a]}
        /\ \A c \in Areas \ {a} : Left(c)' = Left(c)
        /\ \A c \in Areas : Left(c)' = Left(c) \/ Left(c)' = {dir[c]}
    <3>1. CASE pru.dirty
      BY <2>1, <3>1, LeftFsync
    <3>2. CASE ~pru.dirty
      BY <2>1, <3>2, LeftSame
    <3> QED BY <3>1, <3>2
  <2>4. eng.job = "idle" /\ eng.dirty = "none" /\ pru.on # "idle"
    BY <2>1 DEF Working, Areas
  <2>5. NextArea(pru.on) \notin {"gen", "plan"} => pru.on \notin {"gen"}
    BY <2>1 DEF NextArea, Areas
  <2>6. \A c \in Areas : Left(c)' \subseteq Left(c)
    BY <2>3, <1>0
  <2>7. dir' = dir
    BY <2>1 DEF Fsync
  <2> QED BY <1>0, <2>1, <2>2, <2>3, <2>4, <2>5, <2>6, <2>7
       DEF Whole, Settled, RecordsWhole, ManifestsWhole, Publishing, Pruning
<1>9. CASE Kill
  <2>1. /\ UNCHANGED <<dir, disk, doomed, cuts>> /\ cuts = 0
        /\ UNCHANGED eng \/ eng' = Idle
        /\ UNCHANGED pru \/ pru' = NoPrune
    BY <1>9 DEF Kill, Apart, TypeOK
  <2>2. Idle.job = "idle" /\ Idle.dirty = "none" /\ NoPrune.on = "idle"
    BY DEF Idle, NoPrune
  <2>3. \A a \in Areas : Left(a)' = Left(a) /\ Left(a) = {dir[a]}
    BY <2>1, LeftSame DEF Left
  <2> QED BY <1>0, <2>1, <2>2, <2>3
       DEF Whole, Settled, RecordsWhole, ManifestsWhole, Publishing, Pruning
<1>10. CASE PowerLoss
  <2>1. /\ eng' = Idle /\ pru' = NoPrune /\ UNCHANGED doomed /\ cuts > 0
        /\ \A a \in Areas : dir'[a] \in disk[a] /\ disk'[a] = {dir'[a]}
    BY <1>10 DEF PowerLoss, Areas
  <2>2. Idle.job = "idle" /\ Idle.dirty = "none" /\ NoPrune.on = "idle"
    BY DEF Idle, NoPrune
  <2>3. \A a \in Areas : Left(a)' = {dir'[a]} /\ dir'[a] \in Left(a)
    BY <2>1 DEF Left, TypeOK
  <2> QED BY <1>0, <2>1, <2>2, <2>3
       DEF Whole, Settled, RecordsWhole, ManifestsWhole, Publishing, Pruning
<1>11. CASE UNCHANGED vars
  BY <1>11, <1>1 DEF vars
<1> QED
  <2>1. CASE Engine
    BY <2>1, <1>1, <1>2, <1>3, <1>4 DEF Engine, CapturePack, PublishObject, PublishArchive,
       PreparePlan
  <2>2. CASE CommitStep \/ Recover \/ \E p \in Plan : CommitBegin(p)
    BY <2>2, <1>1, <1>5 DEF CommitStep, CommitCatalog, CommitFinish, CommitFails, Recover,
       CommitBegin
  <2>3. CASE PruneStep
    BY <2>3, <1>7, <1>8 DEF PruneStep
  <2> QED BY <1>6, <1>9, <1>10, <1>11, <2>1, <2>2, <2>3 DEF Next

\* A run has deaths of the process or losses of power, not both: what a process
\* that died has not synced is taken for published by the next one, and a loss of
\* power after that brings it back (the limit the README describes).
FaultsApart == \A f \in Faults : f.kills = 0 \/ f.cuts = 0

\* An empty store is closed under references.
LEMMA ClosureInit ==
  ASSUME FaultsApart, Init
  PROVE  ClosureInv
<1>1. Working /\ Apart
  BY RetentionConstants DEF Init, FaultsApart, Working, Apart, Idle, NoPrune
<1>2. \A a \in Areas : Left(a) = {{}} /\ dir[a] = {}
  BY DEF Init, Left
<1>3. eng.job = "idle" /\ pru.on = "idle"
  BY DEF Init, Idle, NoPrune
<1> QED
  BY <1>1, <1>2, <1>3, TypeInit
     DEF ClosureInv, Apart, Settled, RecordsWhole, ManifestsWhole, Publishing, Pruning, Areas

\* However often the process dies, or however often power is lost, a published
\* plan record has all of its artifacts and a pack manifest all of its members
\* (publish_record, publish_bytes, prune_store): nothing the store offers is incomplete.
THEOREM ClosureSafe ==
  ASSUME FaultsApart
  PROVE  Spec => []ClosureComplete
<1>1. Init => ClosureInv
  BY ClosureInit
<1>2. ClosureInv /\ [Next]_vars => ClosureInv'
  BY TypeStep, WorkingStep, ApartStep, WholeStep DEF ClosureInv, Whole
<1>3. ClosureInv => ClosureComplete
  BY LeftNow
     DEF ClosureInv, RecordsWhole, ManifestsWhole, ClosureComplete, RecordComplete, PackMembers,
     Areas
<1> QED BY <1>1, <1>2, <1>3, PTL DEF Spec

-----------------------------------------------------------------------------
\* What rollback reads

\* Power may be lost once, or a process may die, any number of times.
Once == cuts = 0 \/ (kills = 0 /\ cuts = 1)

\* The records a commit can have begun with: those in a state pl of prepared/, and
\* those that were committed before they were synced.
Begun(pl) == pl \cup early["plan"]

\* A name in plans/ is a record that was written.
Recorded ==
  /\ \A p \in early["plan"] : p \in Plan /\ rec[p].auth # None
  /\ cuts > 0 => early["plan"] \subseteq dir["plan"]
  /\ \A pl \in Left("plan") : \A p \in pl : rec[p].auth # None
  /\ eng.job = "plan" => rec[eng.name].auth # None
  /\ \A p \in Plan : rec[p].auth = None => rec[p] = NoRecord

\* A generation comes after its record and goes before it.
GensRecorded == \A gs \in Left("gen"), pl \in Left("plan") : gs \subseteq Begun(pl)
GensGrow ==
  ~(pru.on = "gen" /\ pru.dirty) => \A gs \in Left("gen") : gs \subseteq dir["gen"]
\* While a record is linked and not synced, the others are on disk.
OnDiskSince ==
  eng.dirty = "plan" => \A pl \in Left("plan") : dir["plan"] \ {eng.name} \subseteq pl

\* What rolling back from g reads: its lineage and its restore points.
Needs(g) == Lineage(g, Keep(g)) \cup Points(g)

\* Whatever a loss of power leaves, the head's rollback inputs are there.
HeadHeld ==
  head # None => /\ \A gs \in Left("gen") : Needs(head) \subseteq gs
                 /\ \A pl \in Left("plan") : Pins(head) \subseteq Begun(pl)

\* Before the loss of power, a record comes after the records it pins, and
\* prune removes none that a remaining one pins.
PinsHeld ==
  cuts > 0 =>
    /\ pru.on = "idle" => \A pl \in Left("plan") : \A p \in pl : Pins(p) \subseteq pl
    /\ pru.on # "idle" => \A p \in dir["plan"] \ pru.todo["plan"] :
                            Pins(p) \subseteq dir["plan"] \ pru.todo["plan"]
    /\ eng.job = "plan" => Pins(eng.name) \subseteq dir["plan"]

\* The plan of a pending transaction is not removed.
JournalHeld == jrn # None => \A pl \in Left("plan") : jrn \in Begun(pl)

\* A commit that will become the head has what the head needs.
CommitReady ==
  com \in {"generation", "sync", "catalog"} /\ ~rec[jrn].removes =>
    /\ Needs(jrn) \ {jrn} \subseteq dir["gen"]
    /\ \A pl \in Left("plan") : Pins(jrn) \subseteq Begun(pl)
    /\ com # "generation" => jrn \in dir["gen"]
    /\ com = "catalog" => Left("gen") = {dir["gen"]}

\* What prune is about to remove, nothing that stays needs.
PruneSpares ==
  pru.on # "idle" =>
    /\ head # None => /\ Needs(head) \cap pru.todo["gen"] = {}
                      /\ (Needs(head) \cup Pins(head)) \cap pru.todo["plan"] = {}
    /\ (dir["gen"] \ pru.todo["gen"]) \cap pru.todo["plan"] = {}
    /\ pru.on # "gen" => pru.todo["gen"] = {}

\* The part of the invariant that is about the head.
Held ==
  /\ Once /\ Recorded /\ GensRecorded /\ GensGrow /\ OnDiskSince /\ HeadHeld /\ PinsHeld
  /\ JournalHeld /\ CommitReady /\ PruneSpares

\* The inductive invariant.
HeadInv == ClosureInv /\ Held

-----------------------------------------------------------------------------
\* Chains of predecessors.  f is the chain of length n that starts at g in the
\* records r; it ends in None when the lineage is shorter.
IsChain(f, r, g, n) ==
  f = [i \in 0 .. n - 1 |->
         IF i = 0 THEN g ELSE IF f[i - 1] = None THEN None ELSE r[f[i - 1]].prev]

\* Lineage, as a function of the records.
LineageIn(r, g, n) ==
  LET f == CHOOSE f : IsChain(f, r, g, n) IN {f[i] : i \in 0 .. n - 1} \ {None}

\* Two chains of predecessors of the same length are the same (by the least
\* index at which they differ).
LEMMA ChainUnique ==
  ASSUME NEW r, NEW g, NEW n \in Nat, NEW f, NEW h, IsChain(f, r, g, n), IsChain(h, r, g, n)
  PROVE f = h
<1> DEFINE C == {i \in Nat : i <= n - 1 /\ f[i] # h[i]}
<1>1. CASE C = {}
  <2>1. \A i \in 0 .. n - 1 : f[i] = h[i]
    BY <1>1
  <2>2. DOMAIN f = 0 .. n - 1 /\ DOMAIN h = 0 .. n - 1
    BY DEF IsChain
  <2>3. f = [i \in 0 .. n - 1 |-> f[i]] /\ h = [i \in 0 .. n - 1 |-> h[i]]
    BY <2>2 DEF IsChain
  <2> QED BY <2>1, <2>2, <2>3
<1>2. CASE C # {}
  <2>1. PICK m \in C : \A k \in C : m <= k
    BY <1>2, Least
  <2>2. f[0] = g /\ h[0] = g
    BY <2>1 DEF IsChain
  <2>3. m \in 1 .. n - 1 /\ m - 1 \notin C /\ m - 1 \in Nat
    BY <2>1, <2>2
  <2>4. f[m - 1] = h[m - 1]
    BY <2>3
  <2> HIDE DEF C
  <2>5. f[m] = IF f[m - 1] = None THEN None ELSE r[f[m - 1]].prev
    BY <2>3 DEF IsChain
  <2>6. h[m] = IF h[m - 1] = None THEN None ELSE r[h[m - 1]].prev
    BY <2>3 DEF IsChain
  <2> QED BY <2>1, <2>4, <2>5, <2>6 DEF C
<1> QED BY <1>1, <1>2

\* There is a chain of every length (by the least length that has none).
LEMMA ChainExists ==
  ASSUME NEW r, NEW g, NEW n \in Nat
  PROVE \E f : IsChain(f, r, g, n)
<1> DEFINE C == {k \in Nat : ~ \E f : IsChain(f, r, g, k)}
<1> SUFFICES ASSUME C # {} PROVE FALSE
  OBVIOUS
<1>1. PICK m \in C : \A k \in C : m <= k
  BY Least
<1>2. m # 0
  <2>1. IsChain([i \in 0 .. 0 - 1 |-> g], r, g, 0)
    BY DEF IsChain
  <2> QED BY <2>1
<1>3. PICK f : IsChain(f, r, g, m - 1)
  BY <1>1, <1>2
<1> DEFINE h == [i \in 0 .. m - 1 |-> IF i < m - 1 THEN f[i] ELSE IF i = 0 THEN g
                    ELSE IF f[i - 1] = None THEN None ELSE r[f[i - 1]].prev]
<1>4. \A i \in 0 .. m - 1 : h[i] = IF i = 0 THEN g ELSE IF h[i - 1] = None THEN None
        ELSE r[h[i - 1]].prev
  <2> SUFFICES ASSUME NEW i \in 0 .. m - 1
        PROVE h[i] = IF i = 0 THEN g ELSE IF h[i - 1] = None THEN None ELSE r[h[i - 1]].prev
    OBVIOUS
  <2>1. CASE i = 0
    <3>1. CASE i < m - 1
      <4>1. f[i] = g BY <1>3, <2>1, <3>1 DEF IsChain
      <4> QED BY <4>1, <3>1, <2>1
    <3> QED BY <3>1, <2>1
  <2>2. CASE i # 0
    <3>1. h[i - 1] = f[i - 1]
      BY <2>2
    <3>2. i < m - 1 => f[i] = IF f[i - 1] = None THEN None ELSE r[f[i - 1]].prev
      BY <1>3, <2>2 DEF IsChain
    <3> QED BY <3>1, <3>2, <2>2
  <2> QED BY <2>1, <2>2
<1>5. h = [i \in 0 .. m - 1 |-> h[i]]
  OBVIOUS
<1> HIDE DEF h
<1>6. IsChain(h, r, g, m)
  BY <1>4, <1>5 DEF IsChain
<1> QED BY <1>6


\* The lineage of the model is the one of its records, now and in the next state.
LEMMA LineageIs ==
  ASSUME NEW g, NEW n
  PROVE  Lineage(g, n) = LineageIn(rec, g, n) /\ Lineage(g, n)' = LineageIn(rec', g, n)
BY Zenon DEF Lineage, LineageIn, IsChain

\* A lineage is what its chain visits.
LEMMA LineageOf ==
  ASSUME NEW r, NEW g, NEW n \in Nat, NEW f, IsChain(f, r, g, n)
  PROVE  LineageIn(r, g, n) = {f[i] : i \in 0 .. n - 1} \ {None}
<1> DEFINE h == CHOOSE h : IsChain(h, r, g, n)
<1>1. h = f
  <2>1. IsChain(h, r, g, n)
    OBVIOUS
  <2> HIDE DEF h
  <2> QED BY <2>1, ChainUnique
<1>2. LineageIn(r, g, n) = {h[i] : i \in 0 .. n - 1} \ {None}
  BY Zenon DEF LineageIn
<1> HIDE DEF h
<1> QED BY <1>1, <1>2

\* The lineage of length one is the generation itself.
LEMMA LineageOne ==
  ASSUME NEW r, NEW g
  PROVE  LineageIn(r, g, 1) = {g} \ {None}
<1>1. IsChain([i \in 0 .. 1 - 1 |-> g], r, g, 1)
  BY DEF IsChain
<1> QED BY <1>1, LineageOf

\* Before the first generation there is nothing.
LEMMA LineageNone ==
  ASSUME NEW r, NEW n \in Nat
  PROVE  LineageIn(r, None, n) = {}
<1>1. IsChain([i \in 0 .. n - 1 |-> None], r, None, n)
  BY DEF IsChain
<1> QED BY <1>1, LineageOf

\* A lineage is its first generation and the lineage of that one's predecessor.
LEMMA LineageNext ==
  ASSUME NEW r, NEW g, g # None, NEW n \in Nat
  PROVE  LineageIn(r, g, n + 1) = {g} \cup LineageIn(r, r[g].prev, n)
<1>1. PICK f : IsChain(f, r, g, n + 1)
  BY ChainExists
<1> DEFINE h == [i \in 0 .. n - 1 |-> f[i + 1]]
<1>2. f[0] = g
  BY <1>1 DEF IsChain
<1>3. \A i \in 0 .. n - 1 : f[i + 1] = IF f[i] = None THEN None ELSE r[f[i]].prev
  BY <1>1 DEF IsChain
<1>4. \A i \in 0 .. n - 1 :
        h[i] = IF i = 0 THEN r[g].prev ELSE IF h[i - 1] = None THEN None ELSE r[h[i - 1]].prev
  BY <1>2, <1>3
<1>5. IsChain(h, r, r[g].prev, n)
  <2>1. h = [i \in 0 .. n - 1 |-> h[i]]
    OBVIOUS
  <2> HIDE DEF h
  <2> QED BY <1>4, <2>1 DEF IsChain
<1>6. LineageIn(r, g, n + 1) = {f[i] : i \in 0 .. n} \ {None}
  BY <1>1, LineageOf
<1>7. LineageIn(r, r[g].prev, n) = {h[i] : i \in 0 .. n - 1} \ {None}
  BY <1>5, LineageOf
<1>8. {f[i] : i \in 0 .. n} = {g} \cup {h[i] : i \in 0 .. n - 1}
  <2>1. ASSUME NEW i \in 0 .. n PROVE f[i] \in {g} \cup {h[j] : j \in 0 .. n - 1}
    <3>1. CASE i = 0
      BY <1>2, <3>1
    <3>2. CASE i # 0
      <4>1. i - 1 \in 0 .. n - 1 /\ h[i - 1] = f[i]
        BY <3>2
      <4> QED BY <4>1
    <3> QED BY <3>1, <3>2
  <2>2. ASSUME NEW i \in 0 .. n - 1 PROVE h[i] \in {f[j] : j \in 0 .. n}
    BY i + 1 \in 0 .. n
  <2>3. g \in {f[j] : j \in 0 .. n}
    BY <1>2
  <2> QED BY <2>1, <2>2, <2>3
<1> QED BY <1>6, <1>7, <1>8

\* A longer lineage has at least the same generations.
LEMMA LineageGrows ==
  ASSUME NEW r, NEW g, NEW n \in Nat
  PROVE  LineageIn(r, g, n) \subseteq LineageIn(r, g, n + 1)
<1>1. PICK f : IsChain(f, r, g, n + 1)
  BY ChainExists
<1> DEFINE h == [i \in 0 .. n - 1 |-> f[i]]
<1>2. \A i \in 0 .. n - 1 : f[i] = IF i = 0 THEN g ELSE IF f[i - 1] = None THEN None
        ELSE r[f[i - 1]].prev
  BY <1>1 DEF IsChain
<1>3. IsChain(h, r, g, n)
  <2>1. \A i \in 0 .. n - 1 : h[i] = IF i = 0 THEN g ELSE IF h[i - 1] = None THEN None
          ELSE r[h[i - 1]].prev
    BY <1>2
  <2>2. h = [i \in 0 .. n - 1 |-> h[i]]
    OBVIOUS
  <2> HIDE DEF h
  <2> QED BY <2>1, <2>2 DEF IsChain
<1>4. LineageIn(r, g, n) = {h[i] : i \in 0 .. n - 1} \ {None}
  BY <1>3, LineageOf
<1>5. LineageIn(r, g, n + 1) = {f[i] : i \in 0 .. n} \ {None}
  BY <1>1, LineageOf
<1> QED BY <1>4, <1>5

\* A lineage depends on the predecessors recorded along it and on nothing else.
LEMMA LineageStable ==
  ASSUME NEW r, NEW q, NEW g, NEW n \in Nat,
         \A x \in LineageIn(r, g, n) : q[x].prev = r[x].prev
  PROVE  LineageIn(q, g, n) = LineageIn(r, g, n)
<1>1. PICK f : IsChain(f, r, g, n)
  BY ChainExists
<1>2. LineageIn(r, g, n) = {f[i] : i \in 0 .. n - 1} \ {None}
  BY <1>1, LineageOf
<1>3. \A i \in 0 .. n - 1 : f[i] = IF i = 0 THEN g ELSE IF f[i - 1] = None THEN None
        ELSE r[f[i - 1]].prev
  BY <1>1 DEF IsChain
<1>4. \A i \in 0 .. n - 1 : f[i] = IF i = 0 THEN g ELSE IF f[i - 1] = None THEN None
        ELSE q[f[i - 1]].prev
  <2> SUFFICES ASSUME NEW i \in 0 .. n - 1, i # 0, f[i - 1] # None
               PROVE  q[f[i - 1]].prev = r[f[i - 1]].prev
    BY <1>3
  <2>1. i - 1 \in 0 .. n - 1
    OBVIOUS
  <2> QED BY <2>1, <1>2
<1>5. f = [i \in 0 .. n - 1 |-> f[i]]
  BY <1>1 DEF IsChain
<1>6. IsChain(f, q, g, n)
  BY <1>4, <1>5 DEF IsChain
<1> QED BY <1>2, <1>6, LineageOf
-----------------------------------------------------------------------------
\* A step that writes no record changes no lineage and no pin.
LEMMA SameNeeds ==
  ASSUME rec' = rec
  PROVE  \A g : Needs(g)' = Needs(g) /\ Pins(g)' = Pins(g)
BY LineageIs DEF Needs, Points, Pins, Keep

\* Writing a record changes the needs of no generation whose lineage it is not in.
LEMMA StableNeeds ==
  ASSUME NEW g, rec'[g] = rec[g], Keep(g) \in Nat,
         \A x \in Needs(g) : rec'[x] = rec[x]
  PROVE  Needs(g)' = Needs(g) /\ Pins(g)' = Pins(g)
<1>1. LineageIn(rec', g, Keep(g)) = LineageIn(rec, g, Keep(g))
  BY LineageIs, LineageStable DEF Needs
<1>2. Keep(g)' = Keep(g)
  BY DEF Keep
<1> QED BY <1>1, <1>2, LineageIs DEF Needs, Points, Pins, Keep

\* A plan prepared on the current head has its lineage, itself apart, among the
\* generations: the head's lineage was held and ends at most one earlier.
LEMMA CandidateLineage ==
  ASSUME TypeOK, HeadHeld, NEW p \in Plan, rec[p].auth \in Authority,
         head = rec[p].prev, LineageIntact(head, Keep(p))
  PROVE  Lineage(p, Keep(p)) \ {p} \subseteq dir["gen"]
<1>1. Keep(p) \in Nat /\ Keep(p) # 0 /\ p # None
  BY RetentionConstants DEF Keep, Authority
<1> DEFINE n == Keep(p) - 1
<1>2. n \in Nat /\ Keep(p) = n + 1
  BY <1>1
<1> HIDE DEF n
<1>3. Lineage(p, Keep(p)) = {p} \cup LineageIn(rec, head, n)
  BY <1>1, <1>2, LineageIs, LineageNext
<1>4. CASE Keep(p) = 1
  BY <1>4, <1>1, LineageIs, LineageOne
<1>5. CASE head = None
  BY <1>3, <1>2, <1>5, LineageNone
<1>6. CASE head # None /\ Keep(head) = Keep(p)
  <2>1. Lineage(head, Keep(head)) \subseteq dir["gen"]
    BY <1>6, LeftNow DEF HeadHeld, Needs, Areas
  <2>2. LineageIn(rec, head, n) \subseteq LineageIn(rec, head, n + 1)
    BY <1>2, LineageGrows
  <2> QED BY <1>2, <1>3, <1>6, <2>1, <2>2, LineageIs
<1>7. CASE Lineage(head, Keep(p) - 1) \subseteq dir["gen"] \cap dir["plan"]
  BY <1>3, <1>7, LineageIs DEF n
<1> QED BY <1>4, <1>5, <1>6, <1>7 DEF LineageIntact

\* A step that writes no record and removes no generation or record keeps Held.
LEMMA HeldQuietly ==
  ASSUME TypeOK, Held, UNCHANGED <<rec, head, pru, kills, cuts>>,
         \A a \in {"plan", "gen"} : dir'[a] = dir[a],
         Left("gen")' = Left("gen"), Left("plan")' \subseteq Left("plan"),
         early'["plan"] \subseteq early["plan"],
         \A pl \in Left("plan")' : early["plan"] \subseteq pl \cup early'["plan"],
         eng'.job = "plan" => eng.job = "plan" /\ eng'.name = eng.name,
         eng'.dirty = "plan" => eng.dirty = "plan" /\ eng'.name = eng.name,
         UNCHANGED <<jrn, com>> \/ (jrn' = None /\ com' = "idle")
  PROVE  Held'
<1>1. \A g : Needs(g)' = Needs(g) /\ Pins(g)' = Pins(g)
  BY SameNeeds
<1>0. \A pl \in Left("plan")' : pl \in Left("plan") /\ Begun(pl) \subseteq Begun(pl)'
  BY DEF Begun
<1>2. (Once /\ Recorded /\ GensRecorded /\ GensGrow /\ OnDiskSince)'
  <2>1. GensRecorded'
    BY <1>0 DEF Held, GensRecorded
  <2> QED BY <2>1 DEF Held, Once, Recorded, GensGrow, OnDiskSince
<1>3. HeadHeld' /\ PinsHeld'
  BY <1>0, <1>1 DEF Held, HeadHeld, PinsHeld
<1>4. JournalHeld' /\ CommitReady'
  BY <1>0, <1>1 DEF Held, JournalHeld, CommitReady
<1>5. PruneSpares'
  BY <1>1 DEF Held, PruneSpares
<1> QED BY <1>2, <1>3, <1>4, <1>5 DEF Held

\* Every step keeps Held: of the engine, of prune, of a commit, and of a fault.
LEMMA HeldStep ==
  ASSUME TypeOK, Working, Apart, Whole, Held, [Next]_vars
  PROVE  Held'
<1>0. /\ "plan" \in Areas /\ "gen" \in Areas
      /\ \A a \in Areas : dir[a] \in Left(a)
      /\ eng.job \in {"idle", "pack", "plan", "objects"}
      /\ eng.dirty \in {"none", "blob", "pack", "plan", "tree", "leaf"}
      /\ pru.on \in Areas \cup {"idle"} /\ pru.todo \in [Areas -> SUBSET Names]
  BY LeftNow DEF TypeOK, Jobs, Prunes, Areas
<1>00. Idle.job = "idle" /\ Idle.dirty = "none"
  BY DEF Idle
<1>1. CASE (\E k \in Pack : CapturePack(k)) \/ (\E o \in Tree \cup Leaf : PublishObject(o))
           \/ (\E t \in Tree : PublishArchive(t)) \/ CommitFinish \/ CommitFails \/ Recover
           \/ UNCHANGED vars
  <2>1. /\ UNCHANGED <<dir, disk, early, rec, head, pru, kills, cuts>>
        /\ UNCHANGED eng \/ (eng'.job # "plan" /\ eng'.dirty # "plan")
        /\ UNCHANGED <<jrn, com>> \/ (jrn' = None /\ com' = "idle")
    <3>1. ASSUME NEW k \in Pack, CapturePack(k) PROVE <2>1
      BY <3>1 DEF CapturePack
    <3>2. ASSUME NEW o, PublishObject(o) \/ PublishArchive(o) PROVE <2>1
      BY <3>2 DEF PublishObject, PublishArchive
    <3>3. ASSUME CommitFinish \/ CommitFails \/ Recover \/ UNCHANGED vars PROVE <2>1
      BY <3>3 DEF CommitFinish, CommitFails, Recover, TransactionHeld, vars
    <3> QED BY <1>1, <3>1, <3>2, <3>3
  <2>2. \A a \in Areas : Left(a)' = Left(a)
    BY <2>1, LeftSame
  <2> QED BY <1>0, <2>1, <2>2, HeldQuietly
<1>2. ASSUME NEW p \in Plan, NEW auth \in Authorities, NEW removes \in BOOLEAN,
             PreparePlan(p, auth, removes) PROVE Held'
  <2> DEFINE r == Record(head, auth, removes)
  <2>1. /\ r.prev = head /\ r.auth = auth /\ r.removes = removes /\ auth \in Authority
              /\ auth # None
        /\ NoRecord.auth = None
    BY RetentionConstants DEF Record, NoRecord
  <2>2. /\ rec[p] \in {NoRecord, r} /\ Derivable(r) /\ rec' = [rec EXCEPT ![p] = r]
        /\ eng'.job = "plan" /\ eng'.name = p /\ eng'.dirty = "none"
        /\ eng = Idle /\ pru.on = "idle"
        /\ UNCHANGED <<dir, disk, early, head, jrn, com, pru, kills, cuts>>
    BY <1>2 DEF PreparePlan, MaintenanceHeld
  <2> HIDE DEF r
  <2>3. \A a \in Areas : Left(a)' = Left(a)
    BY <2>2, LeftSame
  <2>b. \A pl : Begun(pl)' = Begun(pl)
    BY <2>2 DEF Begun
  <2>4. \A x \in Plan : rec[x].auth # None => rec'[x] = rec[x] /\ Keep(x) \in Nat
    BY <2>1, <2>2 DEF TypeOK, Records, Authority, Keep
  <2>5. \A pl \in Left("plan") : \A x \in Begun(pl) :
          x \in Plan /\ rec[x].auth # None /\ rec'[x] = rec[x]
    BY <1>0, <2>4, LeftNow DEF Held, Recorded, NamesOf, Begun
  <2>6. dir["gen"] \subseteq Begun(dir["plan"])
    BY <1>0 DEF Held, GensRecorded
  <2>7. head # None => Needs(head)' = Needs(head) /\ Pins(head)' = Pins(head)
    <3>1. head # None => head \in Begun(dir["plan"]) /\ Needs(head) \subseteq Begun(dir["plan"])
      BY <1>0, <2>1, <2>2, <2>6 DEF Derivable, Held, HeadHeld
    <3> QED BY <1>0, <2>2, <2>4, <2>5, <3>1, StableNeeds
  <2>8. jrn # None => rec'[jrn] = rec[jrn] /\ jrn \in Begun(dir["plan"])
    BY <1>0, <2>5 DEF Held, JournalHeld
  <2>9. ASSUME com \in {"generation", "sync", "catalog"}, ~rec[jrn].removes
        PROVE  Needs(jrn)' = Needs(jrn) /\ Pins(jrn)' = Pins(jrn)
    <3>1. jrn \in Begun(dir["plan"]) /\ Needs(jrn) \subseteq Begun(dir["plan"])
      BY <2>6, <2>8, <2>9 DEF Held, CommitReady, Working
    <3> QED BY <1>0, <2>2, <2>4, <2>5, <3>1, StableNeeds
  <2>10. cuts > 0 => Pins(p)' \subseteq dir["plan"]
    <3>1. Pins(p)' = auth.pins
      BY <2>1, <2>2 DEF Pins, TypeOK
    <3>2. CASE removes
      <4>1. head # None /\ auth = rec[head].auth
        BY <2>1, <2>2, <3>2 DEF Derivable, KindValid
      <4>2. cuts > 0 => Begun(dir["plan"]) = dir["plan"]
        BY DEF Held, Recorded, Begun
      <4> QED BY <1>0, <3>1, <4>1, <4>2 DEF Held, HeadHeld, Pins
    <3>3. CASE ~removes
      BY <2>1, <2>2, <3>1, <3>3 DEF Derivable, AuthorityIntact, PlanIntact
    <3> QED BY <3>2, <3>3
  <2>11. (Once /\ Recorded /\ GensRecorded /\ GensGrow /\ OnDiskSince)'
    <3>1. Recorded'
      BY <1>0, <2>1, <2>2, <2>3, <2>5 DEF Held, Recorded, Begun, TypeOK
    <3> QED BY <1>0, <2>2, <2>3, <2>b, <3>1 DEF Held, Once, GensRecorded, GensGrow, OnDiskSince
  <2>12. HeadHeld'
    BY <1>0, <2>2, <2>3, <2>7, <2>b DEF Held, HeadHeld
  <2>13. PinsHeld'
    <3>1. \A pl \in Left("plan") : \A x \in pl : Pins(x)' = Pins(x)
      BY <2>5 DEF Pins, Begun
    <3> QED BY <1>0, <2>2, <2>3, <2>10, <3>1 DEF Held, PinsHeld
  <2>14. JournalHeld' /\ CommitReady' /\ PruneSpares'
    <3>1. CommitReady'
      BY <1>0, <2>2, <2>3, <2>8, <2>9, <2>b DEF Held, CommitReady, Working
    <3> QED BY <1>0, <2>2, <2>3, <2>b, <3>1 DEF Held, JournalHeld, PruneSpares
  <2> QED BY <2>11, <2>12, <2>13, <2>14 DEF Held
<1>3. ASSUME NEW n \in Blob \cup Tree \cup Leaf, PublishMember(n) PROVE Held'
  <2>1. /\ UNCHANGED <<rec, head, pru, kills, cuts, jrn, com>>
        /\ UNCHANGED <<dir, disk, early>> \/ Change(AreaOf(n), dir[AreaOf(n)] \cup {n})
    BY <1>3 DEF PublishMember
  <2>2. AreaOf(n) \in {"blob", "tree", "leaf"}
    BY DEF AreaOf
  <2>3. \A a \in {"plan", "gen"} : dir'[a] = dir[a] /\ Left(a)' = Left(a) /\ early'[a] = early[a]
    <3>1. AreaOf(n) \in Areas /\ \A a \in {"plan", "gen"} : a \in Areas \ {AreaOf(n)}
      BY <2>2 DEF Areas
    <3> QED BY <2>1, <3>1, LeftSame, LeftChange
  <2>4. \/ eng' = Idle
        \/ eng'.job = eng.job /\ eng'.name = eng.name /\ eng'.dirty # "plan"
    BY <1>3, <2>2, MemberJob
  <2> QED BY <1>0, <1>00, <2>1, <2>3, <2>4, HeldQuietly
<1>4. CASE PublishName
  <2>1. /\ eng.job \in Areas /\ eng.job \in {"pack", "plan"} /\ eng.left = {} /\ eng.dirty = "none"
        /\ Change(eng.job, dir[eng.job] \cup {eng.name})
        /\ UNCHANGED <<rec, head, pru, kills, cuts, jrn, com>>
    BY <1>4, <1>0 DEF PublishName, Areas
  <2>2. eng'.job = eng.job /\ eng'.name = eng.name /\ eng'.left = eng.left /\ eng'.dirty = eng.job
    BY <1>4 DEF PublishName, TypeOK, Jobs
  <2>3. pru.on = "idle"
    BY <2>1, <1>0 DEF Working
  <2>4. CASE eng.job = "pack"
    <3>1. \A a \in {"plan", "gen"} :
            dir'[a] = dir[a] /\ Left(a)' = Left(a) /\ early'[a] = early[a]
      BY <2>1, <2>4, LeftChange DEF Areas
    <3> QED BY <1>0, <2>1, <2>2, <2>4, <3>1, HeldQuietly
  <2>5. CASE eng.job = "plan"
    <3>1. /\ dir'["plan"] = dir["plan"] \cup {eng.name} /\ dir'["gen"] = dir["gen"]
          /\ Left("plan") = {dir["plan"]} /\ Left("gen")' = Left("gen")
          /\ Left("plan")' \subseteq {dir["plan"], dir["plan"] \cup {eng.name}}
          /\ early'["plan"] = early["plan"]
      <4>1. Left("plan") = {dir["plan"]}
        BY <2>1, <2>3 DEF Whole, Settled
      <4>2. Change("plan", dir["plan"] \cup {eng.name}) /\ UNCHANGED cuts
        BY <2>1, <2>5
      <4>3. /\ dir'["plan"] = dir["plan"] \cup {eng.name} /\ dir'["gen"] = dir["gen"]
            /\ Left("gen")' = Left("gen")
            /\ Left("plan")' \subseteq Left("plan") \cup {dir["plan"] \cup {eng.name}}
            /\ early'["plan"] = early["plan"] \ (dir["plan"] \ (dir["plan"] \cup {eng.name}))
        BY <1>0, <4>2, LeftChange
      <4> QED BY <4>1, <4>3
    <3>b. \A pl : Begun(pl)' = Begun(pl)
      BY <3>1 DEF Begun
    <3>c. Begun(dir["plan"]) \subseteq Begun(dir["plan"] \cup {eng.name})
      BY DEF Begun
    <3>2. \A g : Needs(g)' = Needs(g) /\ Pins(g)' = Pins(g)
      BY <2>1, SameNeeds
    <3>3. (Once /\ Recorded /\ GensRecorded /\ GensGrow /\ OnDiskSince)'
      <4>1. GensRecorded'
        BY <1>0, <3>1, <3>b, <3>c DEF Held, GensRecorded
      <4>2. Recorded'
        <5>1. \A pl \in Left("plan")' : \A x \in pl : rec[x].auth # None
          BY <2>5, <3>1 DEF Held, Recorded
        <5>2. cuts > 0 => early'["plan"] \subseteq dir'["plan"]
          BY <3>1 DEF Held, Recorded
        <5> QED BY <2>1, <2>2, <3>1, <5>1, <5>2 DEF Held, Recorded
      <4> QED BY <1>0, <2>1, <2>2, <2>3, <2>5, <3>1, <4>1, <4>2
           DEF Held, Once, GensGrow, OnDiskSince
    <3>4. HeadHeld'
      BY <1>0, <2>1, <3>1, <3>2, <3>b, <3>c DEF Held, HeadHeld
    <3>6. PinsHeld'
      BY <1>0, <2>1, <2>2, <2>3, <2>5, <3>1, <3>2, <3>b, <3>c DEF Held, PinsHeld
    <3>5. JournalHeld' /\ CommitReady' /\ PruneSpares'
      BY <1>0, <2>1, <2>2, <2>3, <3>1, <3>2, <3>b, <3>c
         DEF Held, JournalHeld, CommitReady, PruneSpares
    <3> QED BY <3>3, <3>4, <3>5, <3>6 DEF Held
  <2> QED BY <2>1, <2>4, <2>5
<1>5. CASE PublishSync
  <2>1. /\ eng.dirty \in Areas \ {"gen"} /\ Fsync(eng.dirty)
        /\ UNCHANGED <<rec, head, pru, kills, cuts, jrn, com>>
    BY <1>5, <1>0 DEF PublishSync, Areas
  <2>2. \/ eng' = Idle
        \/ eng'.job = eng.job /\ eng'.name = eng.name /\ eng'.left = eng.left /\ eng'.dirty = "none"
    BY <1>5 DEF PublishSync, Released, TypeOK, Jobs
  <2>3. /\ dir' = dir /\ Left("gen")' = Left("gen") /\ Left("plan")' \subseteq Left("plan")
        /\ early'["plan"] \subseteq early["plan"]
        /\ \A pl \in Left("plan")' : early["plan"] \subseteq pl \cup early'["plan"]
    <3>1. CASE eng.dirty = "plan"
      <4>1. Left("plan")' = {dir["plan"]} /\ early'["plan"] = early["plan"] \ dir["plan"]
        BY <1>0, <2>1, <3>1, LeftFsync
      <4> QED BY <1>0, <2>1, <3>1, <4>1, LeftFsync
    <3>2. CASE eng.dirty # "plan"
      BY <1>0, <2>1, <3>2, LeftFsync
    <3> QED BY <3>1, <3>2
  <2> QED BY <1>0, <1>00, <2>1, <2>2, <2>3, HeldQuietly
<1>6. ASSUME NEW p \in Plan, CommitBegin(p) PROVE Held'
  <2>1. /\ com = "idle" /\ pru.on = "idle" /\ jrn = None /\ jrn' = p
        /\ p \in dir["plan"] /\ Derivable(rec[p])
        /\ com' = IF rec[p].removes THEN "catalog" ELSE "generation"
        /\ UNCHANGED <<dir, disk, rec, head, eng, pru, kills, cuts>>
        /\ early' = [a \in Areas |-> early[a] \cup Volatile(p, a)]
    BY <1>6 DEF CommitBegin, TransactionHeld
  <2>2. \A a \in Areas : Left(a)' = Left(a)
    BY <2>1, LeftSame
  <2>3. \A g : Needs(g)' = Needs(g) /\ Pins(g)' = Pins(g)
    BY <2>1, SameNeeds
  <2>a. /\ early["plan"] \subseteq early'["plan"] /\ early'["plan"] \subseteq early["plan"] \cup {p}
        /\ cuts > 0 => \A pl \in disk["plan"] : p \in pl \/ p \in early'["plan"]
    <3>1. Volatile(p, "plan") = {n \in {p} : \E names \in disk["plan"] : n \notin names}
      BY DEF Volatile, Loads
    <3> QED BY <1>0, <2>1, <3>1
  <2>b. \A pl : Begun(pl) \subseteq Begun(pl)'
    BY <2>a DEF Begun
  <2>4. \A pl \in Left("plan") :
          p \in Begun(pl)' /\ (p \in pl \/ dir["plan"] \subseteq Begun(pl)')
    <3>1. CASE cuts = 0
      BY <2>1, <3>1 DEF Left, Begun
    <3>2. CASE cuts # 0 /\ eng.dirty # "plan"
      BY <2>1, <3>2 DEF Whole, Settled, Begun
    <3>3. CASE cuts # 0 /\ eng.dirty = "plan"
      <4>1. Left("plan") = disk["plan"] /\ cuts > 0
        BY <3>3 DEF Left, TypeOK
      <4>2. \A pl \in Left("plan") : dir["plan"] \ {eng.name} \subseteq pl
        BY <3>3 DEF Held, OnDiskSince
      <4> QED BY <2>1, <2>a, <4>1, <4>2 DEF Begun
    <3> QED BY <3>1, <3>2, <3>3
  <2>5. ASSUME ~rec[p].removes
        PROVE  /\ Needs(p) \ {p} \subseteq dir["gen"]
               /\ \A pl \in Left("plan") : Pins(p) \subseteq Begun(pl)'
    <3>1. rec[p].auth \in Authority
      BY <1>0, <2>1 DEF Held, Recorded, TypeOK, Records
    <3>2. head = rec[p].prev /\ LineageIntact(head, Keep(p)) /\ AuthorityIntact(rec[p].auth)
      BY <2>1, <2>5 DEF Derivable, Keep
    <3>3. Lineage(p, Keep(p)) \ {p} \subseteq dir["gen"]
      BY <3>1, <3>2, CandidateLineage DEF Held
    <3>4. Points(p) \subseteq dir["gen"] /\ Pins(p) \subseteq dir["plan"]
      BY <3>2 DEF AuthorityIntact, PlanIntact, Points, Pins
    <3>5. \A pl \in Left("plan") : Pins(p) \subseteq Begun(pl)'
      <4>1. CASE cuts = 0
        BY <3>4, <4>1 DEF Left, Begun
      <4>2. CASE cuts # 0
        <5>1. \A pl \in Left("plan") : p \in pl => Pins(p) \subseteq pl
          BY <2>1, <4>2 DEF Held, PinsHeld, TypeOK
        <5>2. \A pl : pl \subseteq Begun(pl)'
          BY DEF Begun
        <5> QED BY <2>4, <3>4, <5>1, <5>2
      <4> QED BY <4>1, <4>2
    <3> QED BY <3>3, <3>4, <3>5 DEF Needs
  <2>6. (Once /\ Recorded /\ GensRecorded /\ GensGrow /\ OnDiskSince)'
    <3>1. Recorded'
      BY <1>0, <2>1, <2>2, <2>a DEF Held, Recorded
    <3> QED BY <1>0, <2>1, <2>2, <2>b, <3>1 DEF Held, Once, GensRecorded, GensGrow, OnDiskSince
  <2>7. HeadHeld' /\ PinsHeld' /\ JournalHeld' /\ PruneSpares'
    BY <1>0, <2>1, <2>2, <2>3, <2>4, <2>b DEF Held, HeadHeld, PinsHeld, JournalHeld, PruneSpares
  <2>8. CommitReady'
    BY <1>0, <2>1, <2>2, <2>3, <2>5 DEF CommitReady
  <2> QED BY <2>6, <2>7, <2>8 DEF Held
<1>7. CASE CommitGeneration
  <2>1. /\ com = "generation" /\ com' = "sync" /\ Change("gen", dir["gen"] \cup {jrn})
        /\ UNCHANGED <<rec, head, jrn, eng, pru, kills, cuts>>
    BY <1>7 DEF CommitGeneration
  <2>2. /\ dir'["gen"] = dir["gen"] \cup {jrn} /\ dir'["plan"] = dir["plan"]
        /\ Left("gen")' \subseteq Left("gen") \cup {dir["gen"] \cup {jrn}}
              /\ Left("plan")' = Left("plan") /\ early'["plan"] = early["plan"]
    BY <1>0, <2>1, LeftChange
  <2>b. \A pl : Begun(pl)' = Begun(pl)
    BY <2>2 DEF Begun
  <2>3. \A g : Needs(g)' = Needs(g) /\ Pins(g)' = Pins(g)
    BY <2>1, SameNeeds
  <2>4. jrn # None /\ pru.on = "idle" /\ \A pl \in Left("plan") : jrn \in Begun(pl)
    BY <2>1 DEF Working, Held, JournalHeld
  <2>5. (Once /\ Recorded /\ GensRecorded /\ GensGrow /\ OnDiskSince)'
    BY <1>0, <2>1, <2>2, <2>4, <2>b DEF Held, Once, Recorded, GensRecorded, GensGrow, OnDiskSince
  <2>6. HeadHeld' /\ PinsHeld' /\ JournalHeld' /\ PruneSpares'
    BY <1>0, <2>1, <2>2, <2>3, <2>4, <2>b DEF Held, HeadHeld, PinsHeld, JournalHeld, PruneSpares
  <2>7. CommitReady'
    BY <1>0, <2>1, <2>2, <2>3, <2>b DEF Held, CommitReady
  <2> QED BY <2>5, <2>6, <2>7 DEF Held
<1>8. CASE CommitSync
  <2>1. /\ com = "sync" /\ com' = "catalog" /\ Fsync("gen")
        /\ UNCHANGED <<rec, head, jrn, eng, pru, kills, cuts>>
    BY <1>8 DEF CommitSync
  <2>2. dir' = dir /\ Left("gen")' = {dir["gen"]} /\ Left("plan")' = Left("plan")
        /\ early'["plan"] = early["plan"]
    BY <1>0, <2>1, LeftFsync
  <2>b. \A pl : Begun(pl)' = Begun(pl)
    BY <2>2 DEF Begun
  <2>3. \A g : Needs(g)' = Needs(g) /\ Pins(g)' = Pins(g)
    BY <2>1, SameNeeds
  <2>4. pru.on = "idle"
    BY <2>1 DEF Working
  <2>5. (Once /\ Recorded /\ GensRecorded /\ GensGrow /\ OnDiskSince)'
    BY <1>0, <2>1, <2>2, <2>4, <2>b DEF Held, Once, Recorded, GensRecorded, GensGrow, OnDiskSince
  <2>6. HeadHeld' /\ PinsHeld' /\ JournalHeld' /\ PruneSpares'
    BY <1>0, <2>1, <2>2, <2>3, <2>4, <2>b DEF Held, HeadHeld, PinsHeld, JournalHeld, PruneSpares
  <2>7. CommitReady'
    BY <1>0, <2>1, <2>2, <2>3, <2>b DEF Held, CommitReady
  <2> QED BY <2>5, <2>6, <2>7 DEF Held
<1>9. CASE CommitCatalog
  <2>1. /\ com = "catalog" /\ com' = "finish" /\ head' = IF rec[jrn].removes THEN None ELSE jrn
        /\ UNCHANGED <<dir, disk, early, rec, jrn, eng, pru, kills, cuts>>
    BY <1>9 DEF CommitCatalog
  <2>2. \A a \in Areas : Left(a)' = Left(a)
    BY <2>1, LeftSame
  <2>b. \A pl : Begun(pl)' = Begun(pl)
    BY <2>1 DEF Begun
  <2>3. \A g : Needs(g)' = Needs(g) /\ Pins(g)' = Pins(g)
    BY <2>1, SameNeeds
  <2>4. pru.on = "idle" /\ jrn # None
    BY <2>1 DEF Working
  <2>5. (Once /\ Recorded /\ GensRecorded /\ GensGrow /\ OnDiskSince)'
    BY <1>0, <2>1, <2>2, <2>4, <2>b DEF Held, Once, Recorded, GensRecorded, GensGrow, OnDiskSince
  <2>6. PinsHeld' /\ JournalHeld' /\ PruneSpares' /\ CommitReady'
    BY <1>0, <2>1, <2>2, <2>3, <2>4, <2>b DEF Held, PinsHeld, JournalHeld, PruneSpares, CommitReady
  <2>7. HeadHeld'
    BY <1>0, <2>1, <2>2, <2>3, <2>4, <2>b DEF Held, HeadHeld, CommitReady
  <2> QED BY <2>5, <2>6, <2>7 DEF Held
<1>10. ASSUME NEW R \in SUBSET Plan, NEW sweep \in BOOLEAN, PruneBegin(R, sweep) PROVE Held'
  <2>1. pru'.on = "gen" /\ pru'.dirty = FALSE /\ pru'.todo = Removals(R, sweep)
    BY <1>10 DEF PruneBegin, NextArea
  <2>2. /\ UNCHANGED <<dir, disk, early, rec, head, jrn, eng, com, kills, cuts>>
        /\ pru.on = "idle" /\ com = "idle" /\ eng.job = "idle" /\ jrn = None
        /\ PruneAccepts(R, sweep)
    BY <1>10 DEF PruneBegin, TransactionHeld, MaintenanceHeld
  <2>3. \A a \in Areas : Left(a)' = Left(a)
    BY <2>2, LeftSame
  <2>b. \A pl : Begun(pl)' = Begun(pl)
    BY <2>2 DEF Begun
  <2>4. \A g : Needs(g)' = Needs(g) /\ Pins(g)' = Pins(g)
    BY <2>2, SameNeeds
  <2>5. RootGens(R) \subseteq RetainedPlans(R) /\ RetainedPlans(R) \subseteq dir["plan"]
        /\ RetainedPlans(R) \cap PrunedPlans(R, sweep) = {}
    BY <2>2 DEF PruneAccepts, RetainedPlans, PrunedPlans
  <2>6. head # None => Needs(head) \subseteq RootGens(R) /\ Pins(head) \subseteq RetainedPlans(R)
    BY DEF Needs, RootGens, RetainedPlans
  <2>7. \A p \in dir["plan"] \ PrunedPlans(R, sweep) : Pins(p) \subseteq RetainedPlans(R)
    BY DEF RetainedPlans, PrunedPlans
  <2>8. /\ Removals(R, sweep)["gen"] = dir["gen"] \ RootGens(R)
        /\ Removals(R, sweep)["plan"] = PrunedPlans(R, sweep)
    BY DEF Removals
  <2>9. (Once /\ Recorded /\ GensRecorded /\ GensGrow /\ OnDiskSince)'
    BY <1>0, <2>1, <2>2, <2>3, <2>b DEF Held, Once, Recorded, GensRecorded, GensGrow, OnDiskSince
  <2>10. HeadHeld' /\ JournalHeld' /\ CommitReady'
    BY <1>0, <2>2, <2>3, <2>4, <2>b DEF Held, HeadHeld, JournalHeld, CommitReady
  <2>11. PinsHeld'
    BY <1>0, <2>1, <2>2, <2>4, <2>5, <2>7, <2>8 DEF PinsHeld
  <2>12. PruneSpares'
    BY <1>0, <2>1, <2>2, <2>4, <2>5, <2>6, <2>8 DEF PruneSpares
  <2> QED BY <2>9, <2>10, <2>11, <2>12 DEF Held
<1>11. ASSUME NEW n, PruneUnlink(n) PROVE Held'
  <2>1. /\ pru.on \in Areas /\ n \in pru.todo[pru.on] /\ Change(pru.on, dir[pru.on] \ {n})
        /\ UNCHANGED <<rec, head, jrn, eng, com, kills, cuts>>
    BY <1>0, <1>11 DEF PruneUnlink
  <2>2. /\ pru'.on = pru.on /\ pru'.dirty = TRUE /\ pru'.todo[pru.on] = pru.todo[pru.on] \ {n}
        /\ \A a \in Areas \ {pru.on} : pru'.todo[a] = pru.todo[a]
    BY <1>11 DEF PruneUnlink, TypeOK, Prunes
  <2> PICK a \in Areas : a = pru.on
    BY <2>1
  <2>3. /\ dir'[a] = dir[a] \ {n} /\ Left(a)' \subseteq Left(a) \cup {dir[a] \ {n}}
        /\ \A c \in Areas \ {a} : dir'[c] = dir[c] /\ Left(c)' = Left(c)
        /\ early'[a] = early[a] \ (dir[a] \ (dir[a] \ {n}))
        /\ \A c \in Areas \ {a} : early'[c] = early[c]
    BY <2>1, LeftChange
  <2>b. /\ early'["plan"] \subseteq early["plan"] /\ early["plan"] \subseteq early'["plan"] \cup {n}
        /\ a # "plan" => early'["plan"] = early["plan"]
        /\ early["plan"] \subseteq dir["plan"] => early'["plan"] \subseteq dir'["plan"]
    BY <1>0, <2>3
  <2>c. \A pl : Begun(pl) \subseteq Begun(pl)' \cup {n} /\ (a # "plan" => Begun(pl)' = Begun(pl))
    BY <2>b DEF Begun
  <2>d. a = "plan" => \A pl \in Left("plan")' :
          \E q \in Left("plan") : Begun(q) \subseteq Begun(pl)' \cup {n}
    <3> SUFFICES ASSUME a = "plan", NEW pl \in Left("plan")'
                 PROVE  \E q \in Left("plan") : Begun(q) \subseteq Begun(pl)' \cup {n}
      OBVIOUS
    <3>1. CASE pl \in Left("plan")
      BY <2>c, <3>1
    <3>2. CASE pl = dir["plan"] \ {n}
      <4>1. Begun(dir["plan"]) \subseteq Begun(pl)' \cup {n}
        BY <2>b, <3>2 DEF Begun
      <4> QED BY <1>0, <4>1
    <3> QED BY <2>3, <3>1, <3>2
  <2>4. eng.job = "idle" /\ eng.dirty = "none" /\ pru.on # "idle" /\ com = "idle" /\ jrn = None
    BY <2>1 DEF Working, Areas
  <2>5. \A g : Needs(g)' = Needs(g) /\ Pins(g)' = Pins(g)
    BY <2>1, SameNeeds
  <2>6. (Once /\ Recorded /\ GensGrow /\ OnDiskSince)'
    BY <1>0, <2>1, <2>2, <2>3, <2>4, <2>b DEF Held, Once, Recorded, GensGrow, OnDiskSince
  <2>7. GensRecorded'
    <3>1. CASE a = "plan"
      <4>1. \A gs \in Left("gen") : gs \subseteq dir["gen"] /\ n \notin gs
        BY <1>0, <2>1, <3>1 DEF Held, GensGrow, PruneSpares
      <4>2. Left("gen")' = Left("gen")
        BY <1>0, <2>3, <3>1
      <4>3. \A gs \in Left("gen"), q \in Left("plan") : gs \subseteq Begun(q)
        BY DEF Held, GensRecorded
      <4> QED BY <2>d, <3>1, <4>1, <4>2, <4>3 DEF GensRecorded
    <3>2. CASE a # "plan"
      BY <1>0, <2>3, <2>c, <3>2 DEF Held, GensRecorded
    <3> QED BY <3>1, <3>2
  <2>8. HeadHeld' /\ JournalHeld' /\ CommitReady'
    <3>1. JournalHeld' /\ CommitReady'
      BY <2>1, <2>4 DEF JournalHeld, CommitReady
    <3>2. ASSUME head # None PROVE \A gs \in Left("gen")' : Needs(head) \subseteq gs
      BY <1>0, <2>1, <2>3, <3>2 DEF Held, HeadHeld, PruneSpares
    <3>3. ASSUME head # None PROVE \A pl \in Left("plan")' : Pins(head) \subseteq Begun(pl)'
      <4>1. \A q \in Left("plan") : Pins(head) \subseteq Begun(q)
        BY <3>3 DEF Held, HeadHeld
      <4>2. CASE a = "plan"
        <5>1. n \notin Pins(head)
          BY <2>1, <2>4, <3>3, <4>2 DEF Held, PruneSpares
        <5> QED BY <2>d, <4>1, <4>2, <5>1
      <4>3. CASE a # "plan"
        BY <1>0, <2>3, <2>c, <4>1, <4>3
      <4> QED BY <4>2, <4>3
    <3> QED BY <2>1, <2>5, <3>1, <3>2, <3>3 DEF HeadHeld
  <2>9. dir'["plan"] \ pru'.todo["plan"] = dir["plan"] \ pru.todo["plan"]
        /\ dir'["gen"] \ pru'.todo["gen"] = dir["gen"] \ pru.todo["gen"]
        /\ pru'.todo["gen"] \subseteq pru.todo["gen"]
              /\ pru'.todo["plan"] \subseteq pru.todo["plan"]
    BY <1>0, <2>1, <2>2, <2>3
  <2>10. PinsHeld'
    BY <1>0, <2>1, <2>2, <2>4, <2>5, <2>9 DEF Held, PinsHeld
  <2>11. PruneSpares'
    BY <1>0, <2>1, <2>2, <2>4, <2>5, <2>9 DEF Held, PruneSpares
  <2> QED BY <2>6, <2>7, <2>8, <2>10, <2>11 DEF Held
<1>12. CASE PruneSync
  <2>1. /\ pru.on \in Areas /\ UNCHANGED <<rec, head, jrn, eng, com, kills, cuts>>
        /\ IF pru.dirty THEN Fsync(pru.on) ELSE UNCHANGED <<dir, disk, early>>
    BY <1>0, <1>12 DEF PruneSync
  <2>2. /\ pru'.dirty = FALSE /\ pru'.todo = pru.todo
        /\ pru'.on = IF pru.todo[pru.on] = {} THEN NextArea(pru.on) ELSE pru.on
    BY <1>12 DEF PruneSync, TypeOK, Prunes
  <2> PICK a \in Areas : a = pru.on
    BY <2>1
  <2>3. /\ pru.dirty => Left(a)' = {dir[a]}
        /\ \A c \in Areas : Left(c)' = Left(c) \/ Left(c)' = {dir[c]}
    <3>1. CASE pru.dirty
      BY <2>1, <3>1, LeftFsync
    <3>2. CASE ~pru.dirty
      BY <2>1, <3>2, LeftSame
    <3> QED BY <3>1, <3>2
  <2>4. /\ eng.job = "idle" /\ eng.dirty = "none" /\ pru.on # "idle" /\ com = "idle" /\ jrn = None
        /\ dir' = dir
    BY <2>1 DEF Working, Areas, Fsync
  <2>5. \A g : Needs(g)' = Needs(g) /\ Pins(g)' = Pins(g)
    BY <2>1, SameNeeds
  <2>6. NextArea(pru.on) # "gen" /\ (NextArea(pru.on) = "idle" => pru.on = "leaf")
    BY <2>1 DEF NextArea, Areas
  <2>7. \A c \in Areas : Left(c)' \subseteq Left(c)
    BY <2>3, <1>0
  <2>b. /\ early'["plan"] \subseteq early["plan"]
        /\ \A pl \in Left("plan")' : Begun(pl) \subseteq Begun(pl)'
    <3>1. CASE ~pru.dirty
      BY <2>1, <3>1 DEF Begun
    <3>2. CASE pru.dirty /\ a = "plan"
      <4>1. Left("plan")' = {dir["plan"]} /\ early'["plan"] = early["plan"] \ dir["plan"]
        BY <2>1, <3>2, LeftFsync
      <4> QED BY <4>1 DEF Begun
    <3>3. CASE pru.dirty /\ a # "plan"
      <4>1. early'["plan"] = early["plan"]
        BY <1>0, <2>1, <3>3, LeftFsync
      <4> QED BY <4>1 DEF Begun
    <3> QED BY <3>1, <3>2, <3>3
  <2>8. (Once /\ Recorded /\ GensRecorded /\ OnDiskSince)'
    BY <1>0, <2>1, <2>4, <2>7, <2>b DEF Held, Once, Recorded, GensRecorded, OnDiskSince
  <2>9. GensGrow'
    BY <1>0, <2>1, <2>3, <2>4, <2>7 DEF Held, GensGrow
  <2>10. HeadHeld' /\ JournalHeld' /\ CommitReady'
    BY <1>0, <2>1, <2>4, <2>5, <2>7, <2>b DEF Held, HeadHeld, JournalHeld, CommitReady
  <2>11. PinsHeld'
    <3>1. CASE pru'.on = "idle"
      <4>1. pru.on = "leaf"
        BY <2>2, <2>4, <2>6, <3>1
      <4>2. pru.todo["plan"] = {} /\ Left("plan") = {dir["plan"]}
        BY <2>4, <4>1 DEF Whole, Settled, Pruning
      <4> QED BY <1>0, <2>1, <2>4, <2>5, <2>7, <3>1, <4>2 DEF Held, PinsHeld
    <3>2. CASE pru'.on # "idle"
      BY <2>1, <2>2, <2>4, <2>5, <3>2 DEF Held, PinsHeld
    <3> QED BY <3>1, <3>2
  <2>12. PruneSpares'
    BY <1>0, <2>1, <2>2, <2>4, <2>5, <2>6 DEF Held, PruneSpares
  <2> QED BY <2>8, <2>9, <2>10, <2>11, <2>12 DEF Held
<1>13. CASE Kill
  <2>1. /\ UNCHANGED <<dir, disk, early, rec, head, jrn, cuts>> /\ cuts = 0
        /\ UNCHANGED eng \/ eng' = Idle
        /\ UNCHANGED com \/ com' = "idle"
        /\ UNCHANGED pru \/ pru' = NoPrune
    BY <1>13 DEF Kill, Apart, TypeOK
  <2>2. NoPrune.on = "idle"
    BY DEF NoPrune
  <2>3. \A a \in Areas : Left(a)' = Left(a) /\ Left(a) = {dir[a]}
    BY <2>1, LeftSame DEF Left
  <2>b. \A pl : Begun(pl)' = Begun(pl)
    BY <2>1 DEF Begun
  <2>4. \A g : Needs(g)' = Needs(g) /\ Pins(g)' = Pins(g)
    BY <2>1, SameNeeds
  <2>5. (Once /\ Recorded /\ GensRecorded /\ GensGrow /\ OnDiskSince)'
    BY <1>0, <1>00, <2>1, <2>2, <2>3, <2>b
       DEF Held, Once, Recorded, GensRecorded, GensGrow, OnDiskSince
  <2>6. HeadHeld' /\ PinsHeld' /\ JournalHeld'
    BY <1>0, <2>1, <2>3, <2>4, <2>b DEF Held, HeadHeld, PinsHeld, JournalHeld
  <2>7. CommitReady' /\ PruneSpares'
    BY <1>0, <2>1, <2>2, <2>3, <2>4, <2>b DEF Held, CommitReady, PruneSpares
  <2> QED BY <2>5, <2>6, <2>7 DEF Held
<1>14. CASE PowerLoss
  <2>1. /\ eng' = Idle /\ pru' = NoPrune /\ com' = "idle" /\ UNCHANGED <<rec, head, jrn>>
        /\ cuts > 0 /\ cuts' = cuts - 1
        /\ \A a \in Areas : dir'[a] \in disk[a] /\ disk'[a] = {dir'[a]}
              /\ early'[a] = early[a] \ dir'[a]
    BY <1>14 DEF PowerLoss, Areas
  <2>2. NoPrune.on = "idle"
    BY DEF NoPrune
  <2>3. \A a \in Areas : Left(a)' = {dir'[a]} /\ dir'[a] \in Left(a)
    BY <2>1 DEF Left, TypeOK
  <2>b. Begun(dir["plan"])' = Begun(dir'["plan"])
    BY <1>0, <2>1 DEF Begun
  <2>4. \A g : Needs(g)' = Needs(g) /\ Pins(g)' = Pins(g)
    BY <2>1, SameNeeds
  <2>5. cuts' = 0
    BY <2>1 DEF Held, Once, TypeOK
  <2>6. (Once /\ Recorded /\ GensRecorded /\ GensGrow /\ OnDiskSince)'
    <3>1. Recorded'
      BY <1>0, <1>00, <2>1, <2>3, <2>5 DEF Held, Recorded
    <3>2. \A pl \in Left("plan")' : Begun(pl)' = Begun(pl)
      BY <1>0, <2>3, <2>b
    <3>3. GensRecorded'
      BY <1>0, <2>3, <3>2 DEF Held, GensRecorded
    <3> QED BY <1>0, <1>00, <2>1, <2>3, <2>5, <3>1, <3>3 DEF Held, Once, GensGrow, OnDiskSince
  <2>c. \A pl \in Left("plan")' : Begun(pl)' = Begun(pl)
    BY <1>0, <2>3, <2>b
  <2>7. HeadHeld' /\ PinsHeld' /\ JournalHeld'
    BY <1>0, <2>1, <2>3, <2>4, <2>5, <2>c DEF Held, HeadHeld, PinsHeld, JournalHeld
  <2>8. CommitReady' /\ PruneSpares'
    BY <2>1, <2>2 DEF CommitReady, PruneSpares
  <2> QED BY <2>6, <2>7, <2>8 DEF Held
<1> QED
  BY <1>1, <1>2, <1>3, <1>4, <1>5, <1>6, <1>7, <1>8, <1>9, <1>10, <1>11, <1>12, <1>13, <1>14
     DEF Next, Engine, CommitStep, PruneStep

\* A run loses power at most once, and then no process dies of itself.
OneCut == \A f \in Faults : f.cuts = 0 \/ (f.kills = 0 /\ f.cuts = 1)

\* An empty store holds everything its (absent) head needs.
LEMMA HeldInit ==
  ASSUME OneCut, Init
  PROVE  HeadInv
<1>1. FaultsApart /\ Once
  BY DEF OneCut, Init, FaultsApart, Once
<1>2. \A a \in Areas : Left(a) = {{}} /\ dir[a] = {}
  BY DEF Init, Left
<1>3. /\ eng.job = "idle" /\ eng.dirty = "none" /\ pru.on = "idle" /\ com = "idle"
      /\ head = None /\ jrn = None /\ \A p \in Plan : rec[p] = NoRecord
      /\ early["plan"] = {}
  BY DEF Init, Idle, NoPrune, Areas
<1>4. "plan" \in Areas /\ "gen" \in Areas
  BY DEF Areas
<1> QED
  BY <1>1, <1>2, <1>3, <1>4, ClosureInit
     DEF HeadInv, Held, Begun, Recorded, GensRecorded, GensGrow, OnDiskSince, HeadHeld, PinsHeld,
         JournalHeld, CommitReady, PruneSpares

\* Whatever is pruned, committed and interrupted, and in whichever order, the
\* generations and records that rollback from the current generation reads are in
\* the store (prune_store, validate_catalog_lineages); the exception are records
\* that were committed after the link and before the fsync of their preparation,
\* which a loss of power may take away (early).
THEOREM HeadSafe ==
  ASSUME OneCut
  PROVE  Spec => []HeadKept
<1>1. Init => HeadInv
  BY HeldInit
<1>2. HeadInv /\ [Next]_vars => HeadInv'
  BY TypeStep, WorkingStep, ApartStep, WholeStep, HeldStep DEF HeadInv, ClosureInv, Whole
<1>3. HeadInv => HeadKept
  BY LeftNow
     DEF HeadInv, ClosureInv, Held, HeadHeld, GensRecorded, JournalHeld, Begun, Needs, HeadKept,
         Areas
<1> QED BY <1>1, <1>2, <1>3, PTL DEF Spec

-----------------------------------------------------------------------------
\* What an inspection has read is what the store shows, until it changes

\* A record that was written names one that was written; so do the catalog, the
\* journal and every state of prepared/.
Known ==
  /\ \A p \in Plan : rec[p].auth = None => rec[p] = NoRecord
  /\ \A p \in Plan : rec[p].auth # None /\ rec[p].prev # None => rec[rec[p].prev].auth # None
  /\ head # None => rec[head].auth # None
  /\ jrn # None => rec[jrn].auth # None
  /\ \A pl \in disk["plan"] : \A p \in pl : rec[p].auth # None
  /\ eng.job = "plan" => rec[eng.name].auth # None

\* Nothing is written at first.
LEMMA KnownInit == Init => Known
BY DEF Init, Known, NoRecord, Record, Idle, Areas

\* What a step writes: at most one record, which was not written before, and
\* the names of records that are.
LEMMA KnownStep ==
  ASSUME TypeOK, Working, Known, [Next]_vars
  PROVE  /\ Known'
         /\ \A p \in Plan : rec[p].auth # None => rec'[p] = rec[p]
<1>0. /\ "plan" \in Areas /\ dir["plan"] \in disk["plan"]
      /\ \A pl \in disk["plan"] : pl \subseteq Plan
      /\ rec \in [Plan -> Records] /\ head \in Plan \cup {None} /\ jrn \in Plan \cup {None}
      /\ disk \in [Areas -> SUBSET SUBSET Names] /\ dir \in [Areas -> SUBSET Names]
      /\ None \notin Plan /\ None \notin Authorities
  BY RetentionConstants DEF TypeOK, DirType, Areas, NamesOf
<1>1. ASSUME NEW p \in Plan, NEW auth \in Authorities, NEW removes \in BOOLEAN,
             PreparePlan(p, auth, removes)
      PROVE  Known' /\ \A q \in Plan : rec[q].auth # None => rec'[q] = rec[q]
  <2> DEFINE r == Record(head, auth, removes)
  <2>1. /\ rec[p] \in {NoRecord, r} /\ rec' = [rec EXCEPT ![p] = r]
        /\ eng'.job = "plan" /\ eng'.name = p /\ UNCHANGED <<disk, head, jrn>>
    BY <1>1 DEF PreparePlan
  <2>2. r.auth = auth /\ r.prev = head /\ auth # None /\ NoRecord.auth = None
    BY <1>0 DEF Record, NoRecord
  <2> HIDE DEF r
  <2>3. rec'[p] = r /\ \A q \in Plan : q # p => rec'[q] = rec[q]
    BY <1>0, <2>1
  <2>4. \A q \in Plan : rec[q].auth # None => rec'[q] = rec[q]
    BY <2>1, <2>2, <2>3
  <2>5. \A q \in Plan : rec[q].auth # None => rec'[q].auth # None
    BY <2>4
  <2>6. \A q \in Plan : rec[q].prev \in Plan \cup {None}
    BY <1>0 DEF Records
  <2>7. \A q \in Plan : rec'[q].auth = None => rec'[q] = NoRecord
    BY <2>2, <2>3 DEF Known
  <2>8. \A q \in Plan : rec'[q].auth # None /\ rec'[q].prev # None => rec'[rec'[q].prev].auth # None
    <3> SUFFICES ASSUME NEW q \in Plan, rec'[q].auth # None, rec'[q].prev # None
                 PROVE  rec'[rec'[q].prev].auth # None
      OBVIOUS
    <3>1. CASE q = p
      BY <1>0, <2>2, <2>3, <2>5, <3>1 DEF Known
    <3>2. CASE q # p
      BY <1>0, <2>3, <2>5, <2>6, <3>2 DEF Known
    <3> QED BY <3>1, <3>2
  <2>9. /\ head' # None => rec'[head'].auth # None
        /\ jrn' # None => rec'[jrn'].auth # None
        /\ \A pl \in disk'["plan"] : \A q \in pl : rec'[q].auth # None
    BY <1>0, <2>1, <2>5 DEF Known
  <2>10. eng'.job = "plan" => rec'[eng'.name].auth # None
    BY <2>1, <2>2, <2>3
  <2> QED BY <2>4, <2>7, <2>8, <2>9, <2>10 DEF Known
<1>2. ASSUME rec' = rec, head' = head \/ head' = jrn \/ head' = None,
             jrn' = jrn \/ jrn' = None \/ jrn' \in dir["plan"],
             \A pl \in disk'["plan"] : \A p \in pl : rec[p].auth # None,
             eng'.job = "plan" => eng.job = "plan" /\ eng'.name = eng.name
      PROVE  Known' /\ \A q \in Plan : rec[q].auth # None => rec'[q] = rec[q]
  BY <1>0, <1>2 DEF Known
<1> DEFINE OnDisk == \A pl \in disk'["plan"] : \A p \in pl : rec[p].auth # None
<1>3. UNCHANGED disk => OnDisk
  BY DEF Known
<1>4. ASSUME NEW k \in Pack, CapturePack(k)
      PROVE rec' = rec /\ head' = head /\ jrn' = jrn /\ UNCHANGED disk
            /\ (eng'.job = "plan" => eng' = eng)
  BY <1>4 DEF CapturePack
<1>5. ASSUME NEW o, PublishObject(o) \/ PublishArchive(o)
      PROVE rec' = rec /\ head' = head /\ jrn' = jrn /\ UNCHANGED disk /\ eng'.job = "objects"
  BY <1>5 DEF PublishObject, PublishArchive
<1>6. ASSUME NEW n \in Blob \cup Tree \cup Leaf, PublishMember(n)
      PROVE rec' = rec /\ head' = head /\ jrn' = jrn /\ OnDisk
            /\ (eng'.job = "plan" => eng.job = "plan" /\ eng'.name = eng.name)
  <2>1. AreaOf(n) # "plan"
    BY DEF AreaOf
  <2>2. disk'["plan"] = disk["plan"]
    BY <1>0, <1>6, <2>1 DEF PublishMember, Change
  <2>3. eng'.job = "plan" => eng.job = "plan" /\ eng'.name = eng.name
    BY <1>6, MemberJob DEF Idle
  <2> QED BY <1>6, <2>2, <2>3 DEF PublishMember, Known
<1>7. ASSUME PublishName
      PROVE rec' = rec /\ head' = head /\ jrn' = jrn /\ OnDisk
            /\ (eng'.job = "plan" => eng.job = "plan" /\ eng'.name = eng.name)
  <2>1. eng'.job = eng.job /\ eng'.name = eng.name
    BY <1>7 DEF PublishName, TypeOK, Jobs
  <2>2. eng.job \in {"pack", "plan"} /\ Change(eng.job, dir[eng.job] \cup {eng.name})
    BY <1>7 DEF PublishName
  <2>3. CASE eng.job = "plan"
    BY <1>0, <1>7, <2>1, <2>2, <2>3 DEF PublishName, Change, Known
  <2>4. CASE eng.job = "pack"
    BY <1>0, <1>7, <2>1, <2>2, <2>4 DEF PublishName, Change, Known, Areas
  <2> QED BY <2>2, <2>3, <2>4
<1>8. ASSUME PublishSync
      PROVE rec' = rec /\ head' = head /\ jrn' = jrn /\ OnDisk
            /\ (eng'.job = "plan" => eng.job = "plan" /\ eng'.name = eng.name)
  <2>1. eng'.job = "plan" => eng.job = "plan" /\ eng'.name = eng.name
    BY <1>8 DEF PublishSync, Released, Idle, TypeOK, Jobs
  <2> QED BY <1>0, <1>8, <2>1 DEF PublishSync, Fsync, Known
<1>9. ASSUME NEW p \in Plan, CommitBegin(p)
      PROVE rec' = rec /\ head' = head /\ jrn' \in dir["plan"] /\ UNCHANGED <<disk, eng>>
  BY <1>9 DEF CommitBegin
<1>10. ASSUME CommitStep \/ Recover
       PROVE rec' = rec /\ (head' = head \/ head' = jrn \/ head' = None)
             /\ (jrn' = jrn \/ jrn' = None) /\ UNCHANGED eng /\ OnDisk
  <2>1. disk'["plan"] = disk["plan"]
    BY <1>0, <1>10 DEF CommitStep, CommitGeneration, CommitSync, CommitCatalog, CommitFinish,
       CommitFails, Recover, Change, Fsync, Areas
  <2> QED BY <1>10, <2>1 DEF CommitStep, CommitGeneration, CommitSync, CommitCatalog,
             CommitFinish, CommitFails, Recover, Known
<1>11. ASSUME NEW R, NEW sweep, PruneBegin(R, sweep)
       PROVE rec' = rec /\ head' = head /\ jrn' = jrn /\ UNCHANGED <<disk, eng>>
  BY <1>11 DEF PruneBegin
<1>12. ASSUME PruneStep
       PROVE rec' = rec /\ head' = head /\ jrn' = jrn /\ UNCHANGED eng /\ OnDisk
  <2>1. CASE PruneSync
    BY <1>0, <2>1 DEF PruneSync, Fsync, Known
  <2>2. ASSUME NEW n, PruneUnlink(n) PROVE <1>12!2
    BY <1>0, <2>2 DEF PruneUnlink, Change, Known
  <2> QED BY <1>12, <2>1, <2>2 DEF PruneStep
<1>13. ASSUME Kill
       PROVE rec' = rec /\ head' = head /\ jrn' = jrn /\ UNCHANGED disk
             /\ (eng'.job = "plan" => eng' = eng)
  BY <1>13 DEF Kill, Idle
<1>14. ASSUME PowerLoss
       PROVE rec' = rec /\ head' = head /\ jrn' = jrn /\ OnDisk /\ eng'.job = "idle"
  BY <1>0, <1>14 DEF PowerLoss, Idle, Known
<1>15. ASSUME UNCHANGED vars
       PROVE rec' = rec /\ head' = head /\ jrn' = jrn /\ UNCHANGED <<disk, eng>>
  BY <1>15 DEF vars
<1> HIDE DEF OnDisk
<1> QED
  <2>1. CASE Engine
    BY <2>1, <1>1, <1>2, <1>3, <1>4, <1>5, <1>6, <1>7, <1>8 DEF Engine, OnDisk
  <2>2. CASE CommitStep \/ Recover \/ \E p \in Plan : CommitBegin(p)
    BY <2>2, <1>2, <1>3, <1>9, <1>10 DEF OnDisk
  <2>3. CASE PruneStep \/ \E R \in SUBSET Plan, sweep \in BOOLEAN : PruneBegin(R, sweep)
    BY <2>3, <1>2, <1>3, <1>11, <1>12 DEF OnDisk
  <2>4. CASE Kill \/ PowerLoss \/ UNCHANGED vars
    BY <2>4, <1>2, <1>3, <1>13, <1>14, <1>15 DEF OnDisk
  <2> QED BY <2>1, <2>2, <2>3, <2>4 DEF Next

-----------------------------------------------------------------------------
\* All of the lineage of a written record is written.
LEMMA KnownLineage ==
  ASSUME TypeOK, Known, NEW g \in Plan, rec[g].auth # None, NEW n \in Nat
  PROVE  \A x \in LineageIn(rec, g, n) : x \in Plan /\ rec[x].auth # None
<1>1. PICK f : IsChain(f, rec, g, n)
  BY ChainExists
<1>2. \A i \in 0 .. n - 1 : f[i] = IF i = 0 THEN g ELSE IF f[i - 1] = None THEN None
        ELSE rec[f[i - 1]].prev
  BY <1>1 DEF IsChain
<1> DEFINE Ok(x) == x = None \/ (x \in Plan /\ rec[x].auth # None)
           C == {i \in 0 .. n - 1 : ~Ok(f[i])}
<1>3. C = {}
  <2> SUFFICES ASSUME C # {} PROVE FALSE
    OBVIOUS
  <2>1. PICK m \in C : \A k \in C : m <= k
    <3>1. C \in SUBSET Nat
      OBVIOUS
    <3> HIDE DEF C
    <3> QED BY <3>1, Least
  <2>2. m \in Nat /\ m \in 0 .. n - 1 /\ ~Ok(f[m])
    OBVIOUS
  <2>3. m # 0
    BY <1>2, <2>2
  <2>4. m - 1 \in 0 .. n - 1 /\ m - 1 \notin C
    BY <2>1, <2>2, <2>3
  <2>5. Ok(f[m - 1])
    BY <2>4
  <2>6. f[m] = IF f[m - 1] = None THEN None ELSE rec[f[m - 1]].prev
    BY <1>2, <2>2, <2>3
  <2>7. \A x \in Plan : rec[x].prev \in Plan \cup {None}
    BY DEF TypeOK, Records
  <2>8. Ok(f[m])
    BY <2>5, <2>6, <2>7 DEF Known
  <2> QED BY <2>2, <2>8
<1>4. LineageIn(rec, g, n) = {f[i] : i \in 0 .. n - 1} \ {None}
  BY <1>1, LineageOf
<1> QED BY <1>3, <1>4

\* What follows from the catalog does not change with it.
LEMMA HistoryStable ==
  ASSUME TypeOK, Known, \A p \in Plan : rec[p].auth # None => rec'[p] = rec[p],
         NEW g \in Plan, rec[g].auth # None
  PROVE  /\ Keep(g) \in Nat \ {0} /\ Keep(g)' = Keep(g) /\ Points(g)' = Points(g)
         /\ Pins(g)' = Pins(g)
         /\ Lineage(g, Keep(g))' = Lineage(g, Keep(g))
<1>1. rec'[g] = rec[g] /\ rec[g].auth \in Authority
  BY DEF TypeOK, Records
<1>2. Keep(g) \in Nat \ {0} /\ Keep(g)' = Keep(g) /\ Points(g)' = Points(g) /\ Pins(g)' = Pins(g)
  BY <1>1 DEF Keep, Points, Pins, Authority
<1>3. \A x \in LineageIn(rec, g, Keep(g)) : rec'[x].prev = rec[x].prev
  BY <1>2, KnownLineage
<1>4. LineageIn(rec', g, Keep(g)) = LineageIn(rec, g, Keep(g))
  BY <1>2, <1>3, LineageStable
<1> QED BY <1>2, <1>4, LineageIs

\* A step that touches none of the directories an inspection compares leaves
\* the store as it would be read.
LEMMA NowStable ==
  ASSUME TypeOK, TypeOK', Working, Known, [Next]_vars, ~Touched
  PROVE  Now' = Now
<1>1. dir' = dir /\ head' = head /\ jrn' = jrn
  <2>1. \A a \in Areas : dir'[a] = dir[a]
    BY DEF Touched, SnapshotDirs
  <2>2. dir \in [Areas -> SUBSET Names] /\ dir' \in [Areas -> SUBSET Names]
    BY DEF TypeOK, DirType
  <2> QED BY <2>1, <2>2 DEF Touched
<1> DEFINE W == [head |-> head, gen |-> dir["gen"], plan |-> dir["plan"]]
<1>2. History(W)' = History(W)
  <2>1. CASE head = None
    BY <1>1, <2>1 DEF History
  <2>2. CASE head # None
    <3>1. Lineage(head, Keep(head))' = Lineage(head, Keep(head))
      <4>1. head \in Plan /\ rec[head].auth # None
        BY <2>2 DEF TypeOK, Known
      <4>2. PICK g \in Plan : g = head /\ g = head'
        BY <1>1, <4>1
      <4>3. Lineage(g, Keep(g))' = Lineage(g, Keep(g))
        BY <4>1, <4>2, HistoryStable, KnownStep
      <4>4. Lineage(head, Keep(head))' = LineageIn(rec', g, rec'[g].auth.keep)
            /\ Lineage(g, Keep(g))' = LineageIn(rec', g, rec'[g].auth.keep)
        BY <4>2, LineageIs DEF Keep
      <4>5. Lineage(head, Keep(head)) = Lineage(g, Keep(g))
        BY <4>2
      <4> QED BY <4>3, <4>4, <4>5
    <3> QED BY <1>1, <2>2, <3>1 DEF History
  <2> QED BY <2>1, <2>2
<1>3. FullLineage(W)' = FullLineage(W)
  BY <1>1, <1>2 DEF FullLineage
<1>4. WholePacks' = WholePacks /\ Objects' = Objects
  BY <1>1 DEF WholePacks, Objects
<1> QED BY <1>1, <1>3, <1>4 DEF Now

-----------------------------------------------------------------------------
\* The inspection.

Parts == {"journal", "catalog", "lineage", "plan", "gen", "blob", "pack", "obj"}

\* What was read as a part of the store is that part of the store now.
Same(part, w, now) ==
  /\ part = "journal" => w.jrn = now.jrn
  /\ part = "catalog" => w.head = now.head
  /\ part = "lineage" => w.lineage = now.lineage
  /\ part = "plan" => w.plan = now.plan
  /\ part = "gen" => w.gen = now.gen
  /\ part = "blob" => w.blob = now.blob
  /\ part = "pack" => w.pack = now.pack /\ w.whole = now.whole
  /\ part = "obj" => w.obj = now.obj

\* w is a function.
IsRecord(w) == w = [f \in DOMAIN w |-> w[f]]

InsType ==
  /\ kinds \subseteq Kinds
  /\ DOMAIN ins = DOMAIN NoInspection /\ DOMAIN ins.seen = DOMAIN Unread
  /\ IsRecord(ins.seen)
  /\ ins.kind \in Kinds \cup {"none"} /\ ins.at \in Nat
  /\ (~ins.seen.limited => ins.seen.limited = FALSE) /\ (ins.seen.limited => ins.kind = "fsck")
  /\ ins.kind = "none" => ins = NoInspection
  /\ ins # NoInspection /\ ~ins.moved => ins.at > 0

\* An inspection that nothing has moved under, and that has hit no limit, has
\* read what is there.
Current(now) ==
  ins # NoInspection /\ ~ins.moved /\ ComparesDirectories(ins.kind) /\ ~ins.seen.limited =>
    \A i \in DOMAIN Reads(ins.kind) : i < ins.at => Same(Reads(ins.kind)[i], ins.seen, now)

\* Every inspection reads parts of the store, and the lineages right after the
\* catalog they follow from.
LEMMA ReadsOf ==
  ASSUME NEW kind \in Kinds
  PROVE  /\ Len(Reads(kind)) \in Nat /\ DOMAIN Reads(kind) = 1 .. Len(Reads(kind))
         /\ \A i \in DOMAIN Reads(kind) :
              /\ Reads(kind)[i] \in Parts
              /\ Reads(kind)[i] = "lineage" => /\ i - 1 \in DOMAIN Reads(kind)
                                             /\ Reads(kind)[i - 1] = "catalog"
<1>1. CASE kind = "fsck"
  <2> DEFINE s == <<"journal", "catalog", "lineage", "plan", "gen", "blob", "pack", "obj">>
  <2>1. Reads(kind) = s
    BY <1>1 DEF Reads
  <2>2. Len(s) = 8 /\ DOMAIN s = 1 .. 8
    OBVIOUS
  <2>3. \A i \in 1 .. 8 : i \in {1, 2, 3, 4, 5, 6, 7, 8}
    OBVIOUS
  <2>4. s[1] = "journal" /\ s[2] = "catalog" /\ s[3] = "lineage" /\ s[4] = "plan" /\ s[5] = "gen"
        /\ s[6] = "blob" /\ s[7] = "pack" /\ s[8] = "obj"
    OBVIOUS
  <2> HIDE DEF s
  <2> QED BY <2>1, <2>2, <2>3, <2>4 DEF Parts
<1>2. CASE kind = "status"
  <2> DEFINE s == <<"journal", "catalog", "gen", "plan", "obj">>
  <2>1. Reads(kind) = s
    BY <1>2 DEF Reads
  <2>2. Len(s) = 5 /\ DOMAIN s = 1 .. 5
    OBVIOUS
  <2>3. s[1] = "journal" /\ s[2] = "catalog" /\ s[3] = "gen" /\ s[4] = "plan" /\ s[5] = "obj"
    OBVIOUS
  <2> HIDE DEF s
  <2> QED BY <2>1, <2>2, <2>3 DEF Parts
<1>3. CASE kind \in {"namespace", "history", "inventory", "details"}
  <2>1. Reads(kind) = <<"catalog", "gen", "plan">>
    BY <1>3 DEF Reads
  <2> QED BY <2>1 DEF Parts
<1>4. CASE kind \in {"snapshot", "tree", "objects"}
  BY <1>4 DEF Reads, Parts
<1> QED BY <1>1, <1>2, <1>3, <1>4 DEF Kinds

\* Reading one part gives that part, and leaves the others as they were read.
LEMMA ReadingIs ==
  ASSUME NEW w, DOMAIN w = DOMAIN Unread, NEW part \in Parts
  PROVE  /\ DOMAIN Reading(part, w) = DOMAIN Unread /\ Reading(part, w).limited = w.limited
         /\ IsRecord(Reading(part, w))
         /\ (part = "lineage" => w.head = head) => Same(part, Reading(part, w), Now)
         /\ \A q \in Parts \ {part} : Same(q, w, Now) => Same(q, Reading(part, w), Now)
<1>0. DOMAIN w = {"jrn", "head", "lineage", "plan", "gen",
                 "blob", "pack", "whole", "obj", "limited"}
  BY DEF Unread
<1>00. /\ Now.jrn = jrn /\ Now.head = head /\ Now.plan = dir["plan"] /\ Now.gen = dir["gen"]
       /\ Now.blob = dir["blob"] /\ Now.pack = dir["pack"] /\ Now.whole = WholePacks
       /\ Now.obj = Objects
  BY DEF Now
<1> DEFINE r == Reading(part, w)
<1> SUFFICES /\ DOMAIN r = DOMAIN Unread /\ r.limited = w.limited
             /\ IsRecord(r)
             /\ (part = "lineage" => w.head = head) => Same(part, r, Now)
             /\ \A q \in Parts \ {part} : Same(q, w, Now) => Same(q, r, Now)
  OBVIOUS
<1>1. CASE part = "journal"
  <2>1. r = [w EXCEPT !.jrn = jrn]
    BY <1>1 DEF Reading, ReadJournal
  <2> HIDE DEF r
  <2>2. /\ r.head = w.head /\ r.lineage = w.lineage /\ r.plan = w.plan /\ r.gen = w.gen
        /\ r.blob = w.blob
        /\ r.pack = w.pack /\ r.whole = w.whole /\ r.obj = w.obj /\ r.limited = w.limited
        /\ r.jrn = Now.jrn /\ DOMAIN r = DOMAIN w
    BY <1>0, <1>00, <2>1
  <2>3. IsRecord(r)
    BY <2>1 DEF IsRecord
  <2> QED BY <1>0, <1>1, <2>2, <2>3 DEF Same, Parts, Unread
<1>2. CASE part = "catalog"
  <2>1. r = [w EXCEPT !.head = head]
    BY <1>2 DEF Reading, ReadCatalog
  <2> HIDE DEF r
  <2>2. /\ r.jrn = w.jrn /\ r.lineage = w.lineage /\ r.plan = w.plan /\ r.gen = w.gen
        /\ r.blob = w.blob
        /\ r.pack = w.pack /\ r.whole = w.whole /\ r.obj = w.obj /\ r.limited = w.limited
        /\ r.head = Now.head /\ DOMAIN r = DOMAIN w
    BY <1>0, <1>00, <2>1
  <2>3. IsRecord(r)
    BY <2>1 DEF IsRecord
  <2> QED BY <1>0, <1>2, <2>2, <2>3 DEF Same, Parts, Unread
<1>3. CASE part = "lineage"
  <2> DEFINE v == [w EXCEPT !.gen = dir["gen"], !.plan = dir["plan"]]
             z == [head |-> head, gen |-> dir["gen"], plan |-> dir["plan"]]
  <2>1. r = [w EXCEPT !.lineage = FullLineage(v)]
    BY <1>3 DEF Reading, ReadLineage
  <2>2. w.head = head => v.head = z.head /\ v.gen = z.gen /\ v.plan = z.plan
    BY <1>0, <1>3
  <2>3. w.head = head => FullLineage(v) = FullLineage(z)
    <3> HIDE DEF v, z
    <3> QED BY <2>2 DEF FullLineage, History
  <2>4. Now.lineage = FullLineage(z)
    BY DEF Now
  <2> HIDE DEF v, z
  <2>5. /\ r.jrn = w.jrn /\ r.head = w.head /\ r.plan = w.plan /\ r.gen = w.gen /\ r.blob = w.blob
        /\ r.pack = w.pack /\ r.whole = w.whole /\ r.obj = w.obj /\ r.limited = w.limited
        /\ r.lineage = FullLineage(v) /\ DOMAIN r = DOMAIN w
    <3> HIDE DEF r
    <3> QED BY <1>0, <2>1
  <2>6. IsRecord(r)
    <3> HIDE DEF r
    <3> QED BY <2>1 DEF IsRecord
  <2> HIDE DEF r
  <2> QED BY <1>0, <1>3, <2>3, <2>4, <2>5, <2>6 DEF Same, Parts, Unread
<1>4. CASE part = "plan"
  <2>1. r = [w EXCEPT !.plan = dir["plan"]]
    BY <1>4 DEF Reading, ReadPlans
  <2> HIDE DEF r
  <2>2. /\ r.jrn = w.jrn /\ r.head = w.head /\ r.lineage = w.lineage /\ r.gen = w.gen
        /\ r.blob = w.blob
        /\ r.pack = w.pack /\ r.whole = w.whole /\ r.obj = w.obj /\ r.limited = w.limited
        /\ r.plan = Now.plan /\ DOMAIN r = DOMAIN w
    BY <1>0, <1>00, <2>1
  <2>3. IsRecord(r)
    BY <2>1 DEF IsRecord
  <2> QED BY <1>0, <1>4, <2>2, <2>3 DEF Same, Parts, Unread
<1>5. CASE part = "gen"
  <2>1. r = [w EXCEPT !.gen = dir["gen"]]
    BY <1>5 DEF Reading, ReadGenerations
  <2> HIDE DEF r
  <2>2. /\ r.jrn = w.jrn /\ r.head = w.head /\ r.lineage = w.lineage /\ r.plan = w.plan
        /\ r.blob = w.blob
        /\ r.pack = w.pack /\ r.whole = w.whole /\ r.obj = w.obj /\ r.limited = w.limited
        /\ r.gen = Now.gen /\ DOMAIN r = DOMAIN w
    BY <1>0, <1>00, <2>1
  <2>3. IsRecord(r)
    BY <2>1 DEF IsRecord
  <2> QED BY <1>0, <1>5, <2>2, <2>3 DEF Same, Parts, Unread
<1>6. CASE part = "blob"
  <2>1. r = [w EXCEPT !.blob = dir["blob"]]
    BY <1>6 DEF Reading, ReadBlobs
  <2> HIDE DEF r
  <2>2. /\ r.jrn = w.jrn /\ r.head = w.head /\ r.lineage = w.lineage /\ r.plan = w.plan
        /\ r.gen = w.gen
        /\ r.pack = w.pack /\ r.whole = w.whole /\ r.obj = w.obj /\ r.limited = w.limited
        /\ r.blob = Now.blob /\ DOMAIN r = DOMAIN w
    BY <1>0, <1>00, <2>1
  <2>3. IsRecord(r)
    BY <2>1 DEF IsRecord
  <2> QED BY <1>0, <1>6, <2>2, <2>3 DEF Same, Parts, Unread
<1>7. CASE part = "pack"
  <2>1. r = [w EXCEPT !.pack = dir["pack"], !.whole = WholePacks]
    BY <1>7 DEF Reading, ReadPacks
  <2> HIDE DEF r
  <2>2. /\ r.jrn = w.jrn /\ r.head = w.head /\ r.lineage = w.lineage /\ r.plan = w.plan
        /\ r.gen = w.gen
        /\ r.blob = w.blob /\ r.obj = w.obj /\ r.limited = w.limited /\ r.pack = Now.pack
        /\ r.whole = Now.whole /\ DOMAIN r = DOMAIN w
    BY <1>0, <1>00, <2>1
  <2>3. IsRecord(r)
    BY <2>1 DEF IsRecord
  <2> QED BY <1>0, <1>7, <2>2, <2>3 DEF Same, Parts, Unread
<1>8. CASE part = "obj"
  <2>1. r = [w EXCEPT !.obj = Objects]
    BY <1>8 DEF Reading, ReadObjects
  <2> HIDE DEF r
  <2>2. /\ r.jrn = w.jrn /\ r.head = w.head /\ r.lineage = w.lineage /\ r.plan = w.plan
        /\ r.gen = w.gen
        /\ r.blob = w.blob /\ r.pack = w.pack /\ r.whole = w.whole /\ r.limited = w.limited
        /\ r.obj = Now.obj /\ DOMAIN r = DOMAIN w
    BY <1>0, <1>00, <2>1
  <2>3. IsRecord(r)
    BY <2>1 DEF IsRecord
  <2> QED BY <1>0, <1>8, <2>2, <2>3 DEF Same, Parts, Unread
<1> QED BY <1>1, <1>2, <1>3, <1>4, <1>5, <1>6, <1>7, <1>8 DEF Parts

-----------------------------------------------------------------------------
\* The steps.

\* The inductive invariant: what has been read is current.
InsInv == TypeOK /\ Working /\ Known /\ InsType /\ Current(Now)

\* No inspection has read nothing.
LEMMA Shapes ==
  /\ DOMAIN NoInspection = {"kind", "of", "at", "moved", "seen"}
  /\ NoInspection.kind = "none" /\ NoInspection.at = 0 /\ NoInspection.moved = FALSE
  /\ NoInspection.seen = Unread /\ Unread.limited = FALSE /\ "none" \notin Kinds
  /\ IsRecord(Unread)
BY DEF NoInspection, Unread, Kinds, IsRecord

\* The invariant holds at first.
LEMMA InsStart == InsInit => InsInv
<1> SUFFICES ASSUME InsInit PROVE InsInv
  OBVIOUS
<1>1. TypeOK /\ Known
  BY TypeInit, KnownInit DEF InsInit
<1>2. Working
  BY RetentionConstants DEF InsInit, Init, Working, Idle, NoPrune
<1>3. ins = NoInspection /\ kinds \subseteq Kinds
  BY InspectionConstants DEF InsInit
<1> QED BY <1>1, <1>2, <1>3, Shapes DEF InsInv, InsType, Current

\* Somebody else's removal keeps the types, is nobody's work, and is noticed.
LEMMA LoseIs ==
  ASSUME TypeOK, Working, Known, NEW area \in Areas, NEW n, Lose(area, n)
  PROVE  TypeOK' /\ Working' /\ Known' /\ Touched /\ Notice /\ UNCHANGED kinds
         /\ rec' = rec
<1>1. /\ n \in dir[area] /\ dir' = [dir EXCEPT ![area] = @ \ {n}]
      /\ disk' = [disk EXCEPT ![area] = {dir'[area]}]
      /\ UNCHANGED <<rec, head, jrn, eng, captured, com, pru, doomed, early, kills, cuts,
                     kinds>> /\ Notice
  BY DEF Lose
<1>2. dir \in [Areas -> SUBSET Names] /\ disk \in [Areas -> SUBSET SUBSET Names]
  BY DEF TypeOK, DirType
<1>3. /\ dir'[area] = dir[area] \ {n} /\ disk'[area] = {dir'[area]}
      /\ \A a \in Areas \ {area} : dir'[a] = dir[a] /\ disk'[a] = disk[a]
      /\ dir' \in [Areas -> SUBSET Names] /\ disk' \in [Areas -> SUBSET SUBSET Names]
  BY <1>1, <1>2
<1>4. DirType'
  BY <1>1, <1>3 DEF TypeOK, DirType
<1>5. TypeOK'
  BY <1>1, <1>4 DEF TypeOK
<1>6. Working'
  BY <1>1 DEF Working
<1>7. \A pl \in disk'["plan"] : \A p \in pl : rec[p].auth # None
  BY <1>3 DEF TypeOK, DirType, Known, Areas
<1>8. Known'
  BY <1>1, <1>7 DEF Known
<1>9. Touched
  BY <1>1, <1>3 DEF Touched, SnapshotDirs
<1> QED BY <1>1, <1>5, <1>6, <1>8, <1>9

\* An inspection under which the store changes has moved, or never compares.
LEMMA NoticeIs ==
  ASSUME InsType, Current(Now), Notice, UNCHANGED kinds, Touched \/ Now' = Now
  PROVE  InsType' /\ Current(Now)'
<1>0. CASE ins' = NoInspection
  BY <1>0, Shapes DEF InsType, Current
<1>1. CASE cuts' = cuts /\ Touched /\ ins # NoInspection /\ ComparesDirectories(ins.kind)
  <2>1. ins' = [NoInspection EXCEPT !.kind = ins.kind, !.moved = TRUE]
    BY <1>1 DEF Notice
  <2>2. DOMAIN ins' = DOMAIN NoInspection /\ ins'.kind = ins.kind /\ ins'.moved = TRUE
        /\ ins'.at = 0 /\ ins'.seen = Unread
    BY <2>1, Shapes
  <2>3. ins.kind # "none" /\ ins' # NoInspection
    BY <1>1, <2>2, Shapes DEF InsType
  <2> QED BY <2>2, <2>3, Shapes DEF InsType, Current
<1>2. CASE ins' = ins /\ (ins = NoInspection \/ ~ComparesDirectories(ins.kind))
  BY <1>2 DEF InsType, Current
<1>3. CASE ins' = ins /\ Now' = Now
  <2>1. Current(Now)'
    <3> DEFINE now == Now
    <3>1. Current(now) /\ now' = now
      BY <1>3
    <3> HIDE DEF now
    <3> QED BY <1>3, <3>1 DEF Current, now
  <2> QED BY <1>3, <2>1 DEF InsType
<1> QED BY <1>0, <1>1, <1>2, <1>3 DEF Notice

\* A part that is read is as it is now, and the parts read before it still are.
LEMMA ReadIs ==
  ASSUME InsType, Current(Now), Read
  PROVE  InsType' /\ Current(Now)'
<1> DEFINE part == Reads(ins.kind)[ins.at]
           w == ins.seen
           r == Reading(part, w)
<1>1. /\ ins # NoInspection /\ ~ins.moved /\ ~(ins.at > Len(Reads(ins.kind)))
      /\ ins' = [ins EXCEPT !.at = @ + 1, !.seen = r]
      /\ UNCHANGED <<vars, kinds>>
  BY DEF Read, ReadsDone
<1>2. ins.kind \in Kinds /\ ins.at \in DOMAIN Reads(ins.kind)
  BY <1>1, ReadsOf DEF InsType
<1>3. part \in Parts
  BY <1>2, ReadsOf
<1>4. DOMAIN r = DOMAIN Unread /\ r.limited = w.limited /\ IsRecord(r)
  BY <1>3, ReadingIs DEF InsType
<1>5. /\ DOMAIN ins' = DOMAIN ins /\ ins'.kind = ins.kind /\ ins'.moved = ins.moved
      /\ ins'.at = ins.at + 1 /\ ins'.seen = r
  BY <1>1, Shapes DEF InsType
<1>6. ins'.kind # "none" /\ ins' # NoInspection
  BY <1>2, <1>5, Shapes
<1> HIDE DEF r
<1>7. InsType'
  BY <1>1, <1>2, <1>4, <1>5, <1>6 DEF InsType
<1>8. Now' = Now
  BY <1>1 DEF vars, Now, WholePacks, Objects, FullLineage, History, Lineage, Keep
<1>9. Current(Now)'
  <2> SUFFICES ASSUME ComparesDirectories(ins.kind), ~w.limited,
                      NEW i \in DOMAIN Reads(ins.kind), i < ins.at + 1
               PROVE  Same(Reads(ins.kind)[i], r, Now)
    BY <1>4, <1>5, <1>8 DEF Current
  <2>1. \A j \in DOMAIN Reads(ins.kind) : j < ins.at => Same(Reads(ins.kind)[j], w, Now)
    BY <1>1 DEF Current
  <2>2. part = "lineage" => w.head = head
    <3> SUFFICES ASSUME part = "lineage" PROVE w.head = head
      OBVIOUS
    <3>1. ins.at - 1 \in DOMAIN Reads(ins.kind) /\ Reads(ins.kind)[ins.at - 1] = "catalog"
      BY <1>2, ReadsOf
    <3>2. Same("catalog", w, Now)
      BY <2>1, <3>1 DEF InsType
    <3> QED BY <3>2 DEF Same, Now
  <2>3. Same(part, r, Now) /\ \A q \in Parts \ {part} : Same(q, w, Now) => Same(q, r, Now)
    BY <1>3, <2>2, ReadingIs DEF InsType, r
  <2>4. CASE i = ins.at
    BY <2>3, <2>4
  <2>5. CASE i < ins.at
    <3>1. Reads(ins.kind)[i] \in Parts
      BY <1>2, ReadsOf
    <3> QED BY <2>1, <2>3, <2>5, <3>1
  <2> QED BY <1>2, <2>4, <2>5, ReadsOf DEF InsType
<1> QED BY <1>7, <1>9

\* The invariant is kept by the processes of the store, by somebody else's
\* removal, and by every step of an inspection.
LEMMA InsStep ==
  ASSUME InsInv, [InsNext]_<<vars, insVars>>
  PROVE  InsInv'
<1> USE DEF InsInv
<1>1. ASSUME StoreStep PROVE InsInv'
  <2>1. TypeOK' /\ Working' /\ Known'
    BY <1>1, TypeStep, WorkingStep, KnownStep DEF StoreStep
  <2>2. Touched \/ Now' = Now
    BY <1>1, <2>1, NowStable DEF StoreStep
  <2> QED BY <1>1, <2>1, <2>2, NoticeIs DEF StoreStep
<1>2. ASSUME NEW area \in Areas, NEW n, Lose(area, n) PROVE InsInv'
  BY <1>2, LoseIs, NoticeIs
<1>3. ASSUME UNCHANGED vars PROVE TypeOK' /\ Working' /\ Known' /\ Now' = Now
  <2>1. TypeOK' /\ Working' /\ Known'
    BY <1>3, TypeStep, WorkingStep, KnownStep
  <2> QED BY <1>3, <2>1 DEF vars, Now, WholePacks, Objects, FullLineage, History, Lineage, Keep
<1>4. ASSUME NEW kind \in kinds, NEW of, Open(kind, of) PROVE InsInv'
  <2>1. /\ ins' = [NoInspection EXCEPT !.kind = kind, !.of = of, !.at = 1]
        /\ UNCHANGED <<vars, kinds>> /\ kind \in Kinds
    BY <1>4 DEF Open, InsType
  <2>2. DOMAIN ins' = DOMAIN NoInspection /\ ins'.kind = kind /\ ins'.moved = FALSE
        /\ ins'.at = 1 /\ ins'.seen = Unread
    BY <2>1, Shapes
  <2>3. InsType'
    BY <2>1, <2>2, Shapes DEF InsType
  <2>4. \A i \in DOMAIN Reads(kind) : ~(i < 1)
    BY <2>1, ReadsOf
  <2> QED BY <1>3, <2>1, <2>2, <2>3, <2>4 DEF Current
<1>5. ASSUME Read PROVE InsInv'
  BY <1>3, <1>5, ReadIs DEF Read
<1>6. ASSUME HitLimit PROVE InsInv'
  <2> DEFINE x == [Unread EXCEPT !.jrn = ins.seen.jrn, !.head = ins.seen.head, !.limited = TRUE]
  <2>1. /\ ins.kind = "fsck" /\ UNCHANGED <<vars, kinds>>
        /\ ins' = [ins EXCEPT !.at = Len(Reads("fsck")) + 1, !.seen = x]
    BY <1>6 DEF HitLimit
  <2>2. DOMAIN x = DOMAIN Unread /\ x.limited = TRUE /\ IsRecord(x)
    BY DEF Unread, IsRecord
  <2> HIDE DEF x
  <2>3. /\ DOMAIN ins' = DOMAIN NoInspection /\ ins'.kind = "fsck" /\ ins'.moved = ins.moved
        /\ ins'.at = Len(Reads("fsck")) + 1 /\ ins'.seen = x
    BY <2>1, Shapes DEF InsType
  <2>4. Len(Reads("fsck")) \in Nat
    BY ReadsOf DEF Kinds
  <2>5. InsType'
    BY <2>1, <2>2, <2>3, <2>4 DEF InsType, Kinds
  <2> QED BY <1>3, <2>1, <2>2, <2>3, <2>5 DEF Current
<1>7. ASSUME Finish PROVE InsInv'
  BY <1>3, <1>7, Shapes DEF Finish, InsType, Current
<1>8. ASSUME UNCHANGED <<vars, insVars>> PROVE InsInv'
  <2>1. UNCHANGED vars /\ ins' = ins /\ kinds' = kinds
    BY <1>8 DEF insVars
  <2>2. Now' = Now
    BY <1>3, <2>1
  <2>3. Current(Now)'
    <3> DEFINE now == Now
    <3>1. Current(now) /\ now' = now
      BY <2>2
    <3> HIDE DEF now
    <3> QED BY <2>1, <3>1 DEF Current, now
  <2> QED BY <1>3, <2>1, <2>3 DEF InsType
<1> QED BY <1>1, <1>2, <1>4, <1>5, <1>6, <1>7, <1>8 DEF InsNext

-----------------------------------------------------------------------------
\* Records that were committed before they were synced.

\* None of those that are lost has been read by the inspection under way: a loss
\* of power ends an inspection.
SeenSynced == ins.seen.plan \cap (early["plan"] \ dir["plan"]) = {}

\* Only a loss of power loses one.
LEMMA EarlyStep ==
  ASSUME TypeOK, Working, [Next]_vars, cuts' = cuts
  PROVE  early'["plan"] \ dir'["plan"] \subseteq early["plan"] \ dir["plan"]
<1>0. "plan" \in Areas
  BY DEF Areas
<1>1. CASE UNCHANGED <<dir, early>>
  BY <1>1
<1>2. ASSUME NEW a \in Areas, NEW s, Change(a, s)
      PROVE  early'["plan"] \ dir'["plan"] \subseteq early["plan"] \ dir["plan"]
  BY <1>0, <1>2, LeftChange
<1>3. ASSUME NEW a \in Areas, Fsync(a)
      PROVE  early'["plan"] \ dir'["plan"] \subseteq early["plan"] \ dir["plan"]
  BY <1>0, <1>3, LeftFsync
<1>4. ASSUME NEW p \in Plan, CommitBegin(p)
      PROVE  early'["plan"] \ dir'["plan"] \subseteq early["plan"] \ dir["plan"]
  <2>1. dir' = dir /\ early'["plan"] = early["plan"] \cup Volatile(p, "plan") /\ p \in dir["plan"]
    BY <1>0, <1>4 DEF CommitBegin
  <2>2. Volatile(p, "plan") \subseteq {p}
    BY DEF Volatile, Loads
  <2> QED BY <2>1, <2>2
<1>5. ~PowerLoss
  BY DEF PowerLoss, TypeOK
<1>6. CASE Engine
  <2>1. ASSUME NEW n \in Blob \cup Tree \cup Leaf, PublishMember(n)
        PROVE  early'["plan"] \ dir'["plan"] \subseteq early["plan"] \ dir["plan"]
    <3>1. AreaOf(n) \in Areas
      BY DEF AreaOf, Areas
    <3>2. UNCHANGED <<dir, early>> \/ Change(AreaOf(n), dir[AreaOf(n)] \cup {n})
      BY <2>1 DEF PublishMember
    <3> QED BY <1>1, <1>2, <3>1, <3>2
  <2>2. CASE PublishName
    <3>1. eng.job \in Areas /\ Change(eng.job, dir[eng.job] \cup {eng.name})
      BY <2>2 DEF PublishName, Areas
    <3> QED BY <1>2, <3>1
  <2>3. CASE PublishSync
    <3>1. eng.dirty \in Areas /\ Fsync(eng.dirty)
      BY <2>3 DEF PublishSync, TypeOK, Jobs, Areas
    <3> QED BY <1>3, <3>1
  <2> QED BY <1>1, <1>6, <2>1, <2>2, <2>3
       DEF Engine, CapturePack, PreparePlan, PublishObject, PublishArchive
<1>7. CASE CommitStep \/ Recover \/ Kill \/ UNCHANGED vars
  <2>1. \/ UNCHANGED <<dir, early>>
        \/ "gen" \in Areas /\ (Change("gen", dir["gen"] \cup {jrn}) \/ Fsync("gen"))
    BY <1>7 DEF CommitStep, CommitGeneration, CommitSync, CommitCatalog, CommitFinish, CommitFails,
       Recover, Kill, vars, Areas
  <2> QED BY <1>1, <1>2, <1>3, <2>1
<1>8. CASE PruneStep \/ \E R \in SUBSET Plan, sweep \in BOOLEAN : PruneBegin(R, sweep)
  <2>1. ASSUME NEW n, PruneUnlink(n)
        PROVE  early'["plan"] \ dir'["plan"] \subseteq early["plan"] \ dir["plan"]
    <3>1. pru.on \in Areas /\ Change(pru.on, dir[pru.on] \ {n})
      BY <2>1 DEF PruneUnlink, TypeOK, Prunes
    <3> QED BY <1>2, <3>1
  <2>2. CASE PruneSync
    <3>1. pru.on \in Areas /\ (UNCHANGED <<dir, early>> \/ Fsync(pru.on))
      BY <2>2 DEF PruneSync, TypeOK, Prunes
    <3> QED BY <1>1, <1>3, <3>1
  <2> QED BY <1>1, <1>8, <2>1, <2>2 DEF PruneStep, PruneBegin
<1> QED BY <1>4, <1>5, <1>6, <1>7, <1>8 DEF Next

\* At first nothing has been read.
LEMMA SeenInit == InsInit => SeenSynced
BY DEF InsInit, NoInspection, Unread, SeenSynced

\* It is kept until somebody else removes something.
LEMMA SeenStep ==
  ASSUME InsInv, SeenSynced, [InsNext]_<<vars, insVars>>, ~lost'
  PROVE  SeenSynced'
<1>0. Unread.plan = {} /\ NoInspection.seen = Unread
  BY DEF Unread, NoInspection
<1>1. CASE StoreStep
  <2>1. CASE ins' = NoInspection
    BY <1>0, <2>1 DEF SeenSynced
  <2>2. CASE cuts' = cuts /\ ins'.seen.plan \subseteq ins.seen.plan
    <3>1. early'["plan"] \ dir'["plan"] \subseteq early["plan"] \ dir["plan"]
      BY <1>1, <2>2, EarlyStep DEF StoreStep, InsInv
    <3> QED BY <2>2, <3>1 DEF SeenSynced
  <2>3. ins' = [NoInspection EXCEPT !.kind = ins.kind, !.moved = TRUE] => ins'.seen.plan = {}
    BY <1>0 DEF NoInspection
  <2> QED BY <1>1, <2>1, <2>2, <2>3 DEF StoreStep, Notice
<1>2. ASSUME NEW kind, NEW of, Open(kind, of) PROVE SeenSynced'
  <2>1. ins'.seen = Unread
    BY <1>0, <1>2 DEF Open, NoInspection
  <2> QED BY <1>0, <2>1 DEF SeenSynced
<1>3. CASE Read
  <2> DEFINE part == Reads(ins.kind)[ins.at]
             w == ins.seen
  <2>1. /\ ins # NoInspection /\ ~ins.moved /\ ~(ins.at > Len(Reads(ins.kind)))
        /\ ins' = [ins EXCEPT !.at = @ + 1, !.seen = Reading(part, w)] /\ UNCHANGED vars
    BY <1>3 DEF Read, ReadsDone
  <2>2. ins.kind \in Kinds /\ ins.at \in DOMAIN Reads(ins.kind)
    BY <2>1, ReadsOf DEF InsInv, InsType
  <2>3. part \in Parts
    BY <2>2, ReadsOf
  <2>4. ins'.seen = Reading(part, w)
    BY <2>1, Shapes DEF InsInv, InsType
  <2>5. DOMAIN w = DOMAIN Unread
    BY DEF InsInv, InsType
  <2> HIDE DEF part, w
  <2>6. Reading(part, w).plan \in {w.plan, dir["plan"]}
    <3>1. {"jrn", "head", "lineage", "plan", "gen", "blob", "pack", "whole", "obj"}
            \subseteq DOMAIN w
      BY <2>5 DEF Unread
    <3> QED BY <2>3, <3>1 DEF Parts, Reading, ReadJournal, ReadCatalog, ReadLineage, ReadPlans,
               ReadGenerations, ReadBlobs, ReadPacks, ReadObjects
  <2>7. dir' = dir /\ early' = early
    BY <2>1 DEF vars
  <2> QED BY <2>4, <2>6, <2>7 DEF SeenSynced, w
<1>4. CASE HitLimit
  <2> DEFINE x == [Unread EXCEPT !.jrn = ins.seen.jrn, !.head = ins.seen.head, !.limited = TRUE]
  <2>1. x.plan = {}
    BY DEF Unread
  <2> HIDE DEF x
  <2>2. ins' = [ins EXCEPT !.at = Len(Reads("fsck")) + 1, !.seen = x]
    BY <1>4 DEF HitLimit, x
  <2>3. ins'.seen = x
    BY <2>2, Shapes DEF InsInv, InsType
  <2> QED BY <2>1, <2>3 DEF SeenSynced
<1>5. CASE Finish
  BY <1>0, <1>5 DEF Finish, SeenSynced
<1>6. CASE UNCHANGED <<vars, insVars>>
  BY <1>6 DEF SeenSynced, vars, insVars
<1>7. ASSUME NEW area, NEW n, Lose(area, n) PROVE FALSE
  BY <1>7 DEF Lose
<1> QED BY <1>1, <1>2, <1>3, <1>4, <1>5, <1>6, <1>7 DEF InsNext

-----------------------------------------------------------------------------
\* What an answer rests on.

\* The store as it is, field by field.
LEMMA NowFields ==
  /\ Now.jrn = jrn /\ Now.head = head /\ Now.plan = dir["plan"] /\ Now.gen = dir["gen"]
  /\ Now.blob = dir["blob"] /\ Now.pack = dir["pack"] /\ Now.whole = WholePacks
  /\ Now.obj = Objects /\ Now.limited = FALSE /\ DOMAIN Now = DOMAIN Unread
BY DEF Now, Unread

\* Every part has been read and is as it was read, or a status has found a
\* journal that is still there.
LEMMA AnswerIsCurrent ==
  ASSUME InsInv, Answered, ComparesDirectories(ins.kind), ~ins.seen.limited
  PROVE  /\ ins.kind \in Kinds
         /\ \/ \A i \in DOMAIN Reads(ins.kind) : Same(Reads(ins.kind)[i], ins.seen, Now)
            \/ ins.kind = "status" /\ ins.seen.jrn # None /\ ins.seen.jrn = Now.jrn
<1>1. ins # NoInspection /\ ReadsDone /\ ~Stale
  BY DEF Answered, Finish
<1>2. ins.kind \in Kinds /\ ~ins.moved
  BY <1>1 DEF InsInv, InsType, Stale
<1>3. CASE ins.at > Len(Reads(ins.kind))
  <2>1. \A i \in DOMAIN Reads(ins.kind) : i < ins.at
    BY <1>2, <1>3, ReadsOf DEF InsInv, InsType
  <2> QED BY <1>1, <1>2, <2>1 DEF InsInv, Current
<1>4. CASE ins.kind = "status" /\ ins.at > 1 /\ ins.seen.jrn # None
  <2>1. 1 \in DOMAIN Reads("status") /\ Reads("status")[1] = "journal"
    BY DEF Reads
  <2>2. Same("journal", ins.seen, Now)
    BY <1>1, <1>2, <1>4, <2>1 DEF InsInv, InsType, Current
  <2> QED BY <1>2, <1>4, <2>2 DEF Same
<1> QED BY <1>1, <1>2, <1>3, <1>4 DEF ReadsDone, StoppedByJournal

\* An fsck that is not stale has seen the store.
LEMMA FsckSees ==
  ASSUME InsInv, Answered, ins.kind = "fsck", ~ins.seen.limited
  PROVE  ins.seen = Now
<1>1. \A i \in DOMAIN Reads("fsck") : Same(Reads("fsck")[i], ins.seen, Now)
  BY AnswerIsCurrent DEF ComparesDirectories
<1>2. \A q \in Parts : Same(q, ins.seen, Now)
  <2> DEFINE s == <<"journal", "catalog", "lineage", "plan", "gen", "blob", "pack", "obj">>
  <2>1. Reads("fsck") = s /\ DOMAIN s = 1 .. 8
    BY DEF Reads
  <2>2. s[1] = "journal" /\ s[2] = "catalog" /\ s[3] = "lineage" /\ s[4] = "plan" /\ s[5] = "gen"
        /\ s[6] = "blob" /\ s[7] = "pack" /\ s[8] = "obj"
    OBVIOUS
  <2>3. \A i \in {1, 2, 3, 4, 5, 6, 7, 8} : i \in 1 .. 8
    OBVIOUS
  <2> HIDE DEF s
  <2> QED BY <1>1, <2>1, <2>2, <2>3 DEF Parts
<1>3. ins.seen.limited = FALSE /\ DOMAIN ins.seen = DOMAIN Unread
  BY DEF InsInv, InsType
<1> DEFINE w == ins.seen
           n == Now
<1>4. /\ w.jrn = n.jrn /\ w.head = n.head /\ w.lineage = n.lineage /\ w.plan = n.plan
      /\ w.gen = n.gen /\ w.blob = n.blob /\ w.pack = n.pack /\ w.whole = n.whole /\ w.obj = n.obj
  BY <1>2 DEF Same, Parts
<1>5. DOMAIN w = DOMAIN n /\ w.limited = n.limited
  BY <1>3, NowFields
<1>6. DOMAIN w = {"jrn", "head", "lineage", "plan", "gen",
                 "blob", "pack", "whole", "obj", "limited"}
  BY <1>3 DEF Unread
<1>7. w = [f \in DOMAIN w |-> w[f]] /\ n = [f \in DOMAIN n |-> n[f]]
  BY DEF InsInv, InsType, IsRecord, Now
<1>8. \A f \in DOMAIN w : w[f] = n[f]
  <2> HIDE DEF w, n
  <2> QED BY <1>4, <1>5, <1>6
<1> HIDE DEF w, n
<1>9. w = n
  BY <1>5, <1>7, <1>8
<1> QED BY <1>9 DEF w, n

\* A report depends on the parts its inspection reads.
LEMMA ReportDependsOn ==
  ASSUME NEW of, NEW w, NEW z
  PROVE  /\ w.jrn # None /\ w.jrn = z.jrn => StatusReport(w) = StatusReport(z)
         /\ w.head = z.head /\ w.gen = z.gen /\ w.plan = z.plan =>
              /\ History(w) = History(z)
              /\ w.jrn = z.jrn /\ w.obj = z.obj => StatusReport(w) = StatusReport(z)
              /\ InventoryReport(w) = InventoryReport(z)
              /\ DetailsReport(of, w) = DetailsReport(of, z)
         /\ w.gen = z.gen /\ w.plan = z.plan => SnapshotReport(of, w) = SnapshotReport(of, z)
         /\ w.obj = z.obj => TreeReport(of, w) = TreeReport(of, z)
         /\ w.blob = z.blob => ObjectsReport(w) = ObjectsReport(z)
<1>1. w.jrn # None /\ w.jrn = z.jrn => StatusReport(w) = StatusReport(z)
  BY DEF StatusReport
<1>2. ASSUME w.head = z.head, w.gen = z.gen, w.plan = z.plan
      PROVE  /\ History(w) = History(z)
             /\ w.jrn = z.jrn /\ w.obj = z.obj => StatusReport(w) = StatusReport(z)
             /\ InventoryReport(w) = InventoryReport(z)
             /\ DetailsReport(of, w) = DetailsReport(of, z)
  <2>1. History(w) = History(z)
    BY <1>2 DEF History
  <2>2. FullLineage(w) = FullLineage(z)
    BY <1>2, <2>1 DEF FullLineage
  <2>3. RoutineLineage(w) = RoutineLineage(z)
    BY <1>2, <2>2 DEF RoutineLineage
  <2>4. w.jrn = z.jrn /\ w.obj = z.obj => StatusReport(w) = StatusReport(z)
    BY <1>2, <2>3 DEF StatusReport
  <2>5. InventoryReport(w) = InventoryReport(z)
    BY <1>2, <2>1, <2>2 DEF InventoryReport
  <2>6. DetailsReport(of, w) = DetailsReport(of, z)
    BY <1>2, <2>1, <2>3 DEF DetailsReport
  <2> QED BY <2>1, <2>4, <2>5, <2>6
<1>3. w.gen = z.gen /\ w.plan = z.plan => SnapshotReport(of, w) = SnapshotReport(of, z)
  BY DEF SnapshotReport
<1>4. w.obj = z.obj => TreeReport(of, w) = TreeReport(of, z)
  BY DEF TreeReport
<1>5. w.blob = z.blob => ObjectsReport(w) = ObjectsReport(z)
  BY DEF ObjectsReport
<1> QED BY <1>1, <1>2, <1>3, <1>4, <1>5

\* What the other inspections have read of the catalog and the records.
LEMMA OthersSee ==
  ASSUME InsInv, Answered, ComparesDirectories(ins.kind), ~ins.seen.limited
  PROVE  LET w == ins.seen IN
         /\ ins.kind \in {"inventory", "details"} =>
              w.head = Now.head /\ w.gen = Now.gen /\ w.plan = Now.plan
         /\ ins.kind = "snapshot" => w.gen = Now.gen /\ w.plan = Now.plan
         /\ ins.kind = "tree" => w.obj = Now.obj
         /\ ins.kind = "objects" => w.blob = Now.blob
         /\ ins.kind = "status" => /\ w.jrn = Now.jrn
                                   /\ \/ w.jrn # None
                                      \/ /\ w.head = Now.head /\ w.gen = Now.gen
                                         /\ w.plan = Now.plan /\ w.obj = Now.obj
<1> DEFINE w == ins.seen
           n == Now
<1>1. \/ \A i \in DOMAIN Reads(ins.kind) : Same(Reads(ins.kind)[i], w, n)
      \/ ins.kind = "status" /\ w.jrn # None /\ w.jrn = n.jrn
  BY AnswerIsCurrent
<1> SUFFICES /\ ins.kind \in {"inventory", "details"} =>
                  w.head = n.head /\ w.gen = n.gen /\ w.plan = n.plan
             /\ ins.kind = "snapshot" => w.gen = n.gen /\ w.plan = n.plan
             /\ ins.kind = "tree" => w.obj = n.obj
             /\ ins.kind = "objects" => w.blob = n.blob
             /\ ins.kind = "status" => /\ w.jrn = n.jrn
                                       /\ \/ w.jrn # None
                                          \/ /\ w.head = n.head /\ w.gen = n.gen
                                             /\ w.plan = n.plan /\ w.obj = n.obj
  OBVIOUS
<1> HIDE DEF w, n
<1>2. CASE ins.kind \in {"inventory", "details"}
  <2>1. Reads(ins.kind) = <<"catalog", "gen", "plan">>
    BY <1>2 DEF Reads
  <2>2. Same("catalog", w, n) /\ Same("gen", w, n) /\ Same("plan", w, n)
    BY <1>1, <1>2, <2>1
  <2> QED BY <1>2, <2>2 DEF Same
<1>3. CASE ins.kind = "snapshot"
  <2>1. Reads(ins.kind) = <<"gen", "plan">>
    BY <1>3 DEF Reads
  <2>2. Same("gen", w, n) /\ Same("plan", w, n)
    BY <1>1, <1>3, <2>1
  <2> QED BY <1>3, <2>2 DEF Same
<1>4. CASE ins.kind = "tree"
  <2>1. Reads(ins.kind) = <<"obj">>
    BY <1>4 DEF Reads
  <2> QED BY <1>1, <1>4, <2>1 DEF Same
<1>5. CASE ins.kind = "objects"
  <2>1. Reads(ins.kind) = <<"blob">>
    BY <1>5 DEF Reads
  <2> QED BY <1>1, <1>5, <2>1 DEF Same
<1>6. CASE ins.kind = "status"
  <2> DEFINE s == <<"journal", "catalog", "gen", "plan", "obj">>
  <2>1. Reads(ins.kind) = s /\ DOMAIN s = 1 .. 5
    BY <1>6 DEF Reads
  <2>2. s[1] = "journal" /\ s[2] = "catalog" /\ s[3] = "gen" /\ s[4] = "plan" /\ s[5] = "obj"
    OBVIOUS
  <2> HIDE DEF s
  <2>3. CASE \A i \in DOMAIN Reads(ins.kind) : Same(Reads(ins.kind)[i], w, n)
    <3>1. Same("journal", w, n) /\ Same("catalog", w, n) /\ Same("gen", w, n)
          /\ Same("plan", w, n) /\ Same("obj", w, n)
      BY <2>1, <2>2, <2>3
    <3> QED BY <1>6, <3>1 DEF Same
  <2> QED BY <1>1, <1>6, <2>3
<1> QED BY <1>2, <1>3, <1>4, <1>5, <1>6

\* An answer is what the store as it is gives: of everything that was compared
\* because it was read, of a namespace because its lineage cannot be pruned.
LEMMA ReportsAgree ==
  ASSUME InsInv, Answered, ~ins.seen.limited, ins.kind # "history",
         ins.kind = "namespace" => HeadKept /\ SeenSynced
  PROVE  Report(ins.kind, ins.of, ins.seen) = Report(ins.kind, ins.of, Now)
<1> DEFINE w == ins.seen
           n == Now
<1>0. ins.kind \in Kinds
  BY DEF InsInv, InsType, Answered
<1>1. CASE ins.kind = "fsck"
  BY <1>1, FsckSees
<1>2. CASE ins.kind = "namespace"
  <2>1. w.head = head /\ Report(ins.kind, ins.of, w) = HistoryReport(w)
        /\ Report(ins.kind, ins.of, n) = HistoryReport(n) /\ HistoryReport(w) # Failed
    <3>1. Report(ins.kind, ins.of, w) = HistoryReport(w)
          /\ Report(ins.kind, ins.of, n) = HistoryReport(n)
      BY <1>2 DEF Report
    <3>2. w.head = head
      BY <1>2 DEF Answered, Stale, ComparesCatalog, StoppedByJournal
    <3> QED BY <3>1, <3>2 DEF Answered
  <2>2. History(w) = History(n)
    BY <2>1, NowFields DEF History
  <2>3. FullLineage(w)
    BY <2>1 DEF HistoryReport, When
  <2>4. FullLineage(n)
    <3>1. History(w) \subseteq w.plan
      BY <2>3 DEF FullLineage
    <3>2. History(n) \subseteq dir["gen"] \cap (dir["plan"] \cup early["plan"])
      BY <1>2, NowFields DEF History, HeadKept
    <3>3. w.plan \cap (early["plan"] \ dir["plan"]) = {}
      BY <1>2 DEF SeenSynced
    <3>4. n.gen = dir["gen"] /\ n.plan = dir["plan"]
      BY NowFields
    <3> HIDE DEF w, n
    <3> QED BY <2>2, <3>1, <3>2, <3>3, <3>4 DEF FullLineage
  <2> HIDE DEF w, n
  <2>5. HistoryReport(w) = HistoryReport(n)
    BY <2>2, <2>3, <2>4 DEF HistoryReport, When
  <2> QED BY <2>1, <2>5 DEF w, n
<1>3. CASE ins.kind \notin {"fsck", "namespace"}
  <2>1. ComparesDirectories(ins.kind)
    BY <1>3 DEF ComparesDirectories
  <2>2. /\ ins.kind \in {"inventory", "details"} =>
             w.head = n.head /\ w.gen = n.gen /\ w.plan = n.plan
        /\ ins.kind = "snapshot" => w.gen = n.gen /\ w.plan = n.plan
        /\ ins.kind = "tree" => w.obj = n.obj
        /\ ins.kind = "objects" => w.blob = n.blob
        /\ ins.kind = "status" => /\ w.jrn = n.jrn
                                  /\ \/ w.jrn # None
                                     \/ /\ w.head = n.head /\ w.gen = n.gen
                                        /\ w.plan = n.plan /\ w.obj = n.obj
    BY <2>1, OthersSee
  <2> HIDE DEF w, n
  <2>3. Report(ins.kind, ins.of, w) = Report(ins.kind, ins.of, n)
    <3>1. CASE ins.kind = "status"
      <4>1. StatusReport(w) = StatusReport(n)
        BY <2>2, <3>1, ReportDependsOn
      <4> QED BY <3>1, <4>1 DEF Report
    <3>2. CASE ins.kind = "inventory"
      <4>1. InventoryReport(w) = InventoryReport(n)
        BY <2>2, <3>2, ReportDependsOn
      <4> QED BY <3>2, <4>1 DEF Report
    <3>3. CASE ins.kind = "details"
      <4>1. DetailsReport(ins.of, w) = DetailsReport(ins.of, n)
        BY <2>2, <3>3, ReportDependsOn
      <4> QED BY <3>3, <4>1 DEF Report
    <3>4. CASE ins.kind = "snapshot"
      <4>1. SnapshotReport(ins.of, w) = SnapshotReport(ins.of, n)
        BY <2>2, <3>4, ReportDependsOn
      <4> QED BY <3>4, <4>1 DEF Report
    <3>5. CASE ins.kind = "tree"
      <4>1. TreeReport(ins.of, w) = TreeReport(ins.of, n)
        BY <2>2, <3>5, ReportDependsOn
      <4> QED BY <3>5, <4>1 DEF Report
    <3>6. CASE ins.kind = "objects"
      <4>1. ObjectsReport(w) = ObjectsReport(n)
        BY <2>2, <3>6, ReportDependsOn
      <4> QED BY <3>6, <4>1 DEF Report
    <3> QED BY <1>0, <1>3, <3>1, <3>2, <3>3, <3>4, <3>5, <3>6 DEF Kinds
  <2> QED BY <2>3 DEF w, n
<1> QED BY <1>1, <1>2, <1>3

-----------------------------------------------------------------------------
\* What trees list.  f[n] is what the objects O reach in n steps through the
\* trees T.

StepUp(X, T) == X \cup UNION {Entries[t] : t \in X \cap T}

IsReach(f, O, T, m) == f = [n \in 0 .. m |-> IF n = 0 THEN O ELSE StepUp(f[n - 1], T)]

Depth == Cardinality(Tree)
ReachIn(O, T) == CHOOSE f : IsReach(f, O, T, Depth)

\* There are finitely many trees, so the walk has finitely many steps.
LEMMA DepthIsNat == Depth \in Nat
BY RetentionConstants, FS_CardinalityType DEF Depth

\* There is such a function for every number of steps (by the least number
\* that has none).
LEMMA ReachExists ==
  ASSUME NEW O, NEW T, NEW n \in Nat
  PROVE  \E f : IsReach(f, O, T, n)
<1> DEFINE C == {k \in Nat : ~ \E f : IsReach(f, O, T, k)}
<1> SUFFICES ASSUME C # {} PROVE FALSE
  OBVIOUS
<1>1. PICK m \in C : \A k \in C : m <= k
  BY Least
<1>2. m # 0
  <2>1. IsReach([i \in 0 .. 0 |-> O], O, T, 0)
    BY DEF IsReach
  <2> QED BY <2>1
<1>3. PICK f : IsReach(f, O, T, m - 1)
  BY <1>1, <1>2
<1>4. \A i \in 0 .. m - 1 : f[i] = IF i = 0 THEN O ELSE StepUp(f[i - 1], T)
  BY <1>3 DEF IsReach
<1> DEFINE h == [i \in 0 .. m |-> IF i < m THEN f[i] ELSE StepUp(f[m - 1], T)]
<1>5. \A i \in 0 .. m : h[i] = IF i = 0 THEN O ELSE StepUp(h[i - 1], T)
  <2> SUFFICES ASSUME NEW i \in 0 .. m
               PROVE  h[i] = IF i = 0 THEN O ELSE StepUp(h[i - 1], T)
    OBVIOUS
  <2>1. CASE i = 0
    BY <1>2, <1>4, <2>1
  <2>2. CASE i # 0
    <3>1. h[i - 1] = f[i - 1]
      BY <2>2
    <3>2. i < m => f[i] = StepUp(f[i - 1], T)
      BY <1>4, <2>2
    <3> QED BY <3>1, <3>2, <2>2
  <2> QED BY <2>1, <2>2
<1>6. h = [i \in 0 .. m |-> h[i]]
  OBVIOUS
<1> HIDE DEF h
<1>7. IsReach(h, O, T, m)
  BY <1>5, <1>6 DEF IsReach
<1> QED BY <1>7

\* The function, step by step.
LEMMA ReachIs ==
  ASSUME NEW O, NEW T
  PROVE  \A n \in 0 .. Depth :
           ReachIn(O, T)[n] = IF n = 0 THEN O ELSE StepUp(ReachIn(O, T)[n - 1], T)
<1> DEFINE f == ReachIn(O, T)
<1>1. IsReach(f, O, T, Depth)
  BY DepthIsNat, ReachExists DEF ReachIn
<1> HIDE DEF f
<1>2. \A n \in 0 .. Depth : f[n] = IF n = 0 THEN O ELSE StepUp(f[n - 1], T)
  BY <1>1 DEF IsReach
<1> QED BY <1>2 DEF f

\* The closure is where it ends when every tree may be followed.
LEMMA ClosureIs ==
  ASSUME NEW O
  PROVE  Closure(O) = ReachIn(O, Tree)[Depth]
BY Zenon DEF Closure, ReachIn, IsReach, StepUp, Depth

\* The marks are where it ends when only the trees that were read may be.
LEMMA MarkedIs ==
  ASSUME NEW w
  PROVE  Marked(w) = ReachIn(UNION {Places[p] : p \in Holders(w)}, w.obj \cap Tree)[Depth]
BY Zenon DEF Marked, ReachIn, IsReach, StepUp, Depth

\* Each step only adds, so everything is reached in the last one.
LEMMA ReachGrows ==
  ASSUME NEW O, NEW T, NEW n \in 0 .. Depth
  PROVE  ReachIn(O, T)[n] \subseteq ReachIn(O, T)[Depth]
<1> DEFINE f == ReachIn(O, T)
           C == {k \in Nat : k <= Depth /\ ~(f[Depth - k] \subseteq f[Depth])}
<1>0. \A i \in 0 .. Depth : f[i] = IF i = 0 THEN O ELSE StepUp(f[i - 1], T)
  BY ReachIs
<1> HIDE DEF f
<1>1. \A i \in 1 .. Depth : f[i - 1] \subseteq f[i]
  <2> SUFFICES ASSUME NEW i \in 1 .. Depth PROVE f[i - 1] \subseteq f[i]
    OBVIOUS
  <2>1. f[i] = StepUp(f[i - 1], T)
    BY <1>0, DepthIsNat
  <2> QED BY <2>1 DEF StepUp
<1>2. C = {}
  <2> SUFFICES ASSUME C # {} PROVE FALSE
    OBVIOUS
  <2>1. PICK m \in C : \A k \in C : m <= k
    <3>1. C \in SUBSET Nat
      OBVIOUS
    <3> HIDE DEF C
    <3> QED BY <3>1, Least
  <2>2. m \in Nat /\ m <= Depth /\ ~(f[Depth - m] \subseteq f[Depth])
    OBVIOUS
  <2>3. m # 0
    BY <2>2, DepthIsNat
  <2>4. m - 1 \in Nat /\ m - 1 \notin C
    BY <2>1, <2>2, <2>3
  <2>5. f[Depth - (m - 1)] \subseteq f[Depth]
    BY <2>2, <2>4, DepthIsNat
  <2>6. Depth - (m - 1) \in 1 .. Depth /\ (Depth - (m - 1)) - 1 = Depth - m
    BY <2>2, <2>3, DepthIsNat
  <2>7. f[Depth - m] \subseteq f[Depth - (m - 1)]
    BY <1>1, <2>6
  <2> QED BY <2>2, <2>5, <2>7
<1>3. Depth - n \in Nat /\ Depth - n <= Depth /\ Depth - (Depth - n) = n
  BY DepthIsNat
<1>4. f[n] \subseteq f[Depth]
  BY <1>2, <1>3
<1> QED BY <1>4 DEF f

\* What P reaches, some object set of the family reaches: a closure is the
\* union of the closures of its parts.
LEMMA ClosureOfUnion ==
  ASSUME NEW F, NEW X, \A O \in F : Closure(O) \subseteq X
  PROVE  Closure(UNION F) \subseteq X
<1> DEFINE f == ReachIn(UNION F, Tree)
           Within(i) == \A x \in f[i] : \E O \in F : x \in ReachIn(O, Tree)[i]
           C == {i \in Nat : i <= Depth /\ ~Within(i)}
<1>1. \A i \in 0 .. Depth : f[i] = IF i = 0 THEN UNION F ELSE StepUp(f[i - 1], Tree)
  BY ReachIs
<1>2. \A O \in F : \A i \in 0 .. Depth :
        ReachIn(O, Tree)[i] = IF i = 0 THEN O ELSE StepUp(ReachIn(O, Tree)[i - 1], Tree)
  BY ReachIs
<1>3. C = {}
  <2> HIDE DEF f
  <2> SUFFICES ASSUME C # {} PROVE FALSE
    OBVIOUS
  <2>1. PICK m \in C : \A k \in C : m <= k
    <3>1. C \in SUBSET Nat
      OBVIOUS
    <3> HIDE DEF C
    <3> QED BY <3>1, Least
  <2>2. m \in 0 .. Depth /\ ~Within(m)
    BY DepthIsNat
  <2>3. m # 0
    <3> SUFFICES ASSUME m = 0 PROVE FALSE
      OBVIOUS
    <3>1. f[0] = UNION F /\ \A O \in F : ReachIn(O, Tree)[0] = O
      BY <1>1, <1>2, <2>2
    <3> QED BY <2>2, <3>1
  <2>4. m - 1 \in Nat /\ m - 1 \notin C
    BY <2>1, <2>2, <2>3
  <2>5. Within(m - 1)
    BY <2>2, <2>4, DepthIsNat
  <2>6. f[m] = StepUp(f[m - 1], Tree)
        /\ \A O \in F : ReachIn(O, Tree)[m] = StepUp(ReachIn(O, Tree)[m - 1], Tree)
    BY <1>1, <1>2, <2>2, <2>3
  <2>7. Within(m)
    <3> SUFFICES ASSUME NEW x \in f[m] PROVE \E O \in F : x \in ReachIn(O, Tree)[m]
      OBVIOUS
    <3>1. CASE x \in f[m - 1]
      BY <2>5, <2>6, <3>1 DEF StepUp
    <3>2. CASE \E t \in f[m - 1] \cap Tree : x \in Entries[t]
      <4>1. PICK t \in f[m - 1] \cap Tree : x \in Entries[t]
        BY <3>2
      <4>2. PICK O \in F : t \in ReachIn(O, Tree)[m - 1]
        BY <2>5, <4>1
      <4> QED BY <2>6, <4>1, <4>2 DEF StepUp
    <3> QED BY <2>6, <3>1, <3>2 DEF StepUp
  <2> QED BY <2>2, <2>7
<1>4. Within(Depth)
  BY <1>3, DepthIsNat
<1>5. Closure(UNION F) = f[Depth]
  BY ClosureIs
<1>6. \A O \in F : ReachIn(O, Tree)[Depth] \subseteq X
  BY ClosureIs
<1> QED BY <1>4, <1>5, <1>6

\* More objects reach more.
LEMMA ClosureMonotone ==
  ASSUME NEW O, NEW P, O \subseteq P
  PROVE  Closure(O) \subseteq Closure(P)
<1> DEFINE f == ReachIn(O, Tree)
           h == ReachIn(P, Tree)
           C == {i \in Nat : i <= Depth /\ ~(f[i] \subseteq h[i])}
<1>1. \A i \in 0 .. Depth : /\ f[i] = IF i = 0 THEN O ELSE StepUp(f[i - 1], Tree)
                            /\ h[i] = IF i = 0 THEN P ELSE StepUp(h[i - 1], Tree)
  BY ReachIs
<1>2. C = {}
  <2> HIDE DEF f, h
  <2> SUFFICES ASSUME C # {} PROVE FALSE
    OBVIOUS
  <2>1. PICK m \in C : \A k \in C : m <= k
    <3>1. C \in SUBSET Nat
      OBVIOUS
    <3> HIDE DEF C
    <3> QED BY <3>1, Least
  <2>2. m \in 0 .. Depth /\ ~(f[m] \subseteq h[m])
    BY DepthIsNat
  <2>3. m # 0
    BY <1>1, <2>2
  <2>4. m - 1 \in Nat /\ m - 1 \notin C
    BY <2>1, <2>2, <2>3
  <2>5. f[m - 1] \subseteq h[m - 1]
    BY <2>2, <2>4, DepthIsNat
  <2>6. f[m] = StepUp(f[m - 1], Tree) /\ h[m] = StepUp(h[m - 1], Tree)
    BY <1>1, <2>2, <2>3
  <2> QED BY <2>2, <2>5, <2>6 DEF StepUp
<1>3. f[Depth] \subseteq h[Depth]
  BY <1>2, DepthIsNat
<1> QED BY <1>3, ClosureIs

\* When nothing that is marked is missing, the marks are the closure.
LEMMA MarksAreClosure ==
  ASSUME NEW O, NEW X, ReachIn(O, X \cap Tree)[Depth] \subseteq X
  PROVE  Closure(O) \subseteq X
<1> DEFINE f == ReachIn(O, X \cap Tree)
           h == ReachIn(O, Tree)
           C == {i \in Nat : i <= Depth /\ h[i] # f[i]}
<1>1. \A i \in 0 .. Depth : /\ f[i] = IF i = 0 THEN O ELSE StepUp(f[i - 1], X \cap Tree)
                            /\ h[i] = IF i = 0 THEN O ELSE StepUp(h[i - 1], Tree)
  BY ReachIs
<1>2. \A i \in 0 .. Depth : f[i] \subseteq X
  BY ReachGrows
<1>3. C = {}
  <2> HIDE DEF f, h
  <2> SUFFICES ASSUME C # {} PROVE FALSE
    OBVIOUS
  <2>1. PICK m \in C : \A k \in C : m <= k
    <3>1. C \in SUBSET Nat
      OBVIOUS
    <3> HIDE DEF C
    <3> QED BY <3>1, Least
  <2>2. m \in 0 .. Depth /\ h[m] # f[m]
    BY DepthIsNat
  <2>3. m # 0
    BY <1>1, <2>2
  <2>4. m - 1 \in Nat /\ m - 1 \notin C /\ m - 1 \in 0 .. Depth
    BY <2>1, <2>2, <2>3, DepthIsNat
  <2>5. h[m - 1] = f[m - 1] /\ f[m - 1] \subseteq X
    BY <1>2, <2>4, DepthIsNat
  <2>6. f[m] = StepUp(f[m - 1], X \cap Tree) /\ h[m] = StepUp(h[m - 1], Tree)
    BY <1>1, <2>2, <2>3
  <2>7. f[m - 1] \cap (X \cap Tree) = f[m - 1] \cap Tree
    BY <2>5
  <2> QED BY <2>2, <2>5, <2>6, <2>7 DEF StepUp
<1>4. h[Depth] = f[Depth]
  BY <1>3, DepthIsNat
<1> QED BY <1>4, ClosureIs

-----------------------------------------------------------------------------
\* A clean fsck.

\* What the absence of errors says of a store.
LEMMA NoErrors ==
  ASSUME NEW w, Errors(w) = {}
  PROVE  /\ ~w.limited /\ w.jrn = None /\ w.lineage /\ w.pack \subseteq w.whole
         /\ MissingGenerations(w) \subseteq w.gen /\ RootPlans(w) \cup w.gen \subseteq w.plan
         /\ RootBlobs(w) \subseteq w.blob /\ RootPacks(w) \subseteq w.whole
         /\ Marked(w) \subseteq w.obj
<1>0. \A code, names : Finding(code, names) = {} => names = {}
  BY DEF Finding
<1>1. ~w.limited
  <2> SUFFICES ASSUME w.limited PROVE FALSE
    OBVIOUS
  <2>1. Finding("TraversalLimitExceeded", {None}) = {}
    BY DEF Errors
  <2> QED BY <1>0, <2>1
<1>2. ErrorsOfLoading(w) = {} /\ ErrorsOfAuthority(w) = {}
  BY <1>1 DEF Errors
<1>3. /\ Finding("RecoveryRequired", {w.jrn} \ {None}) = {}
      /\ ~w.lineage => Finding("InvalidCatalog", {w.head}) = {}
      /\ Finding("CorruptPackObject", w.pack \ w.whole) = {}
  BY <1>2 DEF ErrorsOfLoading
<1>4. /\ Finding("MissingGeneration", MissingGenerations(w) \ w.gen) = {}
      /\ Finding("MissingPreparedPlan", (RootPlans(w) \cup w.gen) \ w.plan) = {}
      /\ Finding("MissingArtifactBlob", RootBlobs(w) \ w.blob) = {}
      /\ Finding("MissingPackObject", RootPacks(w) \ w.whole) = {}
      /\ Finding("MissingCanonicalObject", Marked(w) \ w.obj) = {}
  BY <1>2 DEF ErrorsOfAuthority
<1>5. w.jrn = None /\ w.lineage /\ w.pack \subseteq w.whole
  BY <1>0, <1>3
<1>6. /\ MissingGenerations(w) \ w.gen = {} /\ (RootPlans(w) \cup w.gen) \ w.plan = {}
      /\ RootBlobs(w) \ w.blob = {} /\ RootPacks(w) \ w.whole = {} /\ Marked(w) \ w.obj = {}
  BY <1>0, <1>4
<1> QED BY <1>1, <1>5, <1>6

\* A longer history has at least the same generations.
LEMMA LineageLonger ==
  ASSUME NEW r, NEW g, NEW n \in Nat, NEW k \in Nat, k <= n
  PROVE  LineageIn(r, g, k) \subseteq LineageIn(r, g, n)
<1> DEFINE C == {i \in Nat : ~(LineageIn(r, g, k) \subseteq LineageIn(r, g, k + i))}
<1>1. C = {}
  <2> SUFFICES ASSUME C # {} PROVE FALSE
    OBVIOUS
  <2>1. PICK m \in C : \A j \in C : m <= j
    <3>1. C \in SUBSET Nat
      OBVIOUS
    <3> HIDE DEF C
    <3> QED BY <3>1, Least
  <2>2. m # 0
    BY k + 0 = k
  <2>3. m - 1 \in Nat /\ m - 1 \notin C
    BY <2>1, <2>2
  <2>4. LineageIn(r, g, k) \subseteq LineageIn(r, g, k + (m - 1))
    BY <2>3
  <2>5. LineageIn(r, g, k + (m - 1)) \subseteq LineageIn(r, g, (k + (m - 1)) + 1)
    BY <2>3, LineageGrows
  <2>6. (k + (m - 1)) + 1 = k + m
    BY <2>3
  <2> QED BY <2>4, <2>5, <2>6
<1>2. n - k \in Nat /\ k + (n - k) = n
  OBVIOUS
<1>3. n - k \notin C
  BY <1>1
<1> QED BY <1>2, <1>3

\* A store without an error of fsck is sound for recover, prune and commit.
LEMMA CleanStore ==
  ASSUME TypeOK, Known, Errors(Now) = {}
  PROVE  /\ jrn = None /\ PruneAccepts({}, FALSE)
         /\ \A p \in dir["plan"] :
              LET r == rec[p] IN
              r.prev = head /\ KindValid(r) /\ (head # None => r.auth.keep <= Keep(head) + 1) =>
                /\ Derivable(r) /\ Artifacts[p] \subseteq dir["blob"]
                /\ PlacesLoad({p, head} \ {None})
<1> DEFINE n == Now
           plans == dir["plan"]
           gens == dir["gen"]
<1>0. /\ n.jrn = jrn /\ n.head = head /\ n.plan = plans /\ n.gen = gens
      /\ n.blob = dir["blob"] /\ n.pack = dir["pack"] /\ n.whole = WholePacks
      /\ n.obj = Objects /\ n.limited = FALSE
  BY NowFields
<1>1. /\ n.jrn = None /\ n.lineage /\ n.pack \subseteq n.whole
      /\ MissingGenerations(n) \subseteq n.gen /\ RootPlans(n) \cup n.gen \subseteq n.plan
      /\ RootBlobs(n) \subseteq n.blob /\ RootPacks(n) \subseteq n.whole
      /\ Marked(n) \subseteq n.obj
  BY NoErrors
<1>2. head # None => Lineage(head, Keep(head)) \subseteq gens \cap plans
  <2> DEFINE z == [head |-> head, gen |-> gens, plan |-> plans]
  <2>1. n.lineage = FullLineage(z)
    BY DEF Now
  <2>2. FullLineage(z)
    BY <1>1, <2>1
  <2> QED BY <2>2 DEF FullLineage, History
<1> HIDE DEF n
<1>3. gens \subseteq plans /\ (head # None => head \in gens)
  BY <1>0, <1>1 DEF MissingGenerations
<1>4. /\ \A p \in plans : Points(p) \subseteq gens
      /\ \A p \in plans : Pins(p) \subseteq plans
  BY <1>0, <1>1 DEF MissingGenerations, PointRoots, RootPlans, Authoritative
<1>5. Holders(n) = plans
  BY <1>0, <1>1, <1>3 DEF Holders, Reached, RootPlans
<1>6. \A p \in plans : Artifacts[p] \subseteq dir["blob"]
  BY <1>0, <1>1, <1>5 DEF RootBlobs
<1>7. \A p \in plans : Packs[p] \subseteq dir["pack"]
                       /\ \A k \in Packs[p] : Members[k] \subseteq dir["blob"]
  BY <1>0, <1>1 DEF RootPacks, RootPlans, WholePacks
<1>8. Closure(UNION {Places[p] : p \in plans}) \subseteq Objects
  BY <1>0, <1>1, <1>5, MarkedIs, MarksAreClosure
<1>9. \A P \in SUBSET plans : PlacesLoad(P)
  <2> SUFFICES ASSUME NEW P \in SUBSET plans
               PROVE  Closure(UNION {Places[p] : p \in P}) \subseteq Objects
    BY DEF PlacesLoad
  <2>1. UNION {Places[p] : p \in P} \subseteq UNION {Places[p] : p \in plans}
    OBVIOUS
  <2> QED BY <1>8, <2>1, ClosureMonotone
<1>10. RootGens({}) \subseteq gens
  BY <1>2, <1>3, <1>4 DEF RootGens
<1>11. RetainedPlans({}) \subseteq plans
  BY <1>3, <1>4, <1>10 DEF RetainedPlans
<1>12. KeptPlans({}, FALSE) = plans
  BY DEF KeptPlans, PrunedPlans
<1>13. PruneAccepts({}, FALSE)
  <2>1. KeptPacks({}, FALSE) \subseteq dir["pack"] /\ KeptBlobs({}, FALSE) \subseteq dir["blob"]
    BY <1>3, <1>6, <1>7, <1>10, <1>12 DEF KeptPacks, KeptBlobs
  <2>2. RootGens({}) \cup KeptPlans({}, FALSE) = plans
    BY <1>3, <1>10, <1>12
  <2>3. KeptObjects({}, FALSE) \subseteq Objects
    BY <1>8, <2>2 DEF KeptObjects
  <2>4. PlacesLoad(plans \cup gens)
    BY <1>3, <1>9
  <2> QED BY <1>3, <1>6, <1>10, <1>11, <2>1, <2>3, <2>4 DEF PruneAccepts
<1>14. \A p \in plans : PlanIntact(p)
  BY <1>6, <1>7, <1>9 DEF PlanIntact
<1>15. ASSUME NEW p \in plans, rec[p].prev = head, KindValid(rec[p]),
              head # None => rec[p].auth.keep <= Keep(head) + 1
       PROVE  Derivable(rec[p]) /\ PlacesLoad({p, head} \ {None})
  <2>1. p \in Plan /\ rec[p].auth \in Authority
        /\ (head # None => head \in Plan /\ rec[head].auth \in Authority)
    BY DEF TypeOK, DirType, Known, Records, Areas, NamesOf
  <2> DEFINE keep == rec[p].auth.keep
  <2>2. keep \in Nat /\ keep > 0 /\ (head # None => Keep(head) \in Nat)
    BY <2>1 DEF Authority, Keep
  <2>3. LineageIntact(head, keep)
    <3> SUFFICES ASSUME head # None, keep # 1
                 PROVE  Lineage(head, keep - 1) \subseteq gens \cap plans
      BY <1>3 DEF LineageIntact
    <3>1. keep - 1 \in Nat /\ keep - 1 <= Keep(head)
      BY <1>15, <2>2
    <3>2. LineageIn(rec, head, keep - 1) \subseteq LineageIn(rec, head, Keep(head))
      BY <2>2, <3>1, LineageLonger
    <3> QED BY <1>2, <3>2, LineageIs
  <2>4. AuthorityIntact(rec[p].auth)
    BY <1>3, <1>4, <1>14 DEF AuthorityIntact, Points, Pins
  <2>5. Derivable(rec[p])
    BY <1>3, <1>15, <2>3, <2>4 DEF Derivable
  <2>6. {p, head} \ {None} \subseteq plans
    BY <1>3
  <2> QED BY <1>9, <2>5, <2>6
<1> QED BY <1>0, <1>1, <1>6, <1>13, <1>15

-----------------------------------------------------------------------------
\* What is shown as retained.
LEMMA ShownGenerations ==
  ASSUME InsInv, Answered, ins.kind \in {"inventory", "details"}
  PROVE  /\ head # None
         /\ Report(ins.kind, ins.of, ins.seen).shows \subseteq
              (Lineage(head, Keep(head)) \cup Points(head)) \cap dir["gen"] \cap dir["plan"]
<1> DEFINE w == ins.seen
<1>1. w.head = head /\ w.gen = dir["gen"] /\ w.plan = dir["plan"]
  <2>1. ~ins.seen.limited /\ ComparesDirectories(ins.kind)
    BY DEF InsInv, InsType, ComparesDirectories
  <2> QED BY <2>1, OthersSee, NowFields
<1>2. Report(ins.kind, ins.of, w) # Failed
  BY DEF Answered
<1> HIDE DEF w
<1>3. \A ok, names : When(ok, names) # Failed => ok /\ When(ok, names).shows = names
  BY DEF When, Shown
<1>4. CASE ins.kind = "inventory"
  <2>1. Report(ins.kind, ins.of, w) = InventoryReport(w)
    BY <1>4 DEF Report
  <2>2. head # None
    BY <1>1, <1>2, <2>1 DEF InventoryReport
  <2> DEFINE ok == FullLineage(w) /\ Points(w.head) \subseteq w.gen \cap w.plan
             names == History(w) \cup Points(w.head)
  <2>3. InventoryReport(w) = When(ok, names)
    BY <1>1, <2>2 DEF InventoryReport
  <2>4. ok /\ InventoryReport(w).shows = names
    BY <1>2, <1>3, <2>1, <2>3
  <2>5. History(w) = Lineage(head, Keep(head))
    BY <1>1, <2>2 DEF History
  <2>6. names \subseteq (Lineage(head, Keep(head)) \cup Points(head))
                      \cap dir["gen"] \cap dir["plan"]
    BY <1>1, <2>4, <2>5 DEF FullLineage
  <2> QED BY <2>1, <2>2, <2>4, <2>6 DEF w
<1>5. CASE ins.kind = "details"
  <2> DEFINE g == ins.of
  <2>1. Report(ins.kind, ins.of, w) = DetailsReport(g, w)
    BY <1>5 DEF Report
  <2>2. head # None /\ RoutineLineage(w)
    BY <1>1, <1>2, <2>1 DEF DetailsReport
  <2>3. History(w) = Lineage(head, Keep(head))
    BY <1>1, <2>2 DEF History
  <2>4. CASE g \in History(w)
    <3> DEFINE ok == /\ History(w) \ Lineage(g, Keep(w.head)) \subseteq w.gen
                     /\ History(w) \cap Lineage(g, Keep(w.head)) \subseteq w.gen \cap w.plan
    <3>1. DetailsReport(g, w) = When(ok, {g})
      BY <1>1, <2>2, <2>4 DEF DetailsReport
    <3>2. ok /\ DetailsReport(g, w).shows = {g}
      BY <1>2, <1>3, <2>1, <3>1
    <3>3. g \in Lineage(g, Keep(w.head))
      <4>1. head \in Plan /\ rec[head].auth \in Authority
        BY <2>2 DEF InsInv, TypeOK, Known, Records
      <4>2. Keep(head) \in Nat /\ 1 <= Keep(head)
        BY <4>1 DEF Keep, Authority
      <4>3. g # None
        BY <2>3, <2>4 DEF Lineage
      <4>4. LineageIn(rec, g, 1) \subseteq LineageIn(rec, g, Keep(head))
        BY <4>2, LineageLonger
      <4> QED BY <1>1, <4>3, <4>4, LineageOne, LineageIs
    <3> QED BY <1>1, <2>1, <2>2, <2>3, <2>4, <3>2, <3>3 DEF w
  <2>5. CASE g \notin History(w)
    <3> DEFINE ok == g \in Points(w.head) \cap w.gen \cap w.plan
    <3>1. DetailsReport(g, w) = When(ok, {g})
      BY <1>1, <2>2, <2>5 DEF DetailsReport
    <3>2. ok /\ DetailsReport(g, w).shows = {g}
      BY <1>2, <1>3, <2>1, <3>1
    <3> QED BY <1>1, <2>1, <2>2, <3>2 DEF w
  <2> QED BY <2>4, <2>5
<1> QED BY <1>4, <1>5

\* A prune that is accepted keeps what the head keeps.
LEMMA PruneKeeps ==
  ASSUME NEW R, NEW sweep, PruneAccepts(R, sweep), head # None
  PROVE  Lineage(head, Keep(head)) \cup Points(head) \subseteq RootGens(R) \cap KeptPlans(R, sweep)
<1>1. Lineage(head, Keep(head)) \cup Points(head) \subseteq RootGens(R)
  BY DEF RootGens
<1>2. RootGens(R) \subseteq RetainedPlans(R)
  BY DEF RetainedPlans
<1>3. RetainedPlans(R) \subseteq dir["plan"] /\ R \cap RetainedPlans(R) = {}
  BY DEF PruneAccepts
<1> QED BY <1>1, <1>2, <1>3 DEF KeptPlans, PrunedPlans

-----------------------------------------------------------------------------
\* The theorems.

\* The head keeps what it needs until somebody else removes something.
LEMMA UnlostInit ==
  ASSUME OneCut, InsInit
  PROVE  ~lost => HeadInv
BY HeldInit DEF InsInit

\* Steps that lose nothing are steps of Retention.
LEMMA UnlostStep ==
  ASSUME ~lost => HeadInv, [InsNext]_<<vars, insVars>>
  PROVE  (~lost => HeadInv)'
<1> SUFFICES ASSUME ~lost' PROVE HeadInv'
  OBVIOUS
<1>1. [Next]_vars /\ lost' = lost
  BY DEF InsNext, StoreStep, Lose, Open, Read, HitLimit, Finish, insVars
<1> QED
  BY <1>1, TypeStep, WorkingStep, ApartStep, WholeStep, HeldStep DEF HeadInv, ClosureInv, Whole

\* inspection.rs: an answer that is not reported as stale is the answer the
\* store gives at that moment, whatever was committed, pruned, killed and cut
\* while it was read part by part.
THEOREM SnapshotsSafe ==
  ASSUME OneCut
  PROVE  InsSpec => ReportsAreSnapshots
<1> DEFINE v == <<vars, insVars>>
           Inv == InsInv /\ (~lost => HeadInv /\ SeenSynced)
           Agrees == Answered /\ ins.kind # "history" /\ ~ins.seen.limited
                       /\ (ins.kind = "namespace" => ~lost)
                     => Report(ins.kind, ins.of, ins.seen) = Report(ins.kind, ins.of, Now)
<1>1. InsInit => Inv
  BY InsStart, UnlostInit, SeenInit
<1>2. Inv /\ [InsNext]_v => Inv'
  <2> SUFFICES ASSUME Inv, [InsNext]_v PROVE Inv'
    OBVIOUS
  <2>1. InsInv' /\ (~lost => HeadInv)'
    BY InsStep, UnlostStep
  <2>2. ASSUME ~lost' PROVE ~lost
    BY <2>2 DEF InsNext, StoreStep, Lose, Open, Read, HitLimit, Finish, insVars
  <2>3. (~lost => SeenSynced)'
    BY <2>2, SeenStep
  <2> QED BY <2>1, <2>3
<1>3. Inv /\ [InsNext]_v => [Agrees]_v
  <2> SUFFICES ASSUME Inv, [InsNext]_v PROVE Agrees
    OBVIOUS
  <2>1. ~lost => HeadKept
    BY LeftNow DEF HeadInv, ClosureInv, Held, HeadHeld, JournalHeld, HeadKept, Needs,
       GensRecorded, Begun, Areas
  <2> QED BY <2>1, ReportsAgree
<1> HIDE DEF Inv, Agrees
<1>4. InsSpec => [][Agrees]_v
  BY <1>1, <1>2, <1>3, PTL DEF InsSpec
<1> QED BY <1>4 DEF ReportsAreSnapshots, Agrees

\* fsck_v1: a store that is reported complete needs no recovery, accepts a prune
\* and accepts the commit of the plans prepared for its head.
THEOREM CleanSafe == InsSpec => CleanMeansSound
<1> DEFINE v == <<vars, insVars>>
           Sound == Answered /\ ins.kind = "fsck" /\ FsckReport(ins.seen).is = "complete" =>
             /\ jrn = None /\ PruneAccepts({}, FALSE)
             /\ \A p \in dir["plan"] :
                  LET r == rec[p] IN
                  r.prev = head /\ KindValid(r) /\ (head # None => r.auth.keep <= Keep(head) + 1) =>
                    /\ Derivable(r) /\ Artifacts[p] \subseteq dir["blob"]
                    /\ PlacesLoad({p, head} \ {None})
<1>1. InsInit => InsInv
  BY InsStart
<1>2. InsInv /\ [InsNext]_v => InsInv'
  BY InsStep
<1>3. InsInv /\ [InsNext]_v => [Sound]_v
  <2> SUFFICES ASSUME InsInv, Answered, ins.kind = "fsck", FsckReport(ins.seen).is = "complete"
               PROVE  Sound
    OBVIOUS
  <2>1. Errors(ins.seen) = {}
    BY DEF FsckReport
  <2>2. ~ins.seen.limited
    BY <2>1, NoErrors
  <2>3. ins.seen = Now
    BY <2>2, FsckSees
  <2>4. Errors(Now) = {}
    BY <2>1, <2>3
  <2> QED BY <2>4, CleanStore DEF InsInv
<1> HIDE DEF Sound
<1>4. InsSpec => [][Sound]_v
  BY <1>1, <1>2, <1>3, PTL DEF InsSpec
<1> QED BY <1>4 DEF CleanMeansSound, Sound

\* inspect_generation_inventory_v1, inspect_generation_details_v1: no prune that
\* prune_v1 accepts removes a generation that is shown as retained.
THEOREM ShownSafe == InsSpec => ShownIsRetained
<1> DEFINE v == <<vars, insVars>>
           Retained == Answered /\ ins.kind \in {"inventory", "details"} =>
             LET shown == Report(ins.kind, ins.of, ins.seen).shows
             IN /\ shown \subseteq dir["gen"] \cap dir["plan"]
                /\ \A R \in SUBSET dir["plan"], sweep \in BOOLEAN :
                     PruneAccepts(R, sweep) => shown \subseteq RootGens(R) \cap KeptPlans(R, sweep)
<1>1. InsInit => InsInv
  BY InsStart
<1>2. InsInv /\ [InsNext]_v => InsInv'
  BY InsStep
<1>3. InsInv /\ [InsNext]_v => [Retained]_v
  <2> SUFFICES ASSUME InsInv, Answered, ins.kind \in {"inventory", "details"} PROVE Retained
    OBVIOUS
  <2> QED BY ShownGenerations, PruneKeeps
<1> HIDE DEF Retained
<1>4. InsSpec => [][Retained]_v
  BY <1>1, <1>2, <1>3, PTL DEF InsSpec
<1> QED BY <1>4 DEF ShownIsRetained, Retained

-----------------------------------------------------------------------------
\* What the head's targets are made of

\* Everything the plan p places is there; the plans the head pins.
Loaded(p) == Closure(Places[p]) \subseteq Objects
HeadPins == IF head = None THEN {} ELSE Pins(head)

\* A generation is published after its objects and goes before them, and prune
\* follows the trees of what stays to their last entry.
PlacesHeld ==
  /\ \A g \in dir["gen"] : Loaded(g)
  /\ \A p \in HeadPins : Loaded(p)
PlacesReady ==
  com \in {"generation", "sync", "catalog"} =>
    Loaded(jrn) /\ (~rec[jrn].removes => \A p \in Pins(jrn) : Loaded(p))
PlacesSpared ==
  pru.on # "idle" =>
    \A p \in (dir["gen"] \ pru.todo["gen"]) \cup HeadPins :
      Closure(Places[p]) \cap (pru.todo["tree"] \cup pru.todo["leaf"]) = {}
PlaceInv == cuts = 0 /\ PlacesHeld /\ PlacesReady /\ PlacesSpared

\* Loading is the same for every step that takes no object away.
LEMMA LoadedStays ==
  ASSUME Objects \subseteq Objects', NEW p, Loaded(p)
  PROVE  Loaded(p)'
BY DEF Loaded

\* One plan at a time: load_canonical_roots of several loads each of them.
LEMMA LoadsEach ==
  ASSUME NEW P, NEW p \in P, PlacesLoad(P)
  PROVE  Loaded(p)
<1>1. Places[p] \subseteq UNION {Places[q] : q \in P}
  OBVIOUS
<1>2. Closure(Places[p]) \subseteq Closure(UNION {Places[q] : q \in P})
  BY <1>1, ClosureMonotone
<1> QED BY <1>2 DEF PlacesLoad, Loaded

\* What each of the plans places being there, all they place is there.
LEMMA LoadsAll ==
  ASSUME NEW P, \A p \in P : Loaded(p)
  PROVE  PlacesLoad(P)
<1> DEFINE F == {Places[q] : q \in P}
<1>1. \A O \in F : Closure(O) \subseteq Objects
  BY DEF Loaded
<1> HIDE DEF F
<1>2. Closure(UNION F) \subseteq Objects
  BY <1>1, ClosureOfUnion
<1> QED BY <1>2 DEF PlacesLoad, F

\* A step that takes no object away and publishes no generation.
LEMMA PlacesQuietly ==
  ASSUME TypeOK, Working, Known, PlaceInv,
         \A p \in Plan : rec[p].auth # None => rec'[p] = rec[p],
         head' = head, cuts' = cuts, dir'["gen"] = dir["gen"], Objects \subseteq Objects',
         com' \in {"generation", "sync", "catalog"} =>
           com \in {"generation", "sync", "catalog"} /\ jrn' = jrn,
         pru'.on # "idle" => pru.on # "idle" /\ pru'.todo = pru.todo
  PROVE  PlaceInv'
<1>1. HeadPins' = HeadPins
  BY DEF HeadPins, Pins, TypeOK, Known
<1>2. PlacesHeld'
  BY <1>1, LoadedStays DEF PlaceInv, PlacesHeld
<1>3. PlacesReady'
  <2> SUFFICES ASSUME com' \in {"generation", "sync", "catalog"}
               PROVE  Loaded(jrn)' /\ (~rec'[jrn'].removes => \A p \in Pins(jrn)' : Loaded(p)')
    BY DEF PlacesReady
  <2>1. com \in {"generation", "sync", "catalog"} /\ jrn' = jrn
    OBVIOUS
  <2>2. rec'[jrn] = rec[jrn]
    BY <2>1 DEF Working, TypeOK, Known
  <2>3. Loaded(jrn) /\ (~rec[jrn].removes => \A p \in Pins(jrn) : Loaded(p))
    BY <2>1 DEF PlaceInv, PlacesReady
  <2> QED BY <2>1, <2>2, <2>3 DEF Loaded, Pins
<1>4. PlacesSpared'
  BY <1>1 DEF PlaceInv, PlacesSpared
<1> QED BY <1>2, <1>3, <1>4 DEF PlaceInv

\* What an accepted prune leaves of generations and of what the head pins keeps
\* all its objects.
LEMMA PruneSparesPlaces ==
  ASSUME NEW R, NEW sweep, PruneAccepts(R, sweep),
         NEW p \in (dir["gen"] \ Removals(R, sweep).gen) \cup HeadPins
  PROVE  Closure(Places[p]) \cap (Removals(R, sweep).tree \cup Removals(R, sweep).leaf) = {}
<1>1. p \in RootGens(R) \cup KeptPlans(R, sweep)
  <2>1. Removals(R, sweep).gen = dir["gen"] \ RootGens(R)
    BY DEF Removals
  <2>2. HeadPins \subseteq RetainedPlans(R)
    BY DEF HeadPins, RetainedPlans
  <2>3. RetainedPlans(R) \subseteq dir["plan"] /\ R \cap RetainedPlans(R) = {}
    BY DEF PruneAccepts
  <2> QED BY <2>1, <2>2, <2>3 DEF KeptPlans, PrunedPlans
<1>2. Places[p] \subseteq UNION {Places[q] : q \in RootGens(R) \cup KeptPlans(R, sweep)}
  BY <1>1
<1>3. Closure(Places[p]) \subseteq KeptObjects(R, sweep)
  BY <1>2, ClosureMonotone DEF KeptObjects
<1> QED BY <1>3 DEF Removals

\* Every step keeps the objects of the generations, of what the head pins and of
\* the plan being committed.
LEMMA PlaceStep ==
  ASSUME TypeOK, Working, Known, PruneSpares, PlaceInv, [Next]_vars
  PROVE  PlaceInv'
<1>0. /\ \A p \in Plan : rec[p].auth # None => rec'[p] = rec[p]
      /\ "gen" \in Areas /\ "tree" \in Areas /\ "leaf" \in Areas
      /\ dir \in [Areas -> SUBSET Names] /\ pru.on \in Areas \cup {"idle"}
      /\ pru.todo \in [Areas -> SUBSET Names] /\ DOMAIN pru = {"on", "todo", "dirty"}
      /\ None \notin Plan
  BY KnownStep, RetentionConstants DEF TypeOK, DirType, Areas, Prunes
<1> DEFINE Steps == {"generation", "sync", "catalog"}
           Quiet == /\ head' = head /\ cuts' = cuts /\ dir'["gen"] = dir["gen"]
                    /\ Objects \subseteq Objects'
                    /\ com' \in Steps => com \in Steps /\ jrn' = jrn
                    /\ pru'.on # "idle" => pru.on # "idle" /\ pru'.todo = pru.todo
<1>1. Quiet => PlaceInv'
  BY <1>0, PlacesQuietly
<1>2. CASE (\E k \in Pack : CapturePack(k)) \/ (\E o \in Tree \cup Leaf : PublishObject(o))
           \/ (\E t \in Tree : PublishArchive(t)) \/ CommitFinish \/ CommitFails \/ Recover
           \/ (\E p \in Plan, auth \in Authorities, removes \in BOOLEAN :
                 PreparePlan(p, auth, removes))
           \/ UNCHANGED vars \/ CommitSync \/ PublishSync
  BY <1>1, <1>2 DEF CapturePack, PublishObject, PublishArchive, CommitFinish, CommitFails, Recover,
     PreparePlan, vars, CommitSync, PublishSync, Fsync, Objects, TransactionHeld
<1>3. ASSUME NEW n \in Blob \cup Tree \cup Leaf, PublishMember(n) PROVE PlaceInv'
  <2>1. AreaOf(n) \in {"blob", "tree", "leaf"}
    BY DEF AreaOf
  <2>2. Objects \subseteq Objects' /\ dir'["gen"] = dir["gen"]
    BY <1>0, <1>3, <2>1 DEF PublishMember, Change, Objects
  <2> QED BY <1>1, <1>3, <2>2 DEF PublishMember
<1>4. CASE PublishName
  <2>1. Objects \subseteq Objects' /\ dir'["gen"] = dir["gen"]
    BY <1>0, <1>4 DEF PublishName, Change, Objects
  <2> QED BY <1>1, <1>4, <2>1 DEF PublishName
<1>5. ASSUME NEW p \in Plan, CommitBegin(p) PROVE PlaceInv'
  <2>1. /\ UNCHANGED <<dir, rec, head, pru, cuts>> /\ jrn' = p /\ pru.on = "idle"
        /\ Derivable(rec[p]) /\ PlacesLoad({p, head} \ {None})
    BY <1>5 DEF CommitBegin, TransactionHeld
  <2>2. Objects' = Objects /\ HeadPins' = HeadPins
    BY <2>1 DEF Objects, HeadPins, Pins
  <2>3. Loaded(p)
    BY <1>0, <2>1, LoadsEach
  <2>4. ~rec[p].removes => \A q \in Pins(p) : Loaded(q)
    <3> SUFFICES ASSUME ~rec[p].removes, NEW q \in Pins(p) PROVE Loaded(q)
      OBVIOUS
    <3>1. PlacesLoad({q})
      BY <2>1 DEF Derivable, AuthorityIntact, PlanIntact, Pins
    <3> QED BY <3>1, LoadsEach
  <2>5. PlacesReady'
    BY <2>1, <2>2, <2>3, <2>4 DEF PlacesReady, Loaded, Pins
  <2>6. PlacesHeld' /\ PlacesSpared'
    BY <2>1, <2>2 DEF PlaceInv, PlacesHeld, PlacesSpared, Loaded
  <2> QED BY <2>1, <2>5, <2>6 DEF PlaceInv
<1>6. CASE CommitGeneration
  <2>1. /\ com = "generation" /\ com' = "sync" /\ UNCHANGED <<rec, head, jrn, pru, cuts>>
        /\ dir'["gen"] = dir["gen"] \cup {jrn}
        /\ dir'["tree"] = dir["tree"] /\ dir'["leaf"] = dir["leaf"]
    BY <1>0, <1>6 DEF CommitGeneration, Change
  <2>2. Objects' = Objects /\ HeadPins' = HeadPins /\ pru.on = "idle"
    BY <2>1 DEF Objects, HeadPins, Pins, Working
  <2>3. Loaded(jrn) /\ (~rec[jrn].removes => \A p \in Pins(jrn) : Loaded(p))
    BY <2>1 DEF PlaceInv, PlacesReady
  <2>4. PlacesHeld' /\ PlacesReady' /\ PlacesSpared'
    BY <2>1, <2>2, <2>3 DEF PlaceInv, PlacesHeld, PlacesReady, PlacesSpared, Loaded, Pins
  <2> QED BY <2>1, <2>4 DEF PlaceInv
<1>7. CASE CommitCatalog
  <2>1. /\ com = "catalog" /\ com' = "finish" /\ UNCHANGED <<dir, rec, pru, cuts>>
        /\ head' = IF rec[jrn].removes THEN None ELSE jrn
    BY <1>7 DEF CommitCatalog
  <2>2. Objects' = Objects /\ pru.on = "idle"
    BY <2>1 DEF Objects, Working
  <2>3. ~rec[jrn].removes => \A p \in Pins(jrn) : Loaded(p)
    BY <2>1 DEF PlaceInv, PlacesReady
  <2>4. \A p \in HeadPins' : Loaded(p)
    BY <2>1, <2>3 DEF HeadPins, Pins
  <2>5. PlacesHeld' /\ PlacesReady' /\ PlacesSpared'
    BY <2>1, <2>2, <2>4 DEF PlaceInv, PlacesHeld, PlacesReady, PlacesSpared, Loaded
  <2> QED BY <2>1, <2>5 DEF PlaceInv
<1>8. ASSUME NEW R \in SUBSET Plan, NEW sweep \in BOOLEAN, PruneBegin(R, sweep) PROVE PlaceInv'
  <2>1. /\ UNCHANGED <<dir, rec, head, jrn, com, cuts>> /\ PruneAccepts(R, sweep)
        /\ pru'.todo = Removals(R, sweep) /\ com = "idle"
    BY <1>8 DEF PruneBegin, TransactionHeld
  <2>2. Objects' = Objects /\ HeadPins' = HeadPins
    BY <2>1 DEF Objects, HeadPins, Pins
  <2>3. \A p \in (dir["gen"] \ Removals(R, sweep).gen) \cup HeadPins :
          Closure(Places[p]) \cap (Removals(R, sweep).tree \cup Removals(R, sweep).leaf) = {}
    BY <2>1, PruneSparesPlaces
  <2>4. PlacesSpared'
    BY <2>1, <2>2, <2>3 DEF PlacesSpared
  <2>5. PlacesHeld' /\ PlacesReady'
    BY <2>1, <2>2 DEF PlaceInv, PlacesHeld, PlacesReady, Loaded
  <2> QED BY <2>1, <2>4, <2>5 DEF PlaceInv
<1>9. ASSUME NEW n, PruneUnlink(n) PROVE PlaceInv'
  <2>1. /\ UNCHANGED <<rec, head, jrn, com, cuts>> /\ pru.on \in Areas /\ n \in pru.todo[pru.on]
        /\ dir' = [dir EXCEPT ![pru.on] = @ \ {n}] /\ pru'.on = pru.on
        /\ pru'.todo = [pru.todo EXCEPT ![pru.on] = @ \ {n}]
        /\ pru.on # "idle" /\ com = "idle"
    BY <1>0, <1>9 DEF PruneUnlink, Change, Working
  <2>2. HeadPins' = HeadPins /\ PlacesReady'
    BY <2>1 DEF HeadPins, Pins, PlacesReady
  <2>3. \A p \in (dir["gen"] \ pru.todo["gen"]) \cup HeadPins :
          Closure(Places[p]) \cap (pru.todo["tree"] \cup pru.todo["leaf"]) = {}
    BY <2>1 DEF PlaceInv, PlacesSpared
  <2>4. /\ dir'["gen"] \ pru'.todo["gen"] \subseteq dir["gen"] \ pru.todo["gen"]
        /\ dir'["gen"] \subseteq dir["gen"]
        /\ pru'.todo["tree"] \subseteq pru.todo["tree"]
        /\ pru'.todo["leaf"] \subseteq pru.todo["leaf"]
    BY <1>0, <2>1
  <2>5. PlacesSpared'
    BY <2>2, <2>3, <2>4 DEF PlacesSpared
  <2>6. PlacesHeld'
    <3>1. CASE pru.on \in {"tree", "leaf"}
      <4>1. pru.todo["gen"] = {}
        BY <2>1, <3>1 DEF PruneSpares
      <4>2. Objects \ (pru.todo["tree"] \cup pru.todo["leaf"]) \subseteq Objects'
        BY <1>0, <2>1, <3>1 DEF Objects
      <4>3. \A p \in dir["gen"] \cup HeadPins : Loaded(p) => Loaded(p)'
        BY <2>3, <4>1, <4>2 DEF Loaded
      <4> QED BY <2>2, <2>4, <4>3 DEF PlaceInv, PlacesHeld
    <3>2. CASE pru.on \notin {"tree", "leaf"}
      <4>1. Objects' = Objects
        BY <1>0, <2>1, <3>2 DEF Objects
      <4> QED BY <2>2, <2>4, <4>1 DEF PlaceInv, PlacesHeld, Loaded
    <3> QED BY <3>1, <3>2
  <2> QED BY <2>1, <2>2, <2>5, <2>6 DEF PlaceInv
<1>10. CASE PruneSync
  <2>1. dir' = dir /\ pru'.todo = pru.todo /\ pru.on # "idle"
    BY <1>0, <1>10 DEF PruneSync, Fsync
  <2> QED BY <1>1, <1>10, <2>1 DEF PruneSync, Objects
<1>11. CASE Kill
  <2>1. NoPrune.on = "idle"
    BY DEF NoPrune
  <2> QED BY <1>1, <1>11, <2>1 DEF Kill, Objects
<1>12. CASE PowerLoss
  BY <1>12 DEF PowerLoss, PlaceInv
<1> QED
  BY <1>2, <1>3, <1>4, <1>5, <1>6, <1>7, <1>8, <1>9, <1>10, <1>11, <1>12
     DEF Next, Engine, CommitStep, PruneStep

\* No power is lost; processes may die.
NoCuts == \A f \in Faults : f.cuts = 0

\* commit_v1 and prune_v1: until somebody else removes something, every object
\* that the head, its history and what it keeps besides can place is there,
\* whichever process dies where.
THEOREM PlacesSafe ==
  ASSUME NoCuts
  PROVE  InsSpec => []PlacesKept
<1> DEFINE v == <<vars, insVars>>
           Inv == InsInv /\ (~lost => HeadInv /\ PlaceInv)
<1>1. InsInit => Inv
  <2> SUFFICES ASSUME InsInit PROVE Inv
    OBVIOUS
  <2>1. ~lost => HeadInv
    BY UnlostInit DEF NoCuts, OneCut
  <2>2. PlaceInv
    BY DEF InsInit, Init, NoCuts, PlaceInv, PlacesHeld, PlacesReady, PlacesSpared, HeadPins,
       NoPrune, Areas
  <2> QED BY <2>1, <2>2, InsStart
<1>2. Inv /\ [InsNext]_v => Inv'
  <2> SUFFICES ASSUME Inv, [InsNext]_v PROVE Inv'
    OBVIOUS
  <2>1. InsInv' /\ (~lost => HeadInv)'
    BY InsStep, UnlostStep
  <2>2. ASSUME ~lost' PROVE PlaceInv'
    <3>1. [Next]_vars /\ lost' = lost
      BY <2>2 DEF InsNext, StoreStep, Lose, Open, Read, HitLimit, Finish, insVars
    <3> QED BY <2>2, <3>1, PlaceStep DEF InsInv, HeadInv, Held
  <2> QED BY <2>1, <2>2
<1>3. Inv => PlacesKept
  <2> SUFFICES ASSUME Inv, head # None, ~lost
               PROVE  PlacesLoad(Lineage(head, Keep(head)) \cup Points(head) \cup Pins(head))
    BY DEF PlacesKept
  <2>1. Needs(head) \subseteq dir["gen"]
    BY LeftNow DEF HeadInv, ClosureInv, Held, HeadHeld, Areas
  <2>2. \A p \in Lineage(head, Keep(head)) \cup Points(head) \cup Pins(head) : Loaded(p)
    BY <2>1 DEF Needs, PlaceInv, PlacesHeld, HeadPins
  <2> QED BY <2>2, LoadsAll
<1> QED BY <1>1, <1>2, <1>3, PTL DEF InsSpec
=============================================================================
