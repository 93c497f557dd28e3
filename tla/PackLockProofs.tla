--------------------------- MODULE PackLockProofs ---------------------------
(***************************************************************************)
(* Proofs about PackLock: what malm.lock says of the packs beside it, who  *)
(* publishes it, and what a loss of power leaves of it.                    *)
(***************************************************************************)
EXTENDS PackLock, NatLemmas

-----------------------------------------------------------------------------
\* Types.

Files == [Name -> Nat]
Dir == [files : Files, changed : Nat]
Gots == [Source -> Pack \cup {None}]
Body == {LockOf([got |-> g]) : g \in Gots} \cup UserLocks \cup {None, Junk}
File == [no : Nat, by : Proc \cup {None}, base : Nat, body : Body, synced : BOOLEAN]
Entry == [lock : File, staging : File]

DirsType(D) == D \in [Local -> Seq(Dir)] /\ \A s \in Local : Len(D[s]) > 0

StoreType ==
  /\ DirsType(dirs)
  /\ entry \in Seq(Entry) /\ Len(entry) = Len(dirs[Root])
  /\ disk \in Seq(SUBSET Entry) /\ Len(disk) = Len(dirs[Root])
  /\ acked \in Seq(Nat) /\ Len(acked) = Len(dirs[Root])
  /\ objects \subseteq Pack
  /\ stamp \in Nat /\ cuts \in Nat

Late == {"assemble", "unchanged", "kept", "write", "link", "stage", "check", "swap",
         "sync", "verify"}
Written == {"link", "stage", "check", "swap", "sync", "verify"}

OpType(o) ==
  /\ DOMAIN o = DOMAIN Idle /\ DOMAIN o.cap = DOMAIN NoCapture
  /\ o.pc \in {"idle", "open", "walk", "resolve"} \cup Late
  /\ o.dir \in Nat
  /\ o.old \in File /\ o.file \in File
  /\ o.pin \in [Local -> Nat] /\ o.got \in Gots /\ o.todo \subseteq Local

OpsType == DOMAIN op = Proc /\ \A p \in Proc : OpType(op[p])

-----------------------------------------------------------------------------
\* What a process has captured, of the directories D, when st is the last
\* version made.

InDir(o, D, s) == o.pin[s] \in 1 .. Len(D[s])
Cur(o, D, s) == D[s][o.pin[s]].files
OnPath(o, D, s) == o.pin[s] = Len(D[s])
Taken(o) == {s \in Local : o.got[s] # None}
Snapped(o) == o.todo # {} \/ o.pc \in Late

\* File n of f is not one that RemoveFile removes.
Stays(s, f, n) == f[n] = Absent \/ f[n] # First[s][n]

Versions(D, st) ==
  /\ \A s \in Local : \A n \in Name : First[s][n] <= st
  /\ \A s \in Local : \A i \in 1 .. Len(D[s]) : \A n \in Name : D[s][i].files[n] <= st

\* The control of an operation.
Control(o, D) ==
  /\ o.todo \subseteq Taken(o)
  /\ o.todo # {} => o.pc \in {"open", "walk"}
  /\ o.pc \in {"open", "walk"} =>
       o.cap.src \in Local /\ InDir(o, D, o.cap.src) /\ (o.todo # {} => o.got[o.cap.src] # None)
  /\ o.pc \in {"open", "walk"} => o.cap.src = Root \/ o.got[Root] # None
  /\ o.pc \in {"resolve"} \cup Late => o.got[Root] # None
  /\ o.pc = "walk" => o.cap.left \subseteq Name /\ o.cap.files \in Files

\* The packs of the first captures.
FirstCaptures(o, D, st) ==
  \A s \in Taken(o) :
    /\ InDir(o, D, s)
    /\ o.got[s].src = s /\ o.got[s].files[PackFile] # Absent
    /\ \A n \in Name :
         /\ o.got[s].files[n] <= st
         /\ o.got[s].files[n] = Absent /\ ~Narrowed(s, n) => Stays(s, Cur(o, D, s), n)

\* A capture in progress; the first one of its source.
Walk(o, D, st) ==
  o.pc = "walk" =>
    /\ \A n \in Name : o.cap.files[n] <= st
    /\ o.todo = {} =>
         \A n \in Name \ o.cap.left :
           o.cap.files[n] = Absent /\ ~Narrowed(o.cap.src, n)
             => Stays(o.cap.src, Cur(o, D, o.cap.src), n)

\* The instant between the captures.
Snaps(o, st) ==
  Snapped(o) =>
    \A s \in Taken(o) :
      /\ o.snap[s].files \in Files
      /\ \A n \in Name :
           /\ o.snap[s].files[n] <= st
           /\ o.snap[s].files[n] # Absent =>
                Covers(Decoded(s, o.snap[s].files[PackFile]), n)

\* What a source that is captured again can still show, from what was captured
\* (g), what was there at the instant (z) and what is there now (c).
Again(s, g, z, c) ==
  /\ c[PackFile] = g[PackFile] => z[PackFile] = g[PackFile]
  /\ \A n \in Name :
       /\ z[PackFile] = g[PackFile] /\ Covers(Decoded(s, g[PackFile]), n)
            /\ c[n] = g[n] /\ g[n] # Absent => z[n] = g[n]
       /\ z[n] # Absent /\ g[n] = Absent /\ ~Narrowed(s, n) => c[n] # Absent

Unsettled(o, D) ==
  o.todo # {} =>
    \A s \in Taken(o) : OnPath(o, D, s) =>
      Again(s, o.got[s].files, o.snap[s].files, Cur(o, D, s))

\* The second capture: what it has read (w), what it has still to read (left).
Rereading(s, g, z, c, w, left) ==
  /\ w[PackFile] = g[PackFile] => z[PackFile] = g[PackFile]
  /\ \A n \in Name :
       /\ (c[PackFile] = g[PackFile] \/ w[PackFile] = g[PackFile])
            /\ (n \in left \/ w[n] # Absent) => Covers(Decoded(s, g[PackFile]), n)
       /\ w[n] # Absent /\ w[n] = g[n] /\ z[PackFile] = g[PackFile]
            /\ Covers(Decoded(s, g[PackFile]), n) => z[n] = g[n]
       /\ (c[PackFile] = g[PackFile] \/ w[PackFile] = g[PackFile])
            /\ Covers(Decoded(s, g[PackFile]), n)
            /\ n \notin left /\ w[n] = Absent /\ z[n] # Absent
            => c[n] # z[n] /\ (Narrowed(s, n) \/ g[n] # Absent)

SecondWalk(o, D) ==
  o.pc = "walk" /\ o.todo # {} /\ OnPath(o, D, o.cap.src) =>
    Rereading(o.cap.src, o.got[o.cap.src].files, o.snap[o.cap.src].files,
              Cur(o, D, o.cap.src), o.cap.files, o.cap.left)

\* What has been captured twice.
IsSnapshot(o, D, s) ==
  \A n \in Name :
    \/ o.got[s].files[n] = o.snap[s].files[n]
    \/ /\ o.got[s].files[n] = Absent /\ Narrowed(s, n)
       /\ Cur(o, D, s)[n] # o.snap[s].files[n]

Settled(o, D) == Snapped(o) => \A s \in Taken(o) \ o.todo : IsSnapshot(o, D, s)

Captures(o, D, st) ==
  /\ Control(o, D) /\ FirstCaptures(o, D, st) /\ Walk(o, D, st) /\ Snaps(o, st)
  /\ Unsettled(o, D) /\ SecondWalk(o, D) /\ Settled(o, D)

CapturesInv == Versions(dirs, stamp) /\ \A p \in Proc : Captures(op[p], dirs, stamp)

-----------------------------------------------------------------------------
\* What a process has published.

\* The flock.
Exclusive ==
  \A p, q \in Proc : op[p].pc # "idle" /\ op[q].pc # "idle" /\ op[p].dir = op[q].dir => p = q

\* A file exists once it has a number.
Numbered(f, st) == f.no <= st /\ (f.no = 0 => f = NoFile)

Kept(e, a) == a # 0 => e.lock.no >= a /\ e.lock.synced = TRUE /\ Decodes(e.lock)

GoodEntry(e, a, st) ==
  /\ Numbered(e.lock, st) /\ Kept(e, a)
  /\ e.staging.synced = TRUE /\ Decodes(e.staging)

DirInv(d, E, K, A, st) ==
  E[d] \in K[d] /\ A[d] <= st /\ \A e \in K[d] : GoodEntry(e, A[d], st)

DirsInv == \A d \in 1 .. Len(dirs[Root]) : DirInv(d, entry, disk, acked, stamp)

\* The file an operation has written, wherever it is.
FileInv(o, p, st) ==
  /\ Numbered(o.old, st)
  /\ o.file # NoFile => o.pc \in Written
  /\ o.pc \in Written =>
       /\ o.file.by = p /\ o.file.base = o.old.no /\ o.file.body = LockOf(o)
       /\ o.file.no \in 1 .. st /\ o.file.synced = TRUE
  /\ o.pc # "idle" /\ o.kind = "update" => Readable(o.old)
  /\ o.pc \in {"unchanged", "kept"} => o.kind = "update"

\* The operation and the directory it holds: its entry e, what a loss of power
\* may leave k, the acknowledged lock a.
HeldInv(o, e, k, a) ==
  /\ o.pc \in Written => a <= o.file.no
  /\ o.pc \in {"check", "swap"} => e.staging = o.file
  /\ o.pc = "swap" => (e.lock.by # None => e.lock.no = o.old.no)
  /\ o.pc = "verify" /\ e.lock.no = o.file.no => \A x \in k : x.lock = o.file
  /\ o.pc = "kept" => /\ o.old.synced = TRUE
                      /\ e.lock = o.old => \A x \in k : x.lock = o.old

PublishInv ==
  /\ Exclusive /\ DirsInv
  /\ \A p \in Proc :
       /\ FileInv(op[p], p, stamp)
       /\ op[p].pc # "idle" =>
            /\ op[p].dir \in 1 .. Len(dirs[Root])
            /\ HeldInv(op[p], entry[op[p].dir], disk[op[p].dir], acked[op[p].dir])

IInv == StoreType /\ OpsType /\ CapturesInv /\ PublishInv

-----------------------------------------------------------------------------
\* The constants.

LEMMA Constants ==
  /\ Root \in Local /\ Local \subseteq Source /\ Git \subseteq Source
  /\ \A s \in Git : s \notin Local
  /\ PackFile \in Name /\ None \notin Pack /\ None # Junk
  /\ First \in [Local -> [Name -> {Absent, 1}]]
  /\ \A s \in Git : GitPack[s] \in Pack
BY PackGraphConstants, PackLockConstants

LEMMA NamesListed == Names \in Seq(STRING) /\ \A n \in Name : \E i \in DOMAIN Names : Names[i] = n
BY PackGraphConstants DEF Name, ToSet

LEMMA SourcesListed ==
  Order \in Seq(Source) /\ \A s \in Source : \E i \in DOMAIN Order : Order[i] = s
BY PackLockConstants

\* What is taken first of a set is in it.
LEMMA FirstOfIn ==
  ASSUME NEW U, NEW seq \in Seq(U), NEW S, S # {},
         \A x \in S : \E i \in DOMAIN seq : seq[i] = x
  PROVE  FirstOf(seq, S) \in S
<1> DEFINE C == {i \in DOMAIN seq : seq[i] \in S}
<1>1. C \in SUBSET Nat /\ C # {} OBVIOUS
<1>2. PICK m \in C : \A k \in C : m <= k BY <1>1, Least
<1>3. \E i \in DOMAIN seq : seq[i] \in S /\ \A j \in DOMAIN seq : seq[j] \in S => i <= j
  BY <1>2
<1> QED BY <1>3 DEF FirstOf

\* What Idle and NoFile are.
LEMMA IdleShape ==
  /\ DOMAIN Idle = {"pc", "kind", "dir", "input", "old", "pin", "got", "pending", "edges", "used",
                    "bytes", "count", "cap", "todo", "snap", "file"}
  /\ DOMAIN NoCapture = {"src", "changed", "left", "files"}
  /\ Idle.pc = "idle" /\ Idle.kind = None /\ Idle.dir = 0 /\ Idle.old = NoFile /\ Idle.todo = {}
  /\ Idle.pin = [s \in Local |-> 0] /\ Idle.got = [s \in Source |-> None] /\ Idle.file = NoFile
  /\ Idle.cap = NoCapture
BY DEF Idle, NoCapture

LEMMA NoFileType == NoFile \in File /\ NoFile.no = 0 /\ NoFile.synced = TRUE /\ NoFile.by = None
                    /\ Decodes(NoFile) /\ NoFile.body = None
<1>1. None \in Body BY DEF Body
<1>2. NoFile.body = None /\ None # Junk BY Constants DEF NoFile
<1> QED BY <1>1, <1>2 DEF NoFile, File, Decodes

LEMMA IdleType == OpType(Idle)
<1>1. Idle.pin \in [Local -> Nat] /\ Idle.got \in Gots BY IdleShape DEF Gots
<1> QED BY <1>1, IdleShape, NoFileType DEF OpType

\* An operation that is over satisfies whatever is asked of one.
LEMMA IdleCaptures ==
  ASSUME NEW D, NEW st
  PROVE  Captures(Idle, D, st)
<1>1. Taken(Idle) = {} /\ ~Snapped(Idle) /\ Idle.pc = "idle"
  BY IdleShape, Constants DEF Taken, Snapped, Late
<1> QED BY <1>1, IdleShape
    DEF Captures, Control, FirstCaptures, Walk, Snaps, Unsettled, SecondWalk, Settled, Late

LEMMA IdleFile ==
  ASSUME NEW p, NEW st \in Nat
  PROVE  FileInv(Idle, p, st)
BY IdleShape, NoFileType DEF FileInv, Numbered, Written

-----------------------------------------------------------------------------
\* The captures of one operation, through its own steps.

\* A step that leaves captures, pins and phase alone.
LEMMA SameCaptures ==
  ASSUME NEW o, NEW x, NEW D, NEW st, Captures(o, D, st),
         x.got = o.got, x.pin = o.pin, x.todo = o.todo, x.snap = o.snap, x.cap = o.cap,
         x.pc = o.pc \/ (o.pc \in Late /\ x.pc \in Late)
  PROVE  Captures(x, D, st)
<1>1. Taken(x) = Taken(o) /\ Snapped(x) = Snapped(o) BY DEF Taken, Snapped
<1>2. \A s \in Local : InDir(x, D, s) = InDir(o, D, s) /\ OnPath(x, D, s) = OnPath(o, D, s)
                         /\ Cur(x, D, s) = Cur(o, D, s)
  BY DEF InDir, OnPath, Cur
<1>3. x.pc \in {"open", "walk"} <=> o.pc \in {"open", "walk"} BY DEF Late
<1>4. x.pc = "walk" <=> o.pc = "walk" BY DEF Late
<1>5. x.pc \in {"resolve"} \cup Late <=> o.pc \in {"resolve"} \cup Late OBVIOUS
<1>6. Control(x, D) BY <1>1, <1>2, <1>3, <1>4, <1>5 DEF Captures, Control
<1>7. FirstCaptures(x, D, st)
  <2>1. Taken(o) \subseteq Local BY DEF Taken
  <2> QED BY <1>1, <1>2, <2>1 DEF Captures, FirstCaptures
<1>8. Walk(x, D, st)
  BY <1>2, <1>4 DEF Captures, Control, Walk
<1>9. Snaps(x, st) BY <1>1 DEF Captures, Snaps
<1>10. Unsettled(x, D)
  <2>1. Taken(o) \subseteq Local BY DEF Taken
  <2> QED BY <1>1, <1>2, <2>1 DEF Captures, Unsettled
<1>11. SecondWalk(x, D)
  <2>1. o.pc = "walk" => o.cap.src \in Local BY DEF Captures, Control
  <2> QED BY <1>2, <1>4, <2>1 DEF Captures, SecondWalk
<1>12. Settled(x, D)
  <2>1. Taken(o) \subseteq Local BY DEF Taken
  <2> QED BY <1>1, <1>2, <2>1 DEF Captures, Settled, IsSnapshot
<1> QED BY <1>6, <1>7, <1>8, <1>9, <1>10, <1>11, <1>12 DEF Captures



LEMMA CurType ==
  ASSUME NEW o, NEW D, DirsType(D), NEW s \in Local, InDir(o, D, s)
  PROVE  Cur(o, D, s) \in Files
<1>1. D[s] \in Seq(Dir) BY DEF DirsType
<1>2. D[s][o.pin[s]] \in Dir BY <1>1 DEF InDir
<1> QED BY <1>2 DEF Cur, Dir

LEMMA CurOld ==
  ASSUME NEW o, NEW D, NEW st, Versions(D, st), NEW s \in Local, InDir(o, D, s)
  PROVE  \A n \in Name : Cur(o, D, s)[n] <= st
BY DEF Versions, InDir, Cur

\* A manifest that leaves a file out is one that Narrowed knows.
LEMMA NotCovered ==
  ASSUME NEW s, NEW v, NEW n, ~Covers(Decoded(s, v), n)
  PROVE  Narrowed(s, n)
<1>1. v \in DOMAIN Manifests[s] BY DEF Decoded, Covers
<1> QED BY <1>1 DEF Decoded, Narrowed

\* CaptureOpen: the names are what is there, of what the manifest covers.
LEMMA OpenCaptures ==
  ASSUME NEW o, NEW x, NEW D, NEW st \in Nat, DirsType(D), Captures(o, D, st),
         o.pc = "open", x.pc = "walk",
         x.got = o.got, x.pin = o.pin, x.todo = o.todo, x.snap = o.snap, x.cap.src = o.cap.src,
         x.cap.files = [n \in Name |-> Absent],
         x.cap.left = {n \in Name : /\ Cur(o, D, o.cap.src)[n] # Absent
                                    /\ Covers(Decoded(o.cap.src, Cur(o, D, o.cap.src)[PackFile]), n)}
  PROVE  Captures(x, D, st)
<1> DEFINE s == o.cap.src
           c == Cur(o, D, s)
           g == o.got[s].files
           z == o.snap[s].files
<1>1. Taken(x) = Taken(o) /\ Snapped(x) = Snapped(o) BY DEF Taken, Snapped, Late
<1>2. \A t \in Local : InDir(x, D, t) = InDir(o, D, t) /\ OnPath(x, D, t) = OnPath(o, D, t)
                         /\ Cur(x, D, t) = Cur(o, D, t)
  BY DEF InDir, OnPath, Cur
<1>3. s \in Local /\ InDir(o, D, s) /\ (o.todo # {} => o.got[s] # None)
  BY DEF Captures, Control
<1>4. x.cap.left \subseteq Name /\ x.cap.files \in Files BY DEF Files, Absent
<1>5. \A n \in Name : x.cap.files[n] = 0 BY DEF Absent
<1>6. Control(x, D) BY <1>1, <1>2, <1>3, <1>4 DEF Captures, Control, Late
<1>7. FirstCaptures(x, D, st)
  <2>1. Taken(o) \subseteq Local BY DEF Taken
  <2> QED BY <1>1, <1>2, <2>1 DEF Captures, FirstCaptures
<1>8. Walk(x, D, st)
  <2>1. ASSUME NEW n \in Name \ x.cap.left, ~Narrowed(s, n)
        PROVE  Stays(s, c, n)
    <3>1. Covers(Decoded(s, c[PackFile]), n) BY <2>1, NotCovered
    <3>2. c[n] = Absent BY <2>1, <3>1
    <3> QED BY <3>2 DEF Stays
  <2> QED BY <2>1, <1>5, <1>2, <1>3 DEF Walk
<1>9. Snaps(x, st) BY <1>1 DEF Captures, Snaps
<1>10. Unsettled(x, D)
  <2>1. Taken(o) \subseteq Local BY DEF Taken
  <2> QED BY <1>1, <1>2, <2>1 DEF Captures, Unsettled
<1>11. SecondWalk(x, D)
  <2> SUFFICES ASSUME o.todo # {}, OnPath(o, D, s)
               PROVE  Rereading(s, g, z, c, x.cap.files, x.cap.left)
    BY <1>2, <1>3 DEF SecondWalk
  <2>1. s \in Taken(o) BY <1>3 DEF Taken
  <2>2. g[PackFile] # Absent BY <2>1 DEF Captures, FirstCaptures
  <2>3. Again(s, g, z, c) BY <2>1 DEF Captures, Unsettled
  <2>4. x.cap.files[PackFile] # g[PackFile] BY <2>2, Constants
  <2>5. ASSUME NEW n \in Name
        PROVE  c[PackFile] = g[PackFile] /\ n \in x.cap.left => Covers(Decoded(s, g[PackFile]), n)
    OBVIOUS
  <2>6. ASSUME NEW n \in Name, c[PackFile] = g[PackFile], Covers(Decoded(s, g[PackFile]), n),
               n \notin x.cap.left, z[n] # Absent
        PROVE  c[n] # z[n] /\ (Narrowed(s, n) \/ g[n] # Absent)
    <3>1. c[n] = Absent BY <2>6
    <3> QED BY <3>1, <2>3, <2>6 DEF Again
  <2>7. \A n \in Name : x.cap.files[n] = Absent OBVIOUS
  <2> HIDE DEF g, z, c, s
  <2> QED BY <2>4, <2>5, <2>6, <2>7, Constants DEF Rereading
<1>12. Settled(x, D)
  <2>1. Taken(o) \subseteq Local BY DEF Taken
  <2> QED BY <1>1, <1>2, <2>1 DEF Captures, Settled, IsSnapshot
<1> QED BY <1>6, <1>7, <1>8, <1>9, <1>10, <1>11, <1>12 DEF Captures

\* CaptureFile: one more file is read as it is now.
LEMMA FileCaptures ==
  ASSUME NEW o, NEW x, NEW D, NEW st \in Nat, NEW m \in o.cap.left, DirsType(D), Versions(D, st),
         Captures(o, D, st), o.pc = "walk", x.pc = "walk",
         x.got = o.got, x.pin = o.pin, x.todo = o.todo, x.snap = o.snap, x.cap.src = o.cap.src,
         Cur(o, D, o.cap.src)[m] # Absent,
         x.cap.files = [o.cap.files EXCEPT ![m] = Cur(o, D, o.cap.src)[m]],
         x.cap.left = o.cap.left \ {m}
  PROVE  Captures(x, D, st)
<1> DEFINE s == o.cap.src
           c == Cur(o, D, s)
           g == o.got[s].files
           z == o.snap[s].files
           w == o.cap.files
           v == x.cap.files
<1>1. Taken(x) = Taken(o) /\ Snapped(x) = Snapped(o) BY DEF Taken, Snapped, Late
<1>2. \A t \in Local : InDir(x, D, t) = InDir(o, D, t) /\ OnPath(x, D, t) = OnPath(o, D, t)
                         /\ Cur(x, D, t) = Cur(o, D, t)
  BY DEF InDir, OnPath, Cur
<1>3. s \in Local /\ InDir(o, D, s) /\ (o.todo # {} => o.got[s] # None)
  BY DEF Captures, Control
<1>4. o.cap.left \subseteq Name /\ w \in Files /\ m \in Name BY DEF Captures, Control
<1>5. c \in Files /\ \A n \in Name : c[n] <= st
  BY <1>3, CurType, CurOld
<1>6. v \in Files /\ v[m] = c[m] /\ \A n \in Name : n # m => v[n] = w[n]
  BY <1>4, <1>5 DEF Files
<1>7. Control(x, D) BY <1>1, <1>2, <1>3, <1>4, <1>6 DEF Captures, Control, Late
<1>8. FirstCaptures(x, D, st)
  <2>1. Taken(o) \subseteq Local BY DEF Taken
  <2> QED BY <1>1, <1>2, <2>1 DEF Captures, FirstCaptures
<1>9. Walk(x, D, st)
  <2>1. \A n \in Name : v[n] <= st
    BY <1>4, <1>5, <1>6 DEF Captures, Walk
  <2>2. ASSUME NEW n \in Name \ x.cap.left, v[n] = Absent, ~Narrowed(s, n), o.todo = {}
        PROVE  Stays(s, c, n)
    <3>1. n # m BY <2>2, <1>6
    <3>2. n \in Name \ o.cap.left /\ w[n] = Absent BY <3>1, <2>2, <1>6
    <3> QED BY <3>2, <2>2 DEF Captures, Walk
  <2> QED BY <2>1, <2>2, <1>2, <1>3 DEF Walk
<1>10. Snaps(x, st) BY <1>1 DEF Captures, Snaps
<1>11. Unsettled(x, D)
  <2>1. Taken(o) \subseteq Local BY DEF Taken
  <2> QED BY <1>1, <1>2, <2>1 DEF Captures, Unsettled
<1>12. SecondWalk(x, D)
  <2> SUFFICES ASSUME o.todo # {}, OnPath(o, D, s)
               PROVE  Rereading(s, g, z, c, v, x.cap.left)
    BY <1>2, <1>3 DEF SecondWalk
  <2>1. s \in Taken(o) BY <1>3 DEF Taken
  <2>2. Again(s, g, z, c) BY <2>1 DEF Captures, Unsettled
  <2>3. Rereading(s, g, z, c, w, o.cap.left) BY DEF Captures, SecondWalk
  <2>4. PackFile \in Name BY Constants
  <2>5. c[m] # Absent /\ x.cap.left = o.cap.left \ {m} OBVIOUS
  <2> HIDE DEF g, z, c, s, v, w
  <2>6. v[PackFile] = g[PackFile] => w[PackFile] = g[PackFile] \/ c[PackFile] = g[PackFile]
    BY <1>6, <2>4
  <2>7. v[PackFile] = g[PackFile] => z[PackFile] = g[PackFile]
    BY <2>6, <2>2, <2>3 DEF Again, Rereading
  <2>8. ASSUME NEW n \in Name
        PROVE  /\ (c[PackFile] = g[PackFile] \/ v[PackFile] = g[PackFile])
                    /\ (n \in x.cap.left \/ v[n] # Absent) => Covers(Decoded(s, g[PackFile]), n)
               /\ v[n] # Absent /\ v[n] = g[n] /\ z[PackFile] = g[PackFile]
                    /\ Covers(Decoded(s, g[PackFile]), n) => z[n] = g[n]
    <3>1. CASE n = m BY <3>1, <2>2, <2>3, <2>6, <1>6 DEF Again, Rereading
    <3>2. CASE n # m BY <3>2, <2>3, <2>5, <2>6, <1>6 DEF Rereading
    <3> QED BY <3>1, <3>2
  <2>9. ASSUME NEW n \in Name, c[PackFile] = g[PackFile] \/ v[PackFile] = g[PackFile],
               Covers(Decoded(s, g[PackFile]), n), n \notin x.cap.left, v[n] = Absent, z[n] # Absent
        PROVE  c[n] # z[n] /\ (Narrowed(s, n) \/ g[n] # Absent)
    <3>1. n # m BY <2>9, <2>5, <1>6
    <3>2. n \notin o.cap.left /\ w[n] = Absent BY <3>1, <2>9, <2>5, <1>6
    <3> QED BY <3>2, <2>9, <2>6, <2>3 DEF Rereading
  <2> QED BY <2>7, <2>8, <2>9 DEF Rereading
<1>13. Settled(x, D)
  <2>1. Taken(o) \subseteq Local BY DEF Taken
  <2> QED BY <1>1, <1>2, <2>1 DEF Captures, Settled, IsSnapshot
<1> QED BY <1>7, <1>8, <1>9, <1>10, <1>11, <1>12, <1>13 DEF Captures

\* Discovered: the first capture of a source is over.
LEMMA DiscoveredCaptures ==
  ASSUME NEW o, NEW x, NEW D, NEW st \in Nat, Captures(o, D, st), OpType(o),
         o.pc = "walk", o.todo = {}, o.cap.left = {}, o.cap.files[PackFile] # Absent,
         x.pc = "resolve", x.todo = {}, x.pin = o.pin,
         x.got = [o.got EXCEPT ![o.cap.src] = PackOf(o.cap.src, o.cap.files)]
  PROVE  Captures(x, D, st) /\ x.got \in Gots
<1> DEFINE s == o.cap.src
           pack == PackOf(s, o.cap.files)
<1>1. s \in Local /\ InDir(o, D, s) /\ o.cap.files \in Files BY DEF Captures, Control
<1>2. pack \in Pack /\ pack # None /\ pack.src = s /\ pack.files = o.cap.files
  BY <1>1, Constants DEF PackOf, Pack, Files
<1>3. o.got \in Gots BY DEF OpType
<1>4. s \in Source BY <1>1, Constants
<1> HIDE DEF pack
<1>5. x.got[s] = pack /\ \A t \in Source : t # s => x.got[t] = o.got[t]
  BY <1>3, <1>4 DEF Gots, pack
<1>6. x.got \in Gots BY <1>2, <1>3, <1>4 DEF Gots, pack
<1>7. ~Snapped(x) BY DEF Snapped, Late
<1>8. x.got[Root] # None
  BY <1>2, <1>5, Constants DEF Captures, Control
<1>9. Control(x, D) BY <1>8 DEF Control
<1>10. \A t \in Local : InDir(x, D, t) = InDir(o, D, t) /\ Cur(x, D, t) = Cur(o, D, t)
  BY DEF InDir, Cur
<1>11. FirstCaptures(x, D, st)
  <2> SUFFICES ASSUME NEW t \in Taken(x)
               PROVE  /\ InDir(o, D, t)
                      /\ x.got[t].src = t /\ x.got[t].files[PackFile] # Absent
                      /\ \A n \in Name :
                           /\ x.got[t].files[n] <= st
                           /\ x.got[t].files[n] = Absent /\ ~Narrowed(t, n)
                                => Stays(t, Cur(o, D, t), n)
    <3>1. Taken(x) \subseteq Local BY DEF Taken
    <3> QED BY <1>10, <3>1 DEF FirstCaptures
  <2>1. t \in Local /\ t \in Source BY Constants DEF Taken
  <2>2. CASE t = s
    BY <2>2, <1>1, <1>2, <1>5 DEF Captures, Walk
  <2>3. CASE t # s
    <3>1. t \in Taken(o) /\ x.got[t] = o.got[t] BY <2>1, <2>3, <1>5 DEF Taken
    <3> QED BY <3>1 DEF Captures, FirstCaptures
  <2> QED BY <2>2, <2>3
<1>12. x.pc # "walk" OBVIOUS
<1> QED BY <1>6, <1>7, <1>9, <1>11, <1>12 DEF Captures, Walk, Snaps, Unsettled, SecondWalk, Settled

\* LocalEdge: the directory of one more source is pinned.
LEMMA EdgeCaptures ==
  ASSUME NEW o, NEW x, NEW D, NEW st \in Nat, NEW s \in Local, Captures(o, D, st), OpType(o),
         DirsType(D), o.pc = "resolve", o.got[s] = None, x.pc = "open", x.todo = o.todo,
         x.got = o.got, x.cap.src = s,
         x.pin[s] = Len(D[s]), \A t \in Local : t # s => x.pin[t] = o.pin[t]
  PROVE  Captures(x, D, st)
<1>1. o.todo = {} /\ o.got[Root] # None BY DEF Captures, Control
<1>2. Len(D[s]) \in Nat /\ Len(D[s]) > 0 BY DEF DirsType
<1>3. Taken(x) = Taken(o) /\ s \notin Taken(x) /\ Taken(x) \subseteq Local /\ ~Snapped(x)
  BY <1>1 DEF Taken, Snapped, Late
<1>4. InDir(x, D, s) BY <1>2 DEF InDir
<1>5. \A t \in Taken(x) : InDir(x, D, t) = InDir(o, D, t) /\ Cur(x, D, t) = Cur(o, D, t)
  BY <1>3 DEF InDir, Cur
<1>6. Control(x, D) BY <1>1, <1>4 DEF Control, Late
<1>7. FirstCaptures(x, D, st) BY <1>3, <1>5 DEF Captures, FirstCaptures
<1> QED BY <1>1, <1>3, <1>6, <1>7 DEF Captures, Walk, Snaps, Unsettled, SecondWalk, Settled

\* GitEdge: the packs of other sources do not matter here.
LEMMA GitCaptures ==
  ASSUME NEW o, NEW x, NEW D, NEW st \in Nat, Captures(o, D, st),
         o.pc = "resolve", x.pc = "resolve", x.todo = o.todo, x.pin = o.pin,
         \A t \in Local : x.got[t] = o.got[t]
  PROVE  Captures(x, D, st)
<1>1. o.todo = {} /\ o.got[Root] # None BY DEF Captures, Control
<1>2. Taken(x) = Taken(o) /\ Taken(x) \subseteq Local /\ ~Snapped(x)
  BY <1>1 DEF Taken, Snapped, Late
<1>3. \A t \in Taken(x) : InDir(x, D, t) = InDir(o, D, t) /\ Cur(x, D, t) = Cur(o, D, t)
                            /\ x.got[t] = o.got[t]
  BY <1>2 DEF InDir, Cur
<1>4. Control(x, D) BY <1>1, Constants DEF Control
<1>5. FirstCaptures(x, D, st) BY <1>2, <1>3 DEF Captures, FirstCaptures
<1> QED BY <1>1, <1>2, <1>4, <1>5 DEF Captures, Walk, Snaps, Unsettled, SecondWalk, Settled

\* Disk, file by file.
LEMMA DiskFiles ==
  ASSUME NEW s \in Local, DirsType(dirs), NEW z, z = Disk(s).files, NEW b, b = Bound(s).files
  PROVE  /\ b \in Files /\ z \in Files /\ z[PackFile] = b[PackFile]
         /\ \A n \in Name :
              IF Covers(Decoded(s, b[PackFile]), n) THEN z[n] = b[n] ELSE z[n] = Absent
<1>1. dirs[s] \in Seq(Dir) /\ Len(dirs[s]) > 0 BY DEF DirsType
<1>2. Bound(s) \in Dir BY <1>1 DEF Bound
<1>3. b \in Files BY <1>2 DEF Dir
<1>4. z = [n \in Name |-> IF Covers(Decoded(s, b[PackFile]), n) THEN b[n] ELSE Absent]
  BY DEF Disk, PackOf
<1>5. Absent \in Nat BY DEF Absent
<1>6. \A n \in Name : b[n] \in Nat BY <1>3 DEF Files
<1>7. z \in Files BY <1>4, <1>5, <1>6 DEF Files
<1>8. Covers(Decoded(s, b[PackFile]), PackFile) BY DEF Covers
<1>9. \A n \in Name : z[n] = IF Covers(Decoded(s, b[PackFile]), n) THEN b[n] ELSE Absent BY <1>4
<1> QED BY <1>3, <1>7, <1>8, <1>9, Constants

\* GraphResolved: the instant between the captures.
LEMMA ResolvedCaptures ==
  ASSUME NEW o, NEW x, NEW st \in Nat, DirsType(dirs), Versions(dirs, st),
         Captures(o, dirs, st), OpType(o),
         o.pc = "resolve", x.pc = "open", x.got = o.got, x.pin = o.pin,
         x.todo = Taken(o), x.cap.src = FirstOf(Order, Taken(o)),
         x.snap = [s \in Local |-> Disk(s)]
  PROVE  Captures(x, dirs, st)
<1>1. o.got[Root] # None /\ Root \in Taken(o) BY Constants DEF Captures, Control, Taken
<1>2. Taken(x) = Taken(o) /\ Taken(o) \subseteq Local BY DEF Taken
<1>3. x.cap.src \in Taken(o)
  <2>1. \A s \in Taken(o) : \E i \in DOMAIN Order : Order[i] = s BY <1>2, Constants, SourcesListed
  <2> QED BY <1>1, <2>1, SourcesListed, FirstOfIn
<1>4. \A s \in Local : /\ InDir(x, dirs, s) = InDir(o, dirs, s) /\ Cur(x, dirs, s) = Cur(o, dirs, s)
                       /\ OnPath(x, dirs, s) = OnPath(o, dirs, s)
  BY DEF InDir, Cur, OnPath
<1>5. FirstCaptures(x, dirs, st) BY <1>2, <1>4 DEF Captures, FirstCaptures
<1>6. Control(x, dirs)
  <2>1. InDir(x, dirs, x.cap.src) /\ x.got[x.cap.src] # None
    BY <1>3, <1>2, <1>5 DEF FirstCaptures, Taken
  <2> QED BY <2>1, <1>1, <1>2, <1>3 DEF Control, Late
<1>7. ASSUME NEW s \in Local
      PROVE  LET z == x.snap[s].files
             IN /\ z \in Files
                /\ \A n \in Name : /\ z[n] <= st
                                   /\ z[n] # Absent => Covers(Decoded(s, z[PackFile]), n)
  <2> DEFINE z == x.snap[s].files
             b == Bound(s).files
  <2>1. z = Disk(s).files OBVIOUS
  <2>2. \A n \in Name : b[n] <= st
    BY DEF Versions, DirsType, Bound
  <2> HIDE DEF z, b
  <2>3. b = Bound(s).files BY DEF b
  <2>4. /\ b \in Files /\ z \in Files /\ z[PackFile] = b[PackFile]
        /\ \A n \in Name : IF Covers(Decoded(s, b[PackFile]), n) THEN z[n] = b[n] ELSE z[n] = Absent
    BY <2>1, <2>3, DiskFiles
  <2>5. /\ z \in Files
        /\ \A n \in Name : z[n] <= st /\ (z[n] # Absent => Covers(Decoded(s, z[PackFile]), n))
    BY <2>2, <2>4 DEF Absent
  <2> QED BY <2>5 DEF z
<1>8. Snaps(x, st) BY <1>2, <1>7 DEF Snaps
<1>9. Unsettled(x, dirs)
  <2> SUFFICES ASSUME NEW s \in Taken(o), OnPath(o, dirs, s)
               PROVE  Again(s, o.got[s].files, x.snap[s].files, Cur(o, dirs, s))
    BY <1>2, <1>4 DEF Unsettled
  <2> DEFINE z == x.snap[s].files
             c == Cur(o, dirs, s)
             g == o.got[s].files
  <2>1. s \in Local BY <1>2
  <2>2. z = Disk(s).files BY <2>1
  <2>3. c = Bound(s).files BY DEF OnPath, Cur, Bound
  <2> HIDE DEF z, c, g
  <2>4. /\ z[PackFile] = c[PackFile]
        /\ \A n \in Name : IF Covers(Decoded(s, c[PackFile]), n) THEN z[n] = c[n] ELSE z[n] = Absent
    BY <2>1, <2>2, <2>3, DiskFiles
  <2>5. Again(s, g, z, c) BY <2>4 DEF Again
  <2> QED BY <2>5 DEF z, c, g
<1>10. Settled(x, dirs) BY <1>2 DEF Settled
<1> QED BY <1>5, <1>6, <1>8, <1>9, <1>10 DEF Captures, Walk, SecondWalk

\* Revalidated: a source has been captured twice, with the same files.
LEMMA TwiceCaptures ==
  ASSUME NEW o, NEW x, NEW D, NEW st \in Nat, Captures(o, D, st), OpType(o),
         o.pc = "walk", o.todo # {}, o.cap.left = {}, OnPath(o, D, o.cap.src),
         o.got[o.cap.src].files = o.cap.files,
         x.got = o.got, x.pin = o.pin, x.snap = o.snap, x.todo = o.todo \ {o.cap.src},
         x.pc = IF x.todo = {} THEN "assemble" ELSE "open",
         x.todo # {} => x.cap.src = FirstOf(Order, x.todo)
  PROVE  Captures(x, D, st)
<1> DEFINE s == o.cap.src
           c == Cur(o, D, s)
           g == o.got[s].files
           z == o.snap[s].files
<1>1. s \in Taken(o) /\ o.todo \subseteq Taken(o) /\ Taken(o) \subseteq Local
  BY DEF Captures, Control, Taken
<1>2. Taken(x) = Taken(o) /\ Snapped(x) /\ Snapped(o) BY DEF Taken, Snapped, Late
<1>3. x.todo # {} => x.cap.src \in x.todo
  <2>1. \A t \in x.todo : \E i \in DOMAIN Order : Order[i] = t BY <1>1, Constants, SourcesListed
  <2>2. ASSUME x.todo # {} PROVE FirstOf(Order, x.todo) \in x.todo
    BY <2>1, <2>2, SourcesListed, FirstOfIn
  <2> QED BY <2>2
<1>4. \A t \in Local : /\ InDir(x, D, t) = InDir(o, D, t) /\ Cur(x, D, t) = Cur(o, D, t)
                       /\ OnPath(x, D, t) = OnPath(o, D, t)
  BY DEF InDir, Cur, OnPath
<1>5. FirstCaptures(x, D, st) BY <1>1, <1>2, <1>4 DEF Captures, FirstCaptures
<1>6. Control(x, D)
  <2>1. o.got[Root] # None
    <3>1. o.cap.src = Root \/ o.got[Root] # None BY DEF Captures, Control
    <3> QED BY <3>1, <1>1 DEF Taken
  <2>2. x.todo # {} => x.cap.src \in Local /\ InDir(x, D, x.cap.src) /\ x.got[x.cap.src] # None
    <3>1. x.todo # {} => x.cap.src \in Taken(x) /\ x.cap.src \in Local BY <1>1, <1>2, <1>3
    <3> QED BY <3>1, <1>5 DEF FirstCaptures, Taken
  <2>3. x.pc # "walk" /\ x.pc # "resolve" /\ (x.pc = "open" <=> x.todo # {}) OBVIOUS
  <2> QED BY <2>1, <2>2, <2>3, <1>1, <1>2 DEF Control
<1>7. Snaps(x, st) BY <1>2 DEF Captures, Snaps
<1>8. Unsettled(x, D) BY <1>1, <1>2, <1>4 DEF Captures, Unsettled
<1>9. IsSnapshot(o, D, s)
  <2>1. Rereading(s, g, z, c, g, {}) BY DEF Captures, SecondWalk
  <2>2. g[PackFile] # Absent BY <1>1 DEF Captures, FirstCaptures
  <2>3. \A n \in Name : z[n] # Absent => Covers(Decoded(s, z[PackFile]), n)
    BY <1>1, <1>2 DEF Captures, Snaps
  <2> HIDE DEF g, z, c, s
  <2>4. z[PackFile] = g[PackFile] BY <2>1, <2>2 DEF Rereading
  <2>5. ASSUME NEW n \in Name
        PROVE  g[n] = z[n] \/ (g[n] = Absent /\ Narrowed(s, n) /\ c[n] # z[n])
    <3>1. CASE g[n] # Absent BY <3>1, <2>1, <2>4 DEF Rereading
    <3>2. CASE g[n] = Absent /\ z[n] # Absent BY <3>2, <2>1, <2>3, <2>4 DEF Rereading
    <3> QED BY <3>1, <3>2
  <2> QED BY <2>5 DEF IsSnapshot, g, z, c, s
<1>10. Settled(x, D)
  <2> SUFFICES ASSUME NEW t \in Taken(o) \ x.todo PROVE IsSnapshot(o, D, t)
    BY <1>1, <1>2, <1>4 DEF Settled, IsSnapshot
  <2>1. t = s \/ t \in Taken(o) \ o.todo OBVIOUS
  <2> QED BY <2>1, <1>2, <1>9 DEF Captures, Settled
<1> QED BY <1>5, <1>6, <1>7, <1>8, <1>10 DEF Captures, Walk, SecondWalk

-----------------------------------------------------------------------------
\* The captures of one operation, while the user edits.

\* What the user does to the directories: a file is new, or one of the start is
\* removed; a directory of a path may be followed by others.
Edited(D, E, st) ==
  \A s \in Local :
    /\ Len(D[s]) <= Len(E[s])
    /\ \A i \in 1 .. Len(D[s]) : \A n \in Name :
         LET v == D[s][i].files[n]
             w == E[s][i].files[n]
         IN w = v \/ w > st \/ (w = Absent /\ v # Absent /\ v = First[s][n])

LEMMA EditedCaptures ==
  ASSUME NEW o, NEW D, NEW E, NEW st \in Nat, NEW su \in Nat, st <= su,
         DirsType(D), DirsType(E), Versions(D, st), Edited(D, E, st), OpType(o), Captures(o, D, st)
  PROVE  Captures(o, E, su)
<1> DEFINE c(s) == Cur(o, D, s)
           e(s) == Cur(o, E, s)
<1>1. Taken(o) \subseteq Local BY DEF Taken
<1>2. ASSUME NEW s \in Local, InDir(o, D, s)
      PROVE  /\ InDir(o, E, s) /\ (OnPath(o, E, s) => OnPath(o, D, s))
             /\ e(s) \in Files /\ c(s) \in Files
             /\ \A n \in Name : \/ e(s)[n] = c(s)[n] \/ e(s)[n] > st
                                \/ e(s)[n] = Absent /\ c(s)[n] # Absent /\ c(s)[n] = First[s][n]
  <2>1. Len(D[s]) \in Nat /\ Len(E[s]) \in Nat /\ Len(D[s]) <= Len(E[s])
    BY DEF DirsType, Edited
  <2>2. o.pin[s] \in Nat BY DEF OpType
  <2>3. InDir(o, E, s) BY <2>1, <2>2, <1>2 DEF InDir
  <2>4. OnPath(o, E, s) => OnPath(o, D, s) BY <2>1, <2>2, <1>2 DEF InDir, OnPath
  <2>5. \A n \in Name : \/ e(s)[n] = c(s)[n] \/ e(s)[n] > st
                        \/ e(s)[n] = Absent /\ c(s)[n] # Absent /\ c(s)[n] = First[s][n]
    BY <1>2 DEF InDir, Edited, Cur
  <2>6. e(s) \in Files /\ c(s) \in Files BY <2>3, <1>2, CurType
  <2> QED BY <2>3, <2>4, <2>5, <2>6
<1>3. \A s \in Local : \A n \in Name : First[s][n] \in Nat /\ First[s][n] <= st
  BY Constants DEF Versions, Absent
<1> HIDE DEF c, e
<1>4. ASSUME NEW s \in Local, InDir(o, D, s), NEW n \in Name, Stays(s, c(s), n)
      PROVE  Stays(s, e(s), n)
  <2>1. e(s)[n] \in Nat BY <1>2, <1>4 DEF Files
  <2> QED BY <1>2, <1>3, <1>4, <2>1 DEF Stays
<1>5. Control(o, E) BY <1>2 DEF Captures, Control
<1>6. \A s \in Taken(o) : InDir(o, D, s) BY DEF Captures, FirstCaptures
<1>7. \A s \in Taken(o) : o.got[s].files \in Files
  <2>1. \A s \in Taken(o) : o.got[s] \in Pack BY <1>1, Constants DEF OpType, Gots, Taken
  <2> QED BY <2>1 DEF Pack, Files
<1>8. FirstCaptures(o, E, su)
  <2> SUFFICES ASSUME NEW s \in Taken(o)
               PROVE  /\ InDir(o, E, s)
                      /\ o.got[s].src = s /\ o.got[s].files[PackFile] # Absent
                      /\ \A n \in Name :
                           /\ o.got[s].files[n] <= su
                           /\ o.got[s].files[n] = Absent /\ ~Narrowed(s, n) => Stays(s, e(s), n)
    BY DEF FirstCaptures, e
  <2>1. s \in Local /\ InDir(o, D, s) BY <1>1, <1>6
  <2>2. o.got[s].src = s /\ o.got[s].files[PackFile] # Absent BY DEF Captures, FirstCaptures
  <2>3. ASSUME NEW n \in Name
        PROVE  /\ o.got[s].files[n] <= su
               /\ o.got[s].files[n] = Absent /\ ~Narrowed(s, n) => Stays(s, e(s), n)
    <3>1. o.got[s].files[n] <= st /\ o.got[s].files[n] \in Nat
      BY <1>7 DEF Captures, FirstCaptures, Files
    <3>2. o.got[s].files[n] = Absent /\ ~Narrowed(s, n) => Stays(s, c(s), n)
      BY DEF Captures, FirstCaptures, c
    <3> QED BY <3>1, <3>2, <2>1, <1>4
  <2> QED BY <2>1, <2>2, <2>3, <1>2
<1>9. Walk(o, E, su)
  <2> SUFFICES ASSUME o.pc = "walk"
               PROVE  /\ \A n \in Name : o.cap.files[n] <= su
                      /\ o.todo = {} =>
                           \A n \in Name \ o.cap.left :
                             o.cap.files[n] = Absent /\ ~Narrowed(o.cap.src, n)
                               => Stays(o.cap.src, e(o.cap.src), n)
    BY DEF Walk, e
  <2>1. o.cap.files \in Files /\ o.cap.src \in Local /\ InDir(o, D, o.cap.src)
    BY DEF Captures, Control
  <2>2. \A n \in Name : o.cap.files[n] <= st BY DEF Captures, Walk
  <2>3. o.todo = {} => \A n \in Name \ o.cap.left :
          o.cap.files[n] = Absent /\ ~Narrowed(o.cap.src, n) => Stays(o.cap.src, c(o.cap.src), n)
    BY DEF Captures, Walk, c
  <2>4. \A n \in Name : o.cap.files[n] <= su BY <2>1, <2>2 DEF Files
  <2> QED BY <2>1, <2>3, <2>4, <1>4
<1>10. Snaps(o, su)
  <2> SUFFICES ASSUME Snapped(o), NEW s \in Taken(o), NEW n \in Name
               PROVE  /\ o.snap[s].files \in Files /\ o.snap[s].files[n] <= su
                      /\ o.snap[s].files[n] # Absent =>
                           Covers(Decoded(s, o.snap[s].files[PackFile]), n)
    BY Constants DEF Snaps
  <2>1. /\ o.snap[s].files \in Files /\ o.snap[s].files[n] <= st
        /\ o.snap[s].files[n] # Absent => Covers(Decoded(s, o.snap[s].files[PackFile]), n)
    BY DEF Captures, Snaps
  <2>2. o.snap[s].files[n] \in Nat BY <2>1 DEF Files
  <2> QED BY <2>1, <2>2
\* A version that was there once, is not new; one that is not there any more,
\* does not come back.
<1>11. ASSUME NEW s \in Taken(o), NEW n \in Name, NEW v \in Nat, v <= st, v # Absent, e(s)[n] = v
       PROVE  c(s)[n] = v
  <2>1. e(s)[n] = c(s)[n] \/ e(s)[n] > st \/ e(s)[n] = Absent BY <1>1, <1>2, <1>6
  <2> QED BY <2>1, <1>11
<1>12. ASSUME NEW s \in Taken(o), NEW n \in Name, NEW v \in Nat, v <= st, v # Absent, c(s)[n] # v
       PROVE  e(s)[n] # v
  BY <1>11, <1>12
<1>13. Unsettled(o, E)
  <2> SUFFICES ASSUME o.todo # {}, NEW s \in Taken(o), OnPath(o, E, s)
               PROVE  Again(s, o.got[s].files, o.snap[s].files, e(s))
    BY DEF Unsettled, e
  <2> DEFINE g == o.got[s].files
             z == o.snap[s].files
  <2>1. s \in Local /\ InDir(o, D, s) BY <1>1, <1>6
  <2>2. OnPath(o, D, s) BY <2>1, <1>2
  <2>3. Again(s, g, z, c(s)) BY <2>2 DEF Captures, Unsettled, c
  <2>4. \A n \in Name : g[n] \in Nat /\ g[n] <= st BY <1>7 DEF Captures, FirstCaptures, Files
  <2>5. g[PackFile] # Absent BY DEF Captures, FirstCaptures
  <2>6. \A n \in Name : g[n] = Absent /\ ~Narrowed(s, n) => Stays(s, c(s), n)
    BY DEF Captures, FirstCaptures, c
  <2> HIDE DEF g, z
  <2>7. e(s)[PackFile] = g[PackFile] => z[PackFile] = g[PackFile]
    BY <2>3, <2>4, <2>5, <1>11, Constants DEF Again
  <2>8. ASSUME NEW n \in Name, z[PackFile] = g[PackFile], Covers(Decoded(s, g[PackFile]), n),
               e(s)[n] = g[n], g[n] # Absent
        PROVE  z[n] = g[n]
    BY <2>3, <2>4, <2>8, <1>11 DEF Again
  <2>9. ASSUME NEW n \in Name, z[n] # Absent, g[n] = Absent, ~Narrowed(s, n)
        PROVE  e(s)[n] # Absent
    <3>1. c(s)[n] # Absent /\ c(s)[n] # First[s][n] BY <2>3, <2>6, <2>9 DEF Again, Stays
    <3>2. e(s)[n] = c(s)[n] \/ e(s)[n] > st BY <3>1, <2>1, <1>2
    <3> QED BY <3>1, <3>2 DEF Absent
  <2> QED BY <2>7, <2>8, <2>9 DEF Again, g, z
<1>14. SecondWalk(o, E)
  <2> SUFFICES ASSUME o.pc = "walk", o.todo # {}, OnPath(o, E, o.cap.src)
               PROVE  Rereading(o.cap.src, o.got[o.cap.src].files, o.snap[o.cap.src].files,
                                e(o.cap.src), o.cap.files, o.cap.left)
    BY DEF SecondWalk, e
  <2> DEFINE s == o.cap.src
             g == o.got[s].files
             z == o.snap[s].files
             w == o.cap.files
             left == o.cap.left
  <2>1. s \in Taken(o) /\ InDir(o, D, s) BY DEF Captures, Control, Taken
  <2>2. OnPath(o, D, s) BY <2>1, <1>1, <1>2
  <2>3. Rereading(s, g, z, c(s), w, left) BY <2>2 DEF Captures, SecondWalk, c
  <2>4. \A n \in Name : g[n] \in Nat /\ g[n] <= st BY <2>1, <1>7 DEF Captures, FirstCaptures, Files
  <2>5. g[PackFile] # Absent BY <2>1 DEF Captures, FirstCaptures
  <2>6. \A n \in Name : z[n] \in Nat /\ z[n] <= st
    <3>1. Snapped(o) BY DEF Snapped
    <3>2. z \in Files /\ \A n \in Name : z[n] <= st BY <3>1, <2>1, Constants DEF Captures, Snaps
    <3> QED BY <3>2 DEF Files
  <2> HIDE DEF g, z, w, left, s
  <2>7. e(s)[PackFile] = g[PackFile] => c(s)[PackFile] = g[PackFile]
    BY <2>1, <2>4, <2>5, <1>11, Constants
  <2>8. \A n \in Name : z[n] # Absent /\ c(s)[n] # z[n] => e(s)[n] # z[n]
    BY <2>1, <2>6, <1>12
  <2>9. Rereading(s, g, z, e(s), w, left) BY <2>3, <2>7, <2>8 DEF Rereading
  <2> QED BY <2>9 DEF g, z, w, left, s
<1>15. Settled(o, E)
  <2> SUFFICES ASSUME Snapped(o), NEW s \in Taken(o) \ o.todo, NEW n \in Name
               PROVE  \/ o.got[s].files[n] = o.snap[s].files[n]
                      \/ /\ o.got[s].files[n] = Absent /\ Narrowed(s, n)
                         /\ e(s)[n] # o.snap[s].files[n]
    BY DEF Settled, IsSnapshot, e
  <2>1. \/ o.got[s].files[n] = o.snap[s].files[n]
        \/ /\ o.got[s].files[n] = Absent /\ Narrowed(s, n)
           /\ c(s)[n] # o.snap[s].files[n]
    BY DEF Captures, Settled, IsSnapshot, c
  <2>2. o.snap[s].files \in Files /\ o.snap[s].files[n] <= st BY DEF Captures, Snaps
  <2>3. o.snap[s].files[n] \in Nat BY <2>2 DEF Files
  <2> QED BY <2>1, <2>2, <2>3, <1>12
<1> QED BY <1>5, <1>8, <1>9, <1>10, <1>13, <1>14, <1>15 DEF Captures

-----------------------------------------------------------------------------
\* One process takes a step: what is left to show.

LEMMA EditedSame ==
  ASSUME NEW D, DirsType(D), NEW st
  PROVE  Edited(D, D, st)
BY DEF Edited, DirsType

LEMMA LaterFile ==
  ASSUME NEW o, NEW p, NEW st \in Nat, NEW su \in Nat, st <= su, OpType(o), FileInv(o, p, st)
  PROVE  FileInv(o, p, su)
<1>1. o.old.no \in Nat /\ o.file.no \in Nat BY DEF OpType, File
<1>2. Numbered(o.old, su) BY <1>1 DEF FileInv, Numbered
<1>3. o.file.no \in 1 .. st => o.file.no \in 1 .. su BY <1>1
<1> QED BY <1>2, <1>3 DEF FileInv

LEMMA LaterDir ==
  ASSUME NEW d, NEW E, NEW K, NEW A, NEW F, NEW L, NEW B, NEW st \in Nat, NEW su \in Nat, st <= su,
         DirInv(d, E, K, A, st), A[d] \in Nat, K[d] \in SUBSET Entry,
         F[d] = E[d], L[d] = K[d], B[d] = A[d]
  PROVE  DirInv(d, F, L, B, su)
<1>1. A[d] <= su BY DEF DirInv
<1>2. \A e \in K[d] : e.lock.no \in Nat BY DEF Entry, File
<1>3. \A e \in K[d] : GoodEntry(e, A[d], su) BY <1>2 DEF DirInv, GoodEntry, Numbered
<1> QED BY <1>1, <1>3 DEF DirInv

\* The parts of the type that say what a directory of the root is.
LEMMA RootType ==
  ASSUME StoreType, NEW d \in 1 .. Len(dirs[Root])
  PROVE  entry[d] \in Entry /\ disk[d] \in SUBSET Entry /\ acked[d] \in Nat
BY DEF StoreType

LEMMA StepCaptures ==
  ASSUME StoreType, OpsType, CapturesInv, NEW p \in Proc, NEW x, op' = [op EXCEPT ![p] = x],
         dirs' = dirs, stamp' \in Nat, stamp <= stamp', OpType(x), Captures(x, dirs, stamp')
  PROVE  OpsType' /\ CapturesInv'
<1>1. DOMAIN op = Proc /\ op'[p] = x /\ \A q \in Proc : q # p => op'[q] = op[q]
  BY DEF OpsType
<1>2. OpsType' BY <1>1 DEF OpsType
<1>3. DirsType(dirs) BY DEF DirsType, StoreType
<1>4. stamp \in Nat BY DEF StoreType
<1>5. Versions(dirs, stamp) BY DEF CapturesInv
<1>6. Versions(dirs, stamp')
  <2>1. \A s \in Local : \A n \in Name : First[s][n] \in Nat BY Constants DEF Absent
  <2>2. \A s \in Local : \A i \in 1 .. Len(dirs[s]) : dirs[s][i] \in Dir BY <1>3 DEF DirsType
  <2>3. \A s \in Local : \A i \in 1 .. Len(dirs[s]) : \A n \in Name : dirs[s][i].files[n] \in Nat
    BY <2>2 DEF Dir, Files
  <2> QED BY <1>4, <1>5, <2>1, <2>3 DEF Versions
<1>7. ASSUME NEW q \in Proc PROVE Captures(op'[q], dirs, stamp')
  <2>1. CASE q = p BY <2>1, <1>1
  <2>2. CASE q # p
    <3>1. OpType(op[q]) /\ Captures(op[q], dirs, stamp) BY DEF OpsType, CapturesInv
    <3> QED BY <2>2, <3>1, <1>1, <1>3, <1>4, <1>5, EditedSame, EditedCaptures
  <2> QED BY <2>1, <2>2
<1> QED BY <1>2, <1>6, <1>7 DEF CapturesInv

\* No other process than p holds the directory d.
Free(p, d) == \A q \in Proc : q # p /\ op[q].pc # "idle" => op[q].dir # d

\* The directory d is the one that p holds, or now takes.
LEMMA StepInv ==
  ASSUME IInv, NEW p \in Proc, NEW x, op' = [op EXCEPT ![p] = x],
         NEW d \in 1 .. Len(dirs[Root]),
         Free(p, d),
         StoreType', dirs' = dirs, stamp <= stamp',
         OpType(x), Captures(x, dirs, stamp'), FileInv(x, p, stamp'),
         x.pc # "idle" => x.dir = d /\ HeldInv(x, entry'[d], disk'[d], acked'[d]),
         \A c \in 1 .. Len(dirs[Root]) : c # d =>
           entry'[c] = entry[c] /\ disk'[c] = disk[c] /\ acked'[c] = acked[c],
         DirInv(d, entry', disk', acked', stamp')
  PROVE  IInv'
<1>1. StoreType /\ OpsType /\ CapturesInv /\ PublishInv BY DEF IInv
<1>2. stamp' \in Nat /\ stamp \in Nat BY <1>1 DEF StoreType
<1>3. OpsType' /\ CapturesInv' BY <1>1, <1>2, StepCaptures
<1>4. op'[p] = x /\ \A q \in Proc : q # p => op'[q] = op[q] BY <1>1 DEF OpsType
<1>5. Exclusive'
  <2> SUFFICES ASSUME NEW q \in Proc, NEW r \in Proc, op'[q].pc # "idle", op'[r].pc # "idle",
                      op'[q].dir = op'[r].dir, q # r
               PROVE  FALSE
    BY DEF Exclusive
  <2>1. CASE q = p BY <2>1, <1>4 DEF Free
  <2>2. CASE r = p BY <2>2, <1>4 DEF Free
  <2>3. CASE q # p /\ r # p BY <2>3, <1>1, <1>4 DEF PublishInv, Exclusive
  <2> QED BY <2>1, <2>2, <2>3
<1>6. DirsInv'
  <2> SUFFICES ASSUME NEW c \in 1 .. Len(dirs[Root]) PROVE DirInv(c, entry', disk', acked', stamp')
    BY DEF DirsInv
  <2>1. CASE c = d BY <2>1
  <2>2. CASE c # d
    <3>1. DirInv(c, entry, disk, acked, stamp) BY <1>1 DEF PublishInv, DirsInv
    <3>2. acked[c] \in Nat /\ disk[c] \in SUBSET Entry BY <1>1, RootType
    <3> QED BY <2>2, <3>1, <3>2, <1>2, LaterDir
  <2> QED BY <2>1, <2>2
<1>7. ASSUME NEW q \in Proc
      PROVE  /\ FileInv(op'[q], q, stamp')
             /\ op'[q].pc # "idle" =>
                  /\ op'[q].dir \in 1 .. Len(dirs'[Root])
                  /\ HeldInv(op'[q], entry'[op'[q].dir], disk'[op'[q].dir], acked'[op'[q].dir])
  <2>1. CASE q = p BY <2>1, <1>4
  <2>2. CASE q # p
    <3>1. OpType(op[q]) /\ FileInv(op[q], q, stamp) BY <1>1 DEF OpsType, PublishInv
    <3>2. FileInv(op'[q], q, stamp') BY <3>1, <2>2, <1>2, <1>4, LaterFile
    <3>3. ASSUME op[q].pc # "idle"
          PROVE  /\ op[q].dir \in 1 .. Len(dirs[Root])
                 /\ HeldInv(op[q], entry'[op[q].dir], disk'[op[q].dir], acked'[op[q].dir])
      <4>1. op[q].dir # d BY <2>2, <3>3 DEF Free
      <4>2. /\ op[q].dir \in 1 .. Len(dirs[Root])
            /\ HeldInv(op[q], entry[op[q].dir], disk[op[q].dir], acked[op[q].dir])
        BY <3>3, <1>1 DEF PublishInv
      <4> QED BY <4>1, <4>2
    <3> QED BY <2>2, <1>4, <3>2, <3>3
  <2> QED BY <2>1, <2>2
<1> QED BY <1>3, <1>5, <1>6, <1>7 DEF IInv, PublishInv

\* Who has a lock has it alone.
LEMMA Alone ==
  ASSUME IInv, NEW p \in Proc, op[p].pc # "idle"
  PROVE  /\ op[p].dir \in 1 .. Len(dirs[Root])
         /\ Free(p, op[p].dir)
         /\ HeldInv(op[p], entry[op[p].dir], disk[op[p].dir], acked[op[p].dir])
         /\ DirInv(op[p].dir, entry, disk, acked, stamp)
BY DEF IInv, PublishInv, Exclusive, DirsInv, Free

\* A step that publishes nothing.
LEMMA QuietStep ==
  ASSUME IInv, NEW p \in Proc, NEW x, op[p].pc # "idle", op' = [op EXCEPT ![p] = x],
         dirs' = dirs, entry' = entry, disk' = disk, acked' = acked, stamp' = stamp,
         objects' \subseteq Pack, cuts' = cuts,
         OpType(x), Captures(x, dirs, stamp), FileInv(x, p, stamp),
         x.pc # "idle" =>
           x.dir = op[p].dir /\ HeldInv(x, entry[x.dir], disk[x.dir], acked[x.dir])
  PROVE  IInv'
<1>1. StoreType /\ PublishInv BY DEF IInv
<1>2. StoreType' BY <1>1 DEF StoreType
<1>3. stamp \in Nat /\ stamp <= stamp' BY <1>1 DEF StoreType
<1>4. DirInv(op[p].dir, entry', disk', acked', stamp') BY Alone
<1> QED BY <1>2, <1>3, <1>4, Alone, StepInv

LEMMA FailStep ==
  ASSUME IInv, NEW p \in Proc, op[p].pc # "idle", Fail(p),
         dirs' = dirs, entry' = entry, disk' = disk, acked' = acked, stamp' = stamp,
         objects' \subseteq Pack, cuts' \in Nat
  PROVE  IInv'
<1>1. StoreType /\ PublishInv BY DEF IInv
<1>2. StoreType' BY <1>1 DEF StoreType
<1>3. stamp \in Nat /\ stamp <= stamp' BY <1>1 DEF StoreType
<1>4. DirInv(op[p].dir, entry', disk', acked', stamp') BY Alone
<1>5. op' = [op EXCEPT ![p] = Idle] /\ Idle.pc = "idle" BY IdleShape DEF Fail, Become
<1>6. OpType(Idle) /\ Captures(Idle, dirs, stamp') /\ FileInv(Idle, p, stamp')
  BY <1>3, IdleType, IdleCaptures, IdleFile
<1> QED BY <1>2, <1>3, <1>4, <1>5, <1>6, Alone, StepInv

\* An operation before it has written its file.
LEMMA EarlyFile ==
  ASSUME NEW o, NEW x, NEW p, NEW st, FileInv(o, p, st), o.pc # "idle", o.pc \notin Written,
         x.old = o.old, x.file = o.file, x.kind = o.kind,
         x.pc \notin Written \cup {"unchanged", "kept"}
  PROVE  FileInv(x, p, st) /\ \A e, k, a : HeldInv(x, e, k, a)
<1>1. o.file = NoFile BY DEF FileInv
<1> QED BY <1>1 DEF FileInv, HeldInv, Written

-----------------------------------------------------------------------------
\* The steps up to the publication.

LEMMA Parts ==
  ASSUME IInv, NEW p \in Proc
  PROVE  /\ StoreType /\ OpsType /\ CapturesInv /\ PublishInv
         /\ DirsType(dirs) /\ Versions(dirs, stamp) /\ stamp \in Nat /\ objects \subseteq Pack
         /\ OpType(op[p]) /\ Captures(op[p], dirs, stamp) /\ FileInv(op[p], p, stamp)
         /\ cuts \in Nat
BY DEF IInv, StoreType, OpsType, CapturesInv, PublishInv

LEMMA CaptureOpenStep ==
  ASSUME IInv, NEW p \in Proc, CaptureOpen(p)
  PROVE  IInv'
<1> DEFINE o == op[p]
           s == o.cap.src
           d == dirs[s][o.pin[s]]
           m == Decoded(s, d.files[PackFile])
           c == [src |-> s, changed |-> d.changed, left |-> InitialNames(d, m),
                 files |-> [n \in Name |-> Absent]]
           x == [o EXCEPT !.pc = "walk", !.cap = c]
<1>1. o.pc = "open" BY DEF CaptureOpen
<1>2. UNCHANGED <<dirs, objects, entry, disk, acked, stamp, cuts>>
  BY DEF CaptureOpen, treeVars, fileVars, bounds
<1>3. op' = [op EXCEPT ![p] = x] \/ Fail(p) BY DEF CaptureOpen, Become
<1>4. CASE Fail(p) BY <1>1, <1>2, <1>4, Parts, FailStep
<1>5. CASE op' = [op EXCEPT ![p] = x]
  <2>1. DOMAIN o = DOMAIN Idle BY Parts DEF OpType
  <2>2. /\ DOMAIN x = DOMAIN o /\ x.pc = "walk" /\ x.cap = c
        /\ x.got = o.got /\ x.pin = o.pin /\ x.todo = o.todo /\ x.snap = o.snap
        /\ x.dir = o.dir /\ x.old = o.old /\ x.file = o.file /\ x.kind = o.kind
    BY <2>1, IdleShape
  <2>3. /\ DOMAIN c = DOMAIN NoCapture /\ c.src = s /\ c.files = [n \in Name |-> Absent]
        /\ c.left = {n \in Name : /\ Cur(o, dirs, s)[n] # Absent
                                  /\ Covers(Decoded(s, Cur(o, dirs, s)[PackFile]), n)}
    BY IdleShape DEF InitialNames, Present, Cur
  <2> HIDE DEF x, c
  <2>4. OpType(x) BY <2>2, <2>3, Parts DEF OpType
  <2>5. Captures(x, dirs, stamp) BY <1>1, <2>2, <2>3, Parts, OpenCaptures
  <2>6. FileInv(x, p, stamp) /\ \A e, k, a : HeldInv(x, e, k, a)
    BY <1>1, <2>2, Parts, EarlyFile DEF Written
  <2> QED BY <1>1, <1>2, <1>5, <2>2, <2>4, <2>5, <2>6, Parts, QuietStep
<1> QED BY <1>3, <1>4, <1>5

LEMMA CaptureFileStep ==
  ASSUME IInv, NEW p \in Proc, CaptureFile(p)
  PROVE  IInv'
<1> DEFINE o == op[p]
           s == o.cap.src
           n == FirstOf(Names, o.cap.left)
           v == dirs[s][o.pin[s]].files[n]
           x == [o EXCEPT !.cap.left = @ \ {n}, !.cap.files[n] = v]
<1>1. o.pc = "walk" /\ o.cap.left # {} BY DEF CaptureFile
<1>2. UNCHANGED <<dirs, objects, entry, disk, acked, stamp, cuts>>
  BY DEF CaptureFile, treeVars, fileVars, bounds
<1>3. (op' = [op EXCEPT ![p] = x] /\ v # Absent) \/ Fail(p) BY DEF CaptureFile, Become
<1>4. CASE Fail(p) BY <1>1, <1>2, <1>4, Parts, FailStep
<1>5. CASE op' = [op EXCEPT ![p] = x] /\ v # Absent
  <2>1. DOMAIN o = DOMAIN Idle /\ DOMAIN o.cap = DOMAIN NoCapture BY Parts DEF OpType
  <2>2. /\ DOMAIN x = DOMAIN o /\ x.pc = "walk" /\ DOMAIN x.cap = DOMAIN o.cap
        /\ x.got = o.got /\ x.pin = o.pin /\ x.todo = o.todo /\ x.snap = o.snap
        /\ x.dir = o.dir /\ x.old = o.old /\ x.file = o.file /\ x.kind = o.kind
        /\ x.cap.src = s /\ x.cap.left = o.cap.left \ {n}
        /\ x.cap.files = [o.cap.files EXCEPT ![n] = Cur(o, dirs, s)[n]]
    BY <1>1, <2>1, IdleShape DEF Cur
  <2>3. n \in o.cap.left
    <3>1. o.cap.left \subseteq Name BY <1>1, Parts DEF Captures, Control
    <3>2. \A y \in o.cap.left : \E i \in DOMAIN Names : Names[i] = y BY <3>1, NamesListed
    <3> QED BY <1>1, <3>2, NamesListed, FirstOfIn
  <2>4. Cur(o, dirs, s)[n] # Absent BY <1>5 DEF Cur
  <2> HIDE DEF x, n
  <2>5. OpType(x) BY <2>1, <2>2, Parts DEF OpType
  <2>6. Captures(x, dirs, stamp) BY <1>1, <2>2, <2>3, <2>4, Parts, FileCaptures
  <2>7. FileInv(x, p, stamp) /\ \A e, k, a : HeldInv(x, e, k, a)
    BY <1>1, <2>2, Parts, EarlyFile DEF Written
  <2> QED BY <1>1, <1>2, <1>5, <2>2, <2>5, <2>6, <2>7, Parts, QuietStep
<1> QED BY <1>3, <1>4, <1>5

LEMMA CaptureRejectedStep ==
  ASSUME IInv, NEW p \in Proc, CaptureRejected(p)
  PROVE  IInv'
<1>1. op[p].pc = "walk" /\ Fail(p) /\ UNCHANGED <<dirs, objects, entry, disk, acked, stamp, cuts>>
  BY DEF CaptureRejected, treeVars, fileVars, bounds
<1> QED BY <1>1, Parts, FailStep

\* Enter, and what it makes of an operation.
LEMMA EnterShape ==
  ASSUME NEW o, OpType(o), NEW s, NEW pack, NEW x, x = Enter(o, s, pack)
  PROVE  /\ DOMAIN x = DOMAIN o /\ x.pc = "resolve" /\ x.cap = NoCapture
         /\ x.got = [o.got EXCEPT ![s] = pack]
         /\ x.pin = o.pin /\ x.todo = o.todo /\ x.snap = o.snap
         /\ x.dir = o.dir /\ x.old = o.old /\ x.file = o.file /\ x.kind = o.kind
BY IdleShape DEF Enter, OpType

LEMMA DiscoveredStep ==
  ASSUME IInv, NEW p \in Proc, Discovered(p)
  PROVE  IInv'
<1> DEFINE o == op[p]
           s == o.cap.src
           pack == PackOf(s, o.cap.files)
           x == Enter(o, s, pack)
<1>1. o.pc = "walk" /\ o.todo = {} /\ o.cap.left = {} /\ Verified(pack)
  BY DEF Discovered, CaptureDone
<1>2. UNCHANGED <<dirs, entry, disk, acked, stamp, cuts>> /\ objects' = objects \cup {pack}
  BY DEF Discovered, fileVars, bounds
<1>3. op' = [op EXCEPT ![p] = x] \/ Fail(p) BY DEF Discovered, Become
<1>4. s \in Local /\ o.cap.files \in Files BY <1>1, Parts DEF Captures, Control
<1>5. objects' \subseteq Pack
  <2>1. pack \in Pack BY <1>4, Constants DEF Pack, PackOf, Files
  <2> QED BY <2>1, <1>2, Parts
<1>6. CASE Fail(p) BY <1>1, <1>2, <1>5, <1>6, Parts, FailStep
<1>7. CASE op' = [op EXCEPT ![p] = x]
  <2>1. o.cap.files[PackFile] # Absent BY <1>1 DEF Verified, PackOf
  <2>2. /\ DOMAIN x = DOMAIN o /\ x.pc = "resolve" /\ x.cap = NoCapture
        /\ x.got = [o.got EXCEPT ![s] = pack]
        /\ x.pin = o.pin /\ x.todo = o.todo /\ x.snap = o.snap
        /\ x.dir = o.dir /\ x.old = o.old /\ x.file = o.file /\ x.kind = o.kind
    <3>1. x = Enter(o, s, pack) OBVIOUS
    <3> HIDE DEF x, pack, s
    <3> QED BY <3>1, Parts, EnterShape
  <2> HIDE DEF x
  <2>3. Captures(x, dirs, stamp) /\ x.got \in Gots
    BY <1>1, <2>1, <2>2, Parts, DiscoveredCaptures
  <2>4. OpType(x) BY <2>2, <2>3, Parts DEF OpType
  <2>5. FileInv(x, p, stamp) /\ \A e, k, a : HeldInv(x, e, k, a)
    BY <1>1, <2>2, Parts, EarlyFile DEF Written
  <2> QED BY <1>1, <1>2, <1>5, <1>7, <2>2, <2>3, <2>4, <2>5, Parts, QuietStep
<1> QED BY <1>3, <1>6, <1>7

\* A step of resolve_graph that captures nothing.
LEMMA ResolveStep ==
  ASSUME IInv, NEW p \in Proc, NEW x, op[p].pc = "resolve", op' = [op EXCEPT ![p] = x],
         UNCHANGED <<dirs, objects, entry, disk, acked, stamp, cuts>>,
         DOMAIN x = DOMAIN op[p], x.pc = "resolve", x.cap = op[p].cap, x.got = op[p].got,
         x.pin = op[p].pin, x.todo = op[p].todo, x.snap = op[p].snap,
         x.dir = op[p].dir, x.old = op[p].old, x.file = op[p].file, x.kind = op[p].kind
  PROVE  IInv'
<1>1. OpType(x) BY Parts DEF OpType
<1>2. Captures(x, dirs, stamp) BY Parts, SameCaptures
<1>3. FileInv(x, p, stamp) /\ \A e, k, a : HeldInv(x, e, k, a) BY Parts, EarlyFile DEF Written
<1> QED BY <1>1, <1>2, <1>3, Parts, QuietStep

LEMMA NextSourceStep ==
  ASSUME IInv, NEW p \in Proc, NextSource(p)
  PROVE  IInv'
<1> DEFINE s == FirstOf(Order, op[p].pending)
           deps == ManifestOf(op[p].got[s]).deps
           x == [op[p] EXCEPT !.pending = @ \ {s}, !.edges = deps, !.count = @ + Len(deps)]
<1>1. op[p].pc = "resolve" /\ UNCHANGED <<dirs, objects, entry, disk, acked, stamp, cuts>>
  BY DEF NextSource, treeVars, fileVars, bounds
<1>2. op' = [op EXCEPT ![p] = x] \/ Fail(p) BY DEF NextSource, Become
<1>3. CASE Fail(p) BY <1>1, <1>3, Parts, FailStep
<1>4. CASE op' = [op EXCEPT ![p] = x]
  <2>1. DOMAIN op[p] = DOMAIN Idle BY Parts DEF OpType
  <2>2. /\ DOMAIN x = DOMAIN op[p] /\ x.pc = "resolve" /\ x.cap = op[p].cap
        /\ x.got = op[p].got /\ x.pin = op[p].pin /\ x.todo = op[p].todo /\ x.snap = op[p].snap
        /\ x.dir = op[p].dir /\ x.old = op[p].old /\ x.file = op[p].file /\ x.kind = op[p].kind
    BY <1>1, <2>1, IdleShape
  <2> HIDE DEF x
  <2> QED BY <1>1, <1>4, <2>2, ResolveStep
<1> QED BY <1>2, <1>3, <1>4

LEMMA KnownEdgeStep ==
  ASSUME IInv, NEW p \in Proc, KnownEdge(p)
  PROVE  IInv'
<1> DEFINE x == [op[p] EXCEPT !.edges = Tail(@)]
<1>1. op[p].pc = "resolve" /\ UNCHANGED <<dirs, objects, entry, disk, acked, stamp, cuts>>
  BY DEF KnownEdge, treeVars, fileVars, bounds
<1>2. op' = [op EXCEPT ![p] = x] \/ Fail(p) BY DEF KnownEdge, Become
<1>3. CASE Fail(p) BY <1>1, <1>3, Parts, FailStep
<1>4. CASE op' = [op EXCEPT ![p] = x]
  <2>1. DOMAIN op[p] = DOMAIN Idle BY Parts DEF OpType
  <2>2. /\ DOMAIN x = DOMAIN op[p] /\ x.pc = "resolve" /\ x.cap = op[p].cap
        /\ x.got = op[p].got /\ x.pin = op[p].pin /\ x.todo = op[p].todo /\ x.snap = op[p].snap
        /\ x.dir = op[p].dir /\ x.old = op[p].old /\ x.file = op[p].file /\ x.kind = op[p].kind
    BY <1>1, <2>1, IdleShape
  <2> HIDE DEF x
  <2> QED BY <1>1, <1>4, <2>2, ResolveStep
<1> QED BY <1>2, <1>3, <1>4

LEMMA LocalEdgeStep ==
  ASSUME IInv, NEW p \in Proc, LocalEdge(p)
  PROVE  IInv'
<1> DEFINE o == op[p]
           s == Head(o.edges).src
           x == [o EXCEPT !.pc = "open", !.used = DescriptorsWith(o, s),
                          !.pin[s] = ResolveLocator(s), !.cap.src = s]
<1>1. o.pc = "resolve" /\ s \in Local /\ o.got[s] = None
  BY DEF LocalEdge
<1>2. UNCHANGED <<dirs, objects, entry, disk, acked, stamp, cuts>>
  BY DEF LocalEdge, treeVars, fileVars, bounds
<1>3. op' = [op EXCEPT ![p] = x] \/ Fail(p) BY DEF LocalEdge, Become
<1>4. CASE Fail(p) BY <1>1, <1>2, <1>4, Parts, FailStep
<1>5. CASE op' = [op EXCEPT ![p] = x]
  <2>1. DOMAIN o = DOMAIN Idle /\ DOMAIN o.cap = DOMAIN NoCapture BY Parts DEF OpType
  <2>2. /\ DOMAIN x = DOMAIN o /\ x.pc = "open" /\ DOMAIN x.cap = DOMAIN o.cap /\ x.cap.src = s
        /\ x.got = o.got /\ x.pin = [o.pin EXCEPT ![s] = Len(dirs[s])]
        /\ x.todo = o.todo /\ x.snap = o.snap
        /\ x.dir = o.dir /\ x.old = o.old /\ x.file = o.file /\ x.kind = o.kind
    BY <2>1, IdleShape DEF ResolveLocator
  <2> HIDE DEF x, s
  <2>3. /\ x.pin \in [Local -> Nat] /\ x.pin[s] = Len(dirs[s])
        /\ \A t \in Local : t # s => x.pin[t] = o.pin[t]
    <3>1. o.pin \in [Local -> Nat] /\ Len(dirs[s]) \in Nat BY <1>1, Parts DEF OpType, DirsType
    <3> QED BY <3>1, <2>2, <1>1
  <2>4. Captures(x, dirs, stamp)
    BY <1>1, <2>2, <2>3, Parts, EdgeCaptures
  <2>5. OpType(x) BY <2>1, <2>2, <2>3, Parts DEF OpType
  <2>6. FileInv(x, p, stamp) /\ \A e, k, a : HeldInv(x, e, k, a)
    BY <1>1, <2>2, Parts, EarlyFile DEF Written
  <2> QED BY <1>1, <1>2, <1>5, <2>2, <2>5, <2>6, <2>4, Parts, QuietStep
<1> QED BY <1>3, <1>4, <1>5

LEMMA GitEdgeStep ==
  ASSUME IInv, NEW p \in Proc, GitEdge(p)
  PROVE  IInv'
<1> DEFINE o == op[p]
           s == Head(o.edges).src
<1>1. o.pc = "resolve" /\ s \in Git BY DEF GitEdge
<1>2. UNCHANGED <<dirs, entry, disk, acked, stamp, cuts>> BY DEF GitEdge, fileVars, bounds
<1>3. \/ \E pack \in GitPacks(o, s) :
           op' = [op EXCEPT ![p] = Enter(o, s, pack)] /\ objects' = objects \cup {pack}
      \/ Fail(p) /\ UNCHANGED objects
  BY DEF GitEdge, Become
<1>4. CASE Fail(p) /\ UNCHANGED objects BY <1>1, <1>2, <1>4, Parts, FailStep
<1>5. ASSUME NEW pack \in GitPacks(o, s), op' = [op EXCEPT ![p] = Enter(o, s, pack)],
             objects' = objects \cup {pack}
      PROVE  IInv'
  <2> DEFINE x == Enter(o, s, pack)
  <2>1. pack \in Pack BY <1>1, Parts, Constants DEF GitPacks
  <2>2. objects' \subseteq Pack BY <2>1, <1>5, Parts
  <2>3. /\ DOMAIN x = DOMAIN o /\ x.pc = "resolve" /\ x.cap = NoCapture
        /\ x.got = [o.got EXCEPT ![s] = pack]
        /\ x.pin = o.pin /\ x.todo = o.todo /\ x.snap = o.snap
        /\ x.dir = o.dir /\ x.old = o.old /\ x.file = o.file /\ x.kind = o.kind
    <3>1. x = Enter(o, s, pack) OBVIOUS
    <3> HIDE DEF x, s
    <3> QED BY <3>1, Parts, EnterShape
  <2>4. op' = [op EXCEPT ![p] = x] BY <1>5
  <2> HIDE DEF x, s
  <2>5. x.got \in Gots /\ \A t \in Local : x.got[t] = o.got[t]
    <3>1. o.got \in Gots /\ s \in Source /\ s \notin Local BY <1>1, Parts, Constants DEF OpType
    <3> QED BY <3>1, <2>1, <2>3, Constants DEF Gots
  <2>6. Captures(x, dirs, stamp)
    BY <1>1, <2>3, <2>5, Parts, GitCaptures
  <2>7. OpType(x) BY <2>3, <2>5, Parts DEF OpType
  <2>8. FileInv(x, p, stamp) /\ \A e, k, a : HeldInv(x, e, k, a)
    BY <1>1, <2>3, Parts, EarlyFile DEF Written
  <2> QED BY <1>1, <1>2, <2>2, <2>3, <2>4, <2>6, <2>7, <2>8, Parts, QuietStep
<1> QED BY <1>3, <1>4, <1>5

LEMMA GraphResolvedStep ==
  ASSUME IInv, NEW p \in Proc, GraphResolved(p)
  PROVE  IInv'
<1> DEFINE o == op[p]
           locals == Local \cap Found(o)
           x == [o EXCEPT !.pc = "open", !.todo = locals, !.cap.src = FirstOf(Order, locals),
                          !.snap = [s \in Local |-> Disk(s)]]
<1>1. o.pc = "resolve" BY DEF GraphResolved
<1>2. UNCHANGED <<dirs, objects, entry, disk, acked, stamp, cuts>>
  BY DEF GraphResolved, treeVars, fileVars, bounds
<1>3. op' = [op EXCEPT ![p] = x] \/ Fail(p) BY DEF GraphResolved, Become
<1>4. CASE Fail(p) BY <1>1, <1>2, <1>4, Parts, FailStep
<1>5. CASE op' = [op EXCEPT ![p] = x]
  <2>1. DOMAIN o = DOMAIN Idle /\ DOMAIN o.cap = DOMAIN NoCapture BY Parts DEF OpType
  <2>2. locals = Taken(o) BY Constants DEF Taken, Found
  <2>3. /\ DOMAIN x = DOMAIN o /\ x.pc = "open" /\ DOMAIN x.cap = DOMAIN o.cap
        /\ x.cap.src = FirstOf(Order, locals) /\ x.todo = locals
        /\ x.got = o.got /\ x.pin = o.pin /\ x.snap = [s \in Local |-> Disk(s)]
        /\ x.dir = o.dir /\ x.old = o.old /\ x.file = o.file /\ x.kind = o.kind
    BY <2>1, IdleShape
  <2> HIDE DEF x, locals
  <2>4. Captures(x, dirs, stamp) BY <1>1, <2>2, <2>3, Parts, ResolvedCaptures
  <2>5. x.todo \subseteq Local BY <2>2, <2>3 DEF Taken
  <2>6. OpType(x) BY <2>1, <2>3, <2>5, Parts DEF OpType
  <2>7. FileInv(x, p, stamp) /\ \A e, k, a : HeldInv(x, e, k, a)
    BY <1>1, <2>3, Parts, EarlyFile DEF Written
  <2> QED BY <1>1, <1>2, <1>5, <2>3, <2>4, <2>6, <2>7, Parts, QuietStep
<1> QED BY <1>3, <1>4, <1>5

LEMMA RevalidatedStep ==
  ASSUME IInv, NEW p \in Proc, Revalidated(p)
  PROVE  IInv'
<1> DEFINE o == op[p]
           s == o.cap.src
           pack == PackOf(s, o.cap.files)
           rest == o.todo \ {s}
           cap == IF rest = {} THEN NoCapture ELSE [NoCapture EXCEPT !.src = FirstOf(Order, rest)]
           x == [o EXCEPT !.bytes = o.bytes + PackBytes(pack), !.todo = rest,
                          !.pc = IF rest = {} THEN "assemble" ELSE "open", !.cap = cap]
<1>1. o.pc = "walk" /\ o.todo # {} /\ o.cap.left = {} /\ PinBound(o, s)
  BY DEF Revalidated, CaptureDone
<1>2. UNCHANGED <<dirs, entry, disk, acked, stamp, cuts>> /\ objects' = objects \cup {pack}
  BY DEF Revalidated, fileVars, bounds
<1>3. (op' = [op EXCEPT ![p] = x] /\ SameDigest(o, pack)) \/ Fail(p) BY DEF Revalidated, Become
<1>4. s \in Local /\ o.cap.files \in Files BY <1>1, Parts DEF Captures, Control
<1>5. objects' \subseteq Pack
  <2>1. pack \in Pack BY <1>4, Constants DEF Pack, PackOf, Files
  <2> QED BY <2>1, <1>2, Parts
<1>6. CASE Fail(p) BY <1>1, <1>2, <1>5, <1>6, Parts, FailStep
<1>7. CASE op' = [op EXCEPT ![p] = x] /\ SameDigest(o, pack)
  <2>1. DOMAIN o = DOMAIN Idle BY Parts DEF OpType
  <2>2. DOMAIN cap = DOMAIN NoCapture /\ (rest # {} => cap.src = FirstOf(Order, rest))
    BY IdleShape
  <2>3. /\ DOMAIN x = DOMAIN o /\ x.cap = cap /\ x.todo = rest
        /\ x.pc = IF rest = {} THEN "assemble" ELSE "open"
        /\ x.got = o.got /\ x.pin = o.pin /\ x.snap = o.snap
        /\ x.dir = o.dir /\ x.old = o.old /\ x.file = o.file /\ x.kind = o.kind
    BY <2>1, IdleShape
  <2>4. o.got[s].files = o.cap.files BY <1>7 DEF SameDigest, PackOf
  <2>5. OnPath(o, dirs, s) BY <1>1 DEF OnPath, PinBound
  <2> HIDE DEF x, cap
  <2>6. Captures(x, dirs, stamp) BY <1>1, <2>2, <2>3, <2>4, <2>5, Parts, TwiceCaptures
  <2>7. x.todo \subseteq Local /\ x.pc \in {"assemble", "open"} BY <2>3, Parts DEF OpType
  <2>8. OpType(x) BY <2>2, <2>3, <2>7, Parts DEF OpType, Late
  <2>9. FileInv(x, p, stamp) /\ \A e, k, a : HeldInv(x, e, k, a)
    BY <1>1, <2>3, <2>7, Parts, EarlyFile DEF Written
  <2> QED BY <1>1, <1>2, <1>5, <1>7, <2>3, <2>6, <2>8, <2>9, Parts, QuietStep
<1> QED BY <1>3, <1>6, <1>7

LEMMA AssembleStep ==
  ASSUME IInv, NEW p \in Proc, Assemble(p)
  PROVE  IInv'
<1> DEFINE o == op[p]
           x == [o EXCEPT !.pc = "unchanged"]
           y == [o EXCEPT !.pc = "write"]
<1>1. o.pc = "assemble" /\ UNCHANGED <<dirs, objects, entry, disk, acked, stamp, cuts>>
  BY DEF Assemble, treeVars, fileVars, bounds
<1>2. \/ Fail(p)
      \/ op' = [op EXCEPT ![p] = x] /\ o.kind = "update"
      \/ op' = [op EXCEPT ![p] = y]
  BY DEF Assemble, Become
<1>3. DOMAIN o = DOMAIN Idle BY Parts DEF OpType
<1>4. CASE Fail(p) BY <1>1, <1>4, Parts, FailStep
<1>5. CASE op' = [op EXCEPT ![p] = x] /\ o.kind = "update"
  <2>1. /\ DOMAIN x = DOMAIN o /\ x.pc = "unchanged" /\ x.cap = o.cap /\ x.got = o.got
        /\ x.pin = o.pin /\ x.todo = o.todo /\ x.snap = o.snap
        /\ x.dir = o.dir /\ x.old = o.old /\ x.file = o.file /\ x.kind = o.kind
    BY <1>3, IdleShape
  <2> HIDE DEF x
  <2>2. OpType(x) BY <2>1, Parts DEF OpType, Late
  <2>3. Captures(x, dirs, stamp) BY <1>1, <2>1, Parts, SameCaptures DEF Late
  <2>4. FileInv(x, p, stamp) BY <1>1, <1>5, <2>1, Parts DEF FileInv, Written
  <2>5. \A e, k, a : HeldInv(x, e, k, a) BY <2>1 DEF HeldInv, Written
  <2> QED BY <1>1, <1>5, <2>1, <2>2, <2>3, <2>4, <2>5, Parts, QuietStep
<1>6. CASE op' = [op EXCEPT ![p] = y]
  <2>1. /\ DOMAIN y = DOMAIN o /\ y.pc = "write" /\ y.cap = o.cap /\ y.got = o.got
        /\ y.pin = o.pin /\ y.todo = o.todo /\ y.snap = o.snap
        /\ y.dir = o.dir /\ y.old = o.old /\ y.file = o.file /\ y.kind = o.kind
    BY <1>3, IdleShape
  <2> HIDE DEF y
  <2>2. OpType(y) BY <2>1, Parts DEF OpType, Late
  <2>3. Captures(y, dirs, stamp) BY <1>1, <2>1, Parts, SameCaptures DEF Late
  <2>4. FileInv(y, p, stamp) /\ \A e, k, a : HeldInv(y, e, k, a)
    BY <1>1, <2>1, Parts, EarlyFile DEF Written
  <2> QED BY <1>1, <1>6, <2>1, <2>2, <2>3, <2>4, Parts, QuietStep
<1> QED BY <1>2, <1>4, <1>5, <1>6

-----------------------------------------------------------------------------
\* The publication.

LEMMA LockOfGot ==
  ASSUME NEW o, NEW x, x.got = o.got
  PROVE  LockOf(x) = LockOf(o)
BY DEF LockOf, Found

LEMMA LockOfType ==
  ASSUME NEW o, OpType(o), o.got[Root] # None
  PROVE  LockOf(o) \in Body /\ LockOf(o) # Junk
<1>1. o.got \in Gots BY DEF OpType
<1>2. LockOf(o) = LockOf([got |-> o.got]) BY LockOfGot
<1>3. LockOf(o) \in Body BY <1>1, <1>2 DEF Body
<1>4. Root \in Found(o) BY Constants DEF Found
<1>5. LockOf(o).nodes # {} BY <1>4 DEF LockOf
<1>6. Junk.nodes = {} BY DEF Junk
<1> QED BY <1>3, <1>5, <1>6

\* A step of p that changes the directory d it holds or now takes, where e is
\* its new state and K is what a loss of power may leave of it.
LEMMA DirStepAt ==
  ASSUME IInv, NEW p \in Proc, NEW x, NEW e \in Entry, NEW K, NEW d \in 1 .. Len(dirs[Root]),
         Free(p, d),
         op' = [op EXCEPT ![p] = x],
         UNCHANGED <<dirs, objects, acked, stamp, cuts>>,
         entry' = [entry EXCEPT ![d] = e], disk' = [disk EXCEPT ![d] = K],
         e \in K, K \subseteq disk[d] \cup {e}, GoodEntry(e, acked[d], stamp),
         OpType(x), Captures(x, dirs, stamp), FileInv(x, p, stamp),
         x.pc # "idle" => x.dir = d /\ HeldInv(x, e, K, acked[d])
  PROVE  IInv'
<1>1. StoreType BY DEF IInv
<1>2. disk[d] \in SUBSET Entry /\ acked[d] \in Nat BY <1>1, RootType
<1>3. K \in SUBSET Entry BY <1>2
<1>4. /\ Len(entry) = Len(dirs[Root]) /\ Len(disk) = Len(dirs[Root])
      /\ entry \in Seq(Entry) /\ disk \in Seq(SUBSET Entry)
  BY <1>1 DEF StoreType
<1>5. /\ entry' \in Seq(Entry) /\ Len(entry') = Len(entry)
      /\ entry'[d] = e /\ \A c \in 1 .. Len(dirs[Root]) : c # d => entry'[c] = entry[c]
  BY <1>4
<1>6. /\ disk' \in Seq(SUBSET Entry) /\ Len(disk') = Len(disk)
      /\ disk'[d] = K /\ \A c \in 1 .. Len(dirs[Root]) : c # d => disk'[c] = disk[c]
  BY <1>3, <1>4
<1>7. StoreType' BY <1>1, <1>4, <1>5, <1>6 DEF StoreType
<1>8. DirInv(d, entry, disk, acked, stamp) BY DEF IInv, PublishInv, DirsInv
<1>9. DirInv(d, entry', disk', acked', stamp') BY <1>5, <1>6, <1>8 DEF DirInv
<1>10. stamp <= stamp' BY <1>1 DEF StoreType
<1>11. x.pc # "idle" => x.dir = d /\ HeldInv(x, entry'[d], disk'[d], acked'[d]) BY <1>5, <1>6
<1>12. \A c \in 1 .. Len(dirs[Root]) : c # d =>
         entry'[c] = entry[c] /\ disk'[c] = disk[c] /\ acked'[c] = acked[c]
  BY <1>5, <1>6
<1>13. Captures(x, dirs, stamp') /\ FileInv(x, p, stamp') /\ dirs' = dirs OBVIOUS
<1> QED BY <1>7, <1>9, <1>10, <1>11, <1>12, <1>13, StepInv

LEMMA DirStep ==
  ASSUME IInv, NEW p \in Proc, NEW x, NEW e \in Entry, NEW K, NEW d, d = op[p].dir,
         op[p].pc # "idle", op' = [op EXCEPT ![p] = x],
         UNCHANGED <<dirs, objects, acked, stamp, cuts>>,
         entry' = [entry EXCEPT ![d] = e], disk' = [disk EXCEPT ![d] = K],
         e \in K, K \subseteq disk[d] \cup {e}, GoodEntry(e, acked[d], stamp),
         OpType(x), Captures(x, dirs, stamp), FileInv(x, p, stamp),
         x.pc # "idle" => x.dir = d /\ HeldInv(x, e, K, acked[d])
  PROVE  IInv'
<1>1. /\ d \in 1 .. Len(dirs[Root])
      /\ Free(p, d)
  BY Alone
<1> QED BY <1>1, DirStepAt

\* The entry as it is.
LEMMA EntryNow ==
  ASSUME IInv, NEW d \in 1 .. Len(dirs[Root])
  PROVE  /\ entry[d] \in Entry /\ entry[d].lock \in File /\ entry[d].staging \in File
         /\ entry[d] \in disk[d] /\ GoodEntry(entry[d], acked[d], stamp)
         /\ acked[d] \in Nat /\ acked[d] <= stamp /\ disk[d] \in SUBSET Entry
<1>1. StoreType BY DEF IInv
<1>2. DirInv(d, entry, disk, acked, stamp) BY DEF IInv, PublishInv, DirsInv
<1>3. entry[d] \in Entry /\ disk[d] \in SUBSET Entry /\ acked[d] \in Nat BY <1>1, RootType
<1>4. entry[d].lock \in File /\ entry[d].staging \in File BY <1>3 DEF Entry
<1> QED BY <1>2, <1>3, <1>4 DEF DirInv

\* The fields of an entry of which one changes.
LEMMA EntryShape ==
  ASSUME NEW e \in Entry, NEW f \in File
  PROVE  /\ [e EXCEPT !.lock = f] \in Entry /\ [e EXCEPT !.staging = f] \in Entry
         /\ [e EXCEPT !.lock = f].lock = f /\ [e EXCEPT !.lock = f].staging = e.staging
         /\ [e EXCEPT !.staging = f].staging = f /\ [e EXCEPT !.staging = f].lock = e.lock
BY DEF Entry

\* Only the program counter changes, among the last ones, and the files.
LEMMA LateShape ==
  ASSUME NEW o, OpType(o), NEW D, NEW st, Captures(o, D, st), o.pc \in Late,
         NEW x, DOMAIN x = DOMAIN o, x.pc \in Late, x.cap = o.cap, x.got = o.got, x.pin = o.pin,
         x.todo = o.todo, x.snap = o.snap, x.dir = o.dir, x.old \in File, x.file \in File
  PROVE  OpType(x) /\ Captures(x, D, st) /\ LockOf(x) = LockOf(o)
<1>1. OpType(x) BY DEF OpType
<1>2. Captures(x, D, st) BY SameCaptures
<1> QED BY <1>1, <1>2, LockOfGot

LEMMA SyncUnchangedStep ==
  ASSUME IInv, NEW p \in Proc, SyncUnchanged(p)
  PROVE  IInv'
<1> DEFINE o == op[p]
           d == o.dir
           kept == [o.old EXCEPT !.synced = TRUE]
           e == [entry[d] EXCEPT !.lock = kept]
           x == [o EXCEPT !.pc = "kept", !.old = kept]
<1>1. o.pc = "unchanged" /\ UNCHANGED <<dirs, objects, acked, stamp, cuts>>
  BY DEF SyncUnchanged, treeVars, bounds
<1>2. \/ OldBound(o) /\ op' = [op EXCEPT ![p] = x] /\ entry' = [entry EXCEPT ![d] = e]
                     /\ disk' = [disk EXCEPT ![d] = {e}]
      \/ Fail(p) /\ UNCHANGED <<entry, disk>>
  BY DEF SyncUnchanged, Sync, Become
<1>3. CASE Fail(p) /\ UNCHANGED <<entry, disk>> BY <1>1, <1>3, Parts, FailStep
<1>4. CASE OldBound(o) /\ op' = [op EXCEPT ![p] = x] /\ entry' = [entry EXCEPT ![d] = e]
                       /\ disk' = [disk EXCEPT ![d] = {e}]
  <2>1. DOMAIN o = DOMAIN Idle /\ o.old \in File /\ o.file \in File BY Parts DEF OpType
  <2>2. /\ kept \in File /\ kept.no = o.old.no /\ kept.synced = TRUE /\ kept.body = o.old.body
        /\ kept.by = o.old.by
    BY <2>1 DEF File
  <2>3. d \in 1 .. Len(dirs[Root]) BY <1>1, Alone
  <2>4. entry[d].lock = o.old BY <1>4 DEF OldBound
  <2> HIDE DEF kept
  <2>5. /\ DOMAIN x = DOMAIN o /\ x.pc = "kept" /\ x.cap = o.cap /\ x.got = o.got /\ x.pin = o.pin
        /\ x.todo = o.todo /\ x.snap = o.snap /\ x.dir = o.dir /\ x.old = kept /\ x.file = o.file
        /\ x.kind = o.kind
    BY <2>1, IdleShape
  <2> HIDE DEF x
  <2>6. OpType(x) /\ Captures(x, dirs, stamp)
    BY <1>1, <2>1, <2>2, <2>5, Parts, LateShape DEF Late
  <2>7. e \in Entry /\ e.lock = kept /\ e.staging = entry[d].staging
    BY <2>2, <2>3, EntryNow, EntryShape
  <2> HIDE DEF e
  <2>8. o.kind = "update" /\ Readable(o.old) /\ Numbered(o.old, stamp) /\ o.file = NoFile
    BY <1>1, Parts DEF FileInv, Written
  <2>9. kept.no # 0 /\ Numbered(kept, stamp) /\ kept # NoFile /\ Decodes(kept)
    <3>1. o.old.no # 0 BY <2>8 DEF Numbered, Readable
    <3> QED BY <3>1, <2>2, <2>8, NoFileType DEF Numbered, Readable, Decodes
  <2>10. GoodEntry(e, acked[d], stamp)
    <3>1. GoodEntry(entry[d], acked[d], stamp) BY <2>3, EntryNow
    <3> QED BY <3>1, <2>2, <2>4, <2>7, <2>9 DEF GoodEntry, Kept
  <2>11. FileInv(x, p, stamp) BY <2>5, <2>8, <2>9 DEF FileInv, Written, Readable
  <2>12. HeldInv(x, e, {e}, acked[d]) BY <2>2, <2>5, <2>7 DEF HeldInv, Written
  <2>13. {e} \subseteq disk[d] \cup {e} /\ e \in {e} OBVIOUS
  <2> QED BY <1>1, <1>4, <2>5, <2>6, <2>7, <2>10, <2>11, <2>12, <2>13, DirStep
<1> QED BY <1>2, <1>3, <1>4

\* What is acknowledged: acked says it for a directory all of whose possible
\* states have the lock f.
LEMMA AckStep ==
  ASSUME IInv, NEW p \in Proc, NEW d, d = op[p].dir, op[p].pc # "idle", Fail(p),
         UNCHANGED <<dirs, objects, entry, disk, stamp, cuts>>, NEW f \in File,
         acked' = acked \/ acked' = [acked EXCEPT ![d] = f.no],
         acked' # acked => /\ \A e \in disk[d] : e.lock = f
                           /\ f.synced = TRUE /\ Decodes(f)
  PROVE  IInv'
<1>1. CASE acked' = acked BY <1>1, Parts, FailStep
<1>2. CASE acked' # acked
  <2>1. StoreType BY DEF IInv
  <2>2. d \in 1 .. Len(dirs[Root]) BY Alone
  <2>3. f.no \in Nat BY DEF File
  <2>4. acked \in Seq(Nat) /\ Len(acked) = Len(dirs[Root]) BY <2>1 DEF StoreType
  <2>5. acked' = [acked EXCEPT ![d] = f.no] BY <1>2
  <2>6. /\ acked' \in Seq(Nat) /\ Len(acked') = Len(acked) /\ acked'[d] = f.no
        /\ \A c \in 1 .. Len(dirs[Root]) : c # d => acked'[c] = acked[c]
    BY <2>2, <2>3, <2>4, <2>5
  <2>7. StoreType' BY <2>1, <2>4, <2>6 DEF StoreType
  <2>8. stamp \in Nat /\ stamp <= stamp' BY <2>1 DEF StoreType
  <2>9. DirInv(d, entry', disk', acked', stamp')
    <3>1. DirInv(d, entry, disk, acked, stamp) BY Alone
    <3>2. entry[d] \in disk[d] /\ entry[d].lock = f /\ Numbered(f, stamp)
      BY <1>2, <3>1 DEF DirInv, GoodEntry
    <3>3. \A e \in disk[d] : GoodEntry(e, f.no, stamp)
      BY <1>2, <2>3, <3>1 DEF DirInv, GoodEntry, Kept
    <3>4. f.no <= stamp BY <3>2 DEF Numbered
    <3> QED BY <2>6, <3>2, <3>3, <3>4 DEF DirInv
  <2>10. op' = [op EXCEPT ![p] = Idle] /\ Idle.pc = "idle" BY IdleShape DEF Fail, Become
  <2>11. OpType(Idle) /\ Captures(Idle, dirs, stamp') /\ FileInv(Idle, p, stamp')
    BY <2>8, IdleType, IdleCaptures, IdleFile
  <2>12. Free(p, d) BY Alone
  <2>13. \A c \in 1 .. Len(dirs[Root]) : c # d =>
           entry'[c] = entry[c] /\ disk'[c] = disk[c] /\ acked'[c] = acked[c]
    BY <2>6
  <2>14. dirs' = dirs OBVIOUS
  <2> QED BY <2>2, <2>7, <2>8, <2>9, <2>10, <2>11, <2>12, <2>13, <2>14, StepInv
<1> QED BY <1>1, <1>2

LEMMA AckUnchangedStep ==
  ASSUME IInv, NEW p \in Proc, AckUnchanged(p)
  PROVE  IInv'
<1> DEFINE o == op[p]
           d == o.dir
<1>1. o.pc = "kept" /\ Fail(p) /\ UNCHANGED <<dirs, objects, entry, disk, stamp, cuts>>
  BY DEF AckUnchanged, treeVars, bounds
<1>2. acked' = acked \/ acked' = [acked EXCEPT ![d] = o.old.no] BY DEF AckUnchanged
<1>3. acked' # acked => OldBound(o) BY DEF AckUnchanged
<1>4. HeldInv(o, entry[d], disk[d], acked[d]) BY <1>1, Alone
<1>5. FileInv(o, p, stamp) /\ o.old \in File BY Parts DEF OpType
<1>6. o.old.synced = TRUE /\ Decodes(o.old) BY <1>1, <1>4, <1>5 DEF HeldInv, FileInv, Readable
<1>7. acked' # acked => \A e \in disk[d] : e.lock = o.old BY <1>1, <1>3, <1>4 DEF HeldInv, OldBound
<1> QED BY <1>1, <1>2, <1>5, <1>6, <1>7, AckStep

LEMMA VerifyPublishedStep ==
  ASSUME IInv, NEW p \in Proc, VerifyPublished(p)
  PROVE  IInv'
<1> DEFINE o == op[p]
           d == o.dir
<1>1. o.pc = "verify" /\ Fail(p) /\ UNCHANGED <<dirs, objects, entry, disk, stamp, cuts>>
  BY DEF VerifyPublished, treeVars, bounds
<1>2. acked' = acked \/ acked' = [acked EXCEPT ![d] = o.file.no] BY DEF VerifyPublished
<1>3. acked' # acked => entry[d].lock.no = o.file.no BY DEF VerifyPublished
<1>4. HeldInv(o, entry[d], disk[d], acked[d]) BY <1>1, Alone
<1>5. FileInv(o, p, stamp) /\ o.file \in File BY Parts DEF OpType
<1>6. o.file.synced = TRUE /\ Decodes(o.file)
  <2>1. o.got[Root] # None BY <1>1, Parts DEF Captures, Control, Late
  <2>2. LockOf(o) # Junk BY <2>1, Parts, LockOfType
  <2> QED BY <1>1, <1>5, <2>2 DEF FileInv, Written, Decodes
<1>7. acked' # acked => \A e \in disk[d] : e.lock = o.file BY <1>1, <1>3, <1>4 DEF HeldInv
<1> QED BY <1>1, <1>2, <1>5, <1>6, <1>7, AckStep

LEMMA WriteTemporaryStep ==
  ASSUME IInv, NEW p \in Proc, WriteTemporary(p)
  PROVE  IInv'
<1> DEFINE o == op[p]
           d == o.dir
           c == IF o.kind = "create" THEN "link" ELSE "stage"
           f == [no |-> stamp', by |-> p, base |-> o.old.no, body |-> LockOf(o), synced |-> TRUE]
           x == [o EXCEPT !.pc = c, !.file = f]
<1>1. /\ o.pc = "write" /\ UNCHANGED <<dirs, objects, entry, disk, acked, cuts>>
      /\ stamp' = stamp + 1 /\ op' = [op EXCEPT ![p] = x]
  BY DEF WriteTemporary, Become, treeVars, fileVars, bounds
<1>2. StoreType /\ stamp \in Nat /\ DOMAIN o = DOMAIN Idle /\ o.old \in File
  BY Parts DEF OpType
<1>3. stamp' \in Nat /\ stamp <= stamp' /\ stamp' \in 1 .. stamp' BY <1>1, <1>2
<1>4. StoreType' BY <1>1, <1>2, <1>3 DEF StoreType
<1>5. d \in 1 .. Len(dirs[Root]) /\ Free(p, d)
  BY <1>1, Alone
<1>6. c = "link" \/ c = "stage" OBVIOUS
<1>7. LockOf(o) \in Body
  <2>1. o.got[Root] # None BY <1>1, Parts DEF Captures, Control, Late
  <2> QED BY <2>1, Parts, LockOfType
<1>8. o.old.no \in Nat BY <1>2 DEF File
<1>9. /\ f \in File /\ f.no = stamp' /\ f.by = p /\ f.base = o.old.no /\ f.body = LockOf(o)
      /\ f.synced = TRUE
  BY <1>3, <1>7, <1>8 DEF File
<1> HIDE DEF c, f
<1>10. /\ DOMAIN x = DOMAIN o /\ x.pc = c /\ x.cap = o.cap /\ x.got = o.got /\ x.pin = o.pin
       /\ x.todo = o.todo /\ x.snap = o.snap /\ x.dir = o.dir /\ x.old = o.old /\ x.file = f
       /\ x.kind = o.kind
  BY <1>2, IdleShape
<1> HIDE DEF x
<1>11. OpType(x) /\ Captures(x, dirs, stamp) /\ LockOf(x) = LockOf(o)
  BY <1>1, <1>2, <1>6, <1>9, <1>10, Parts, LateShape DEF Late
<1>12. Captures(x, dirs, stamp')
  BY <1>2, <1>3, <1>11, Parts, EditedSame, EditedCaptures
<1>13. FileInv(o, p, stamp) /\ FileInv(o, p, stamp') BY <1>2, <1>3, Parts, LaterFile
<1>14. FileInv(x, p, stamp')
  <2>1. Numbered(x.old, stamp') /\ (o.kind = "update" => Readable(x.old))
    BY <1>1, <1>10, <1>13 DEF FileInv
  <2> QED BY <1>3, <1>6, <1>9, <1>10, <1>11, <2>1 DEF FileInv, Written
<1>15. x.dir = d /\ HeldInv(x, entry'[d], disk'[d], acked'[d])
  <2>1. acked[d] \in Nat /\ acked[d] <= stamp BY <1>5, EntryNow
  <2>2. acked'[d] <= x.file.no BY <1>1, <1>2, <1>9, <1>10, <2>1
  <2> QED BY <1>6, <1>10, <2>2 DEF HeldInv
<1>16. DirInv(d, entry', disk', acked', stamp')
  <2>1. DirInv(d, entry, disk, acked, stamp) BY <1>1, Alone
  <2> QED BY <1>1, <1>2, <1>3, <1>5, <2>1, RootType, LaterDir
<1>17. \A b \in 1 .. Len(dirs[Root]) : b # d =>
         entry'[b] = entry[b] /\ disk'[b] = disk[b] /\ acked'[b] = acked[b]
  BY <1>1
<1>18. dirs' = dirs BY <1>1
<1> QED BY <1>1, <1>3, <1>4, <1>5, <1>11, <1>12, <1>14, <1>15, <1>16, <1>17, <1>18, StepInv

\* What the file that is being published is.
LEMMA WrittenFile ==
  ASSUME IInv, NEW p \in Proc, op[p].pc \in Written
  PROVE  /\ op[p].file \in File /\ op[p].file.by = p /\ op[p].file.base = op[p].old.no
         /\ op[p].file.no \in Nat /\ op[p].file.no # 0 /\ op[p].file # NoFile
         /\ op[p].file.synced = TRUE /\ Decodes(op[p].file) /\ Numbered(op[p].file, stamp)
         /\ op[p].dir \in 1 .. Len(dirs[Root]) /\ acked[op[p].dir] <= op[p].file.no
         /\ op[p].pc # "idle"
<1>1. FileInv(op[p], p, stamp) /\ OpType(op[p]) /\ Captures(op[p], dirs, stamp) /\ stamp \in Nat
  BY Parts
<1>2. op[p].pc \in Late /\ op[p].pc # "idle" BY DEF Written, Late
<1>3. op[p].got[Root] # None BY <1>1, <1>2 DEF Captures, Control
<1>4. LockOf(op[p]) # Junk BY <1>1, <1>3, LockOfType
<1>5. /\ op[p].file.by = p /\ op[p].file.base = op[p].old.no /\ op[p].file.synced = TRUE
      /\ op[p].file.no \in 1 .. stamp /\ Decodes(op[p].file)
  BY <1>1, <1>4 DEF FileInv, Decodes
<1>6. op[p].file \in File BY <1>1 DEF OpType
<1>7. op[p].file # NoFile BY <1>5, NoFileType
<1>8. op[p].dir \in 1 .. Len(dirs[Root]) /\ acked[op[p].dir] <= op[p].file.no
  BY <1>2, Alone DEF HeldInv
<1> QED BY <1>1, <1>2, <1>5, <1>6, <1>7, <1>8 DEF Numbered

\* The program counter moves on from one of the publication to another.
LEMMA WrittenStep ==
  ASSUME IInv, NEW p \in Proc, NEW x, op[p].pc \in Written, x.pc \in Written,
         x = [op[p] EXCEPT !.pc = x.pc]
  PROVE  /\ OpType(x) /\ Captures(x, dirs, stamp) /\ FileInv(x, p, stamp)
         /\ x.dir = op[p].dir /\ x.file = op[p].file /\ x.old = op[p].old
<1> DEFINE o == op[p]
<1>1. DOMAIN o = DOMAIN Idle /\ o.old \in File /\ o.file \in File /\ FileInv(o, p, stamp)
  BY Parts DEF OpType
<1>2. /\ DOMAIN x = DOMAIN o /\ x.cap = o.cap /\ x.got = o.got /\ x.pin = o.pin
      /\ x.todo = o.todo /\ x.snap = o.snap /\ x.dir = o.dir /\ x.old = o.old /\ x.file = o.file
      /\ x.kind = o.kind
  BY <1>1, IdleShape
<1>3. o.pc \in Late /\ x.pc \in Late BY DEF Written, Late
<1>4. OpType(x) /\ Captures(x, dirs, stamp) /\ LockOf(x) = LockOf(o)
  BY <1>1, <1>2, <1>3, Parts, LateShape
<1>5. FileInv(x, p, stamp) BY <1>1, <1>2, <1>4 DEF FileInv, Written
<1> QED BY <1>2, <1>4, <1>5

LEMMA LinkCreatedStep ==
  ASSUME IInv, NEW p \in Proc, LinkCreated(p)
  PROVE  IInv'
<1> DEFINE o == op[p]
           d == o.dir
           e == [entry[d] EXCEPT !.lock = o.file]
           x == [o EXCEPT !.pc = "sync"]
           K == disk[d] \cup {e}
<1>1. o.pc = "link" /\ UNCHANGED <<dirs, objects, acked, stamp, cuts>>
  BY DEF LinkCreated, treeVars, bounds
<1>2. \/ op' = [op EXCEPT ![p] = x] /\ entry' = [entry EXCEPT ![d] = e]
         /\ disk' = [disk EXCEPT ![d] = K]
      \/ Fail(p) /\ UNCHANGED <<entry, disk>>
  BY DEF LinkCreated, Change, Become
<1>3. CASE Fail(p) /\ UNCHANGED <<entry, disk>> BY <1>1, <1>3, Parts, FailStep
<1>4. CASE op' = [op EXCEPT ![p] = x] /\ entry' = [entry EXCEPT ![d] = e]
           /\ disk' = [disk EXCEPT ![d] = K]
  <2>1. o.pc \in Written /\ x.pc = "sync" /\ x.pc \in Written /\ x = [op[p] EXCEPT !.pc = x.pc]
    <3>1. DOMAIN o = DOMAIN Idle BY Parts DEF OpType
    <3> QED BY <1>1, <3>1, IdleShape DEF Written
  <2>2. d \in 1 .. Len(dirs[Root]) BY <2>1, WrittenFile
  <2>3. e \in Entry /\ e.lock = o.file /\ e.staging = entry[d].staging
    <3>1. entry[d] \in Entry /\ o.file \in File BY <2>1, <2>2, WrittenFile, EntryNow
    <3> HIDE DEF o, d
    <3> QED BY <3>1, EntryShape
  <2> HIDE DEF e, x
  <2>4. /\ OpType(x) /\ Captures(x, dirs, stamp) /\ FileInv(x, p, stamp)
        /\ x.dir = d /\ x.file = o.file
    BY <2>1, WrittenStep
  <2>5. GoodEntry(e, acked[d], stamp)
    BY <2>1, <2>2, <2>3, WrittenFile, EntryNow DEF GoodEntry, Kept
  <2>6. HeldInv(x, e, K, acked[d]) BY <2>1, <2>4, WrittenFile DEF HeldInv
  <2>7. e \in K /\ K \subseteq disk[d] \cup {e} OBVIOUS
  <2> HIDE DEF K
  <2> QED BY <1>1, <1>4, <2>1, <2>3, <2>4, <2>5, <2>6, <2>7, DirStep
<1> QED BY <1>2, <1>3, <1>4

LEMMA LinkStagingStep ==
  ASSUME IInv, NEW p \in Proc, LinkStaging(p)
  PROVE  IInv'
<1> DEFINE o == op[p]
           d == o.dir
           e == [entry[d] EXCEPT !.staging = o.file]
           x == [o EXCEPT !.pc = "check"]
           K == disk[d] \cup {e}
<1>1. o.pc = "stage" /\ UNCHANGED <<dirs, objects, acked, stamp, cuts>>
  BY DEF LinkStaging, treeVars, bounds
<1>2. \/ op' = [op EXCEPT ![p] = x] /\ entry' = [entry EXCEPT ![d] = e]
         /\ disk' = [disk EXCEPT ![d] = K]
      \/ Fail(p) /\ UNCHANGED <<entry, disk>>
  BY DEF LinkStaging, Change, Become
<1>3. CASE Fail(p) /\ UNCHANGED <<entry, disk>> BY <1>1, <1>3, Parts, FailStep
<1>4. CASE op' = [op EXCEPT ![p] = x] /\ entry' = [entry EXCEPT ![d] = e]
           /\ disk' = [disk EXCEPT ![d] = K]
  <2>1. o.pc \in Written /\ x.pc = "check" /\ x.pc \in Written /\ x = [op[p] EXCEPT !.pc = x.pc]
    <3>1. DOMAIN o = DOMAIN Idle BY Parts DEF OpType
    <3> QED BY <1>1, <3>1, IdleShape DEF Written
  <2>2. d \in 1 .. Len(dirs[Root]) BY <2>1, WrittenFile
  <2>3. e \in Entry /\ e.staging = o.file /\ e.lock = entry[d].lock
    <3>1. entry[d] \in Entry /\ o.file \in File BY <2>1, <2>2, WrittenFile, EntryNow
    <3> HIDE DEF o, d
    <3> QED BY <3>1, EntryShape
  <2> HIDE DEF e, x
  <2>4. /\ OpType(x) /\ Captures(x, dirs, stamp) /\ FileInv(x, p, stamp)
        /\ x.dir = d /\ x.file = o.file
    BY <2>1, WrittenStep
  <2>5. GoodEntry(e, acked[d], stamp)
    BY <2>1, <2>2, <2>3, WrittenFile, EntryNow DEF GoodEntry, Kept
  <2>6. HeldInv(x, e, K, acked[d]) BY <2>1, <2>3, <2>4, WrittenFile DEF HeldInv
  <2>7. e \in K /\ K \subseteq disk[d] \cup {e} OBVIOUS
  <2> HIDE DEF K
  <2> QED BY <1>1, <1>4, <2>1, <2>3, <2>4, <2>5, <2>6, <2>7, DirStep
<1> QED BY <1>2, <1>3, <1>4

LEMMA RenameStagingStep ==
  ASSUME IInv, NEW p \in Proc, RenameStaging(p)
  PROVE  IInv'
<1> DEFINE o == op[p]
           d == o.dir
           e == [lock |-> entry[d].staging, staging |-> NoFile]
           x == [o EXCEPT !.pc = "sync"]
           K == disk[d] \cup {e}
<1>1. o.pc = "swap" /\ UNCHANGED <<dirs, objects, acked, stamp, cuts>>
  BY DEF RenameStaging, treeVars, bounds
<1>2. \/ op' = [op EXCEPT ![p] = x] /\ entry' = [entry EXCEPT ![d] = e]
         /\ disk' = [disk EXCEPT ![d] = K]
      \/ Fail(p) /\ UNCHANGED <<entry, disk>>
  BY DEF RenameStaging, Change, Become
<1>3. CASE Fail(p) /\ UNCHANGED <<entry, disk>> BY <1>1, <1>3, Parts, FailStep
<1>4. CASE op' = [op EXCEPT ![p] = x] /\ entry' = [entry EXCEPT ![d] = e]
           /\ disk' = [disk EXCEPT ![d] = K]
  <2>1. o.pc \in Written /\ x.pc = "sync" /\ x.pc \in Written /\ x = [op[p] EXCEPT !.pc = x.pc]
    <3>1. DOMAIN o = DOMAIN Idle BY Parts DEF OpType
    <3> QED BY <1>1, <3>1, IdleShape DEF Written
  <2>2. entry[d].staging = o.file BY <1>1, Alone DEF HeldInv
  <2>3. e \in Entry /\ e.lock = o.file /\ e.staging = NoFile
    BY <2>1, <2>2, WrittenFile, NoFileType DEF Entry
  <2> HIDE DEF e, x
  <2>4. /\ OpType(x) /\ Captures(x, dirs, stamp) /\ FileInv(x, p, stamp)
        /\ x.dir = d /\ x.file = o.file
    BY <2>1, WrittenStep
  <2>5. GoodEntry(e, acked[d], stamp)
    BY <2>1, <2>3, WrittenFile, NoFileType DEF GoodEntry, Kept
  <2>6. HeldInv(x, e, K, acked[d]) BY <2>1, <2>4, WrittenFile DEF HeldInv
  <2>7. e \in K /\ K \subseteq disk[d] \cup {e} OBVIOUS
  <2> HIDE DEF K
  <2> QED BY <1>1, <1>4, <2>1, <2>3, <2>4, <2>5, <2>6, <2>7, DirStep
<1> QED BY <1>2, <1>3, <1>4

LEMMA SyncPublishedStep ==
  ASSUME IInv, NEW p \in Proc, SyncPublished(p)
  PROVE  IInv'
<1> DEFINE o == op[p]
           d == o.dir
           e == entry[d]
           x == [o EXCEPT !.pc = "verify"]
           K == {e}
<1>1. o.pc = "sync" /\ UNCHANGED <<dirs, objects, acked, stamp, cuts>>
  BY DEF SyncPublished, treeVars, bounds
<1>2. \/ /\ e.lock = o.file
         /\ op' = [op EXCEPT ![p] = x] /\ entry' = [entry EXCEPT ![d] = e]
         /\ disk' = [disk EXCEPT ![d] = K]
      \/ Fail(p) /\ UNCHANGED <<entry, disk>>
  BY DEF SyncPublished, Sync, Become
<1>3. CASE Fail(p) /\ UNCHANGED <<entry, disk>> BY <1>1, <1>3, Parts, FailStep
<1>4. CASE /\ e.lock = o.file
           /\ op' = [op EXCEPT ![p] = x] /\ entry' = [entry EXCEPT ![d] = e]
           /\ disk' = [disk EXCEPT ![d] = K]
  <2>1. o.pc \in Written /\ x.pc = "verify" /\ x.pc \in Written /\ x = [op[p] EXCEPT !.pc = x.pc]
    <3>1. DOMAIN o = DOMAIN Idle BY Parts DEF OpType
    <3> QED BY <1>1, <3>1, IdleShape DEF Written
  <2>2. d \in 1 .. Len(dirs[Root]) BY <2>1, WrittenFile
  <2>3. e \in Entry /\ GoodEntry(e, acked[d], stamp) BY <2>2, EntryNow
  <2>4. e \in K /\ K \subseteq disk[d] \cup {e} /\ \A b \in K : b.lock = o.file BY <1>4
  <2> HIDE DEF e, x, K
  <2>5. /\ OpType(x) /\ Captures(x, dirs, stamp) /\ FileInv(x, p, stamp)
        /\ x.dir = d /\ x.file = o.file
    BY <2>1, WrittenStep
  <2>6. HeldInv(x, e, K, acked[d]) BY <2>1, <2>4, <2>5, WrittenFile DEF HeldInv
  <2> QED BY <1>1, <1>4, <2>1, <2>3, <2>4, <2>5, <2>6, DirStep
<1> QED BY <1>2, <1>3, <1>4

\* cleanup_staging leaves a directory like the one it found.
LEMMA CleanedEntry ==
  ASSUME IInv, NEW d \in 1 .. Len(dirs[Root]), NEW e, e = [entry[d] EXCEPT !.staging = NoFile]
  PROVE  e \in Entry /\ e.lock = entry[d].lock /\ GoodEntry(e, acked[d], stamp)
<1>1. e \in Entry /\ e.lock = entry[d].lock /\ e.staging = NoFile
  BY EntryNow, NoFileType, EntryShape
<1> QED BY <1>1, EntryNow, NoFileType DEF GoodEntry, Kept

LEMMA RecheckOldStep ==
  ASSUME IInv, NEW p \in Proc, RecheckOld(p)
  PROVE  IInv'
<1> DEFINE o == op[p]
           d == o.dir
           e == [entry[d] EXCEPT !.staging = NoFile]
           x == [o EXCEPT !.pc = "swap"]
           K == {e}
<1>1. o.pc = "check" /\ UNCHANGED <<dirs, objects, acked, stamp, cuts>>
  BY DEF RecheckOld, treeVars, bounds
<1>2. \/ OldBound(o) /\ op' = [op EXCEPT ![p] = x] /\ UNCHANGED <<entry, disk>>
      \/ Fail(p) /\ CleanupStaging(d)
  BY DEF RecheckOld, Become
<1>3. o.pc \in Written /\ x.pc = "swap" /\ x.pc \in Written /\ x = [op[p] EXCEPT !.pc = x.pc]
  <2>1. DOMAIN o = DOMAIN Idle BY Parts DEF OpType
  <2> QED BY <1>1, <2>1, IdleShape DEF Written
<1>4. d \in 1 .. Len(dirs[Root]) BY <1>3, WrittenFile
<1>5. CASE OldBound(o) /\ op' = [op EXCEPT ![p] = x] /\ UNCHANGED <<entry, disk>>
  <2> HIDE DEF x
  <2>1. /\ OpType(x) /\ Captures(x, dirs, stamp) /\ FileInv(x, p, stamp)
        /\ x.dir = d /\ x.file = o.file /\ x.old = o.old
    BY <1>3, WrittenStep
  <2>2. HeldInv(o, entry[d], disk[d], acked[d]) BY <1>1, Alone
  <2>3. HeldInv(x, entry[x.dir], disk[x.dir], acked[x.dir])
    BY <1>1, <1>3, <1>5, <2>1, <2>2 DEF HeldInv, Written, OldBound
  <2>4. objects' \subseteq Pack BY <1>1, Parts
  <2> QED BY <1>1, <1>5, <2>1, <2>3, <2>4, QuietStep
<1>6. CASE Fail(p) /\ CleanupStaging(d)
  <2>1. CASE UNCHANGED <<entry, disk>> BY <1>1, <1>6, <2>1, Parts, FailStep
  <2>2. CASE entry' = [entry EXCEPT ![d] = e] /\ disk' = [disk EXCEPT ![d] = K]
    <3>1. e = [entry[d] EXCEPT !.staging = NoFile] OBVIOUS
    <3>2. e \in K /\ K \subseteq disk[d] \cup {e} OBVIOUS
    <3> HIDE DEF e, K
    <3>3. e \in Entry /\ GoodEntry(e, acked[d], stamp) BY <1>4, <3>1, CleanedEntry
    <3>4. op' = [op EXCEPT ![p] = Idle] /\ Idle.pc = "idle" BY <1>6, IdleShape DEF Fail, Become
    <3>5. OpType(Idle) /\ Captures(Idle, dirs, stamp) /\ FileInv(Idle, p, stamp)
      BY Parts, IdleType, IdleCaptures, IdleFile
    <3> QED BY <1>1, <2>2, <3>2, <3>3, <3>4, <3>5, DirStep
  <2> QED BY <1>6, <2>1, <2>2 DEF CleanupStaging, Sync
<1> QED BY <1>2, <1>5, <1>6

-----------------------------------------------------------------------------
\* The beginning of an operation.

LEMMA BeginStep ==
  ASSUME IInv, NEW p \in Proc, NEW kind \in {"create", "update"}, NEW input, Begin(p, kind, input)
  PROVE  IInv'
<1> DEFINE d == Len(dirs[Root])
           x == [Idle EXCEPT !.pc = "open", !.kind = kind, !.dir = d, !.input = input,
                   !.old = entry[d].lock, !.pin[Root] = d, !.used = Descriptors[Root],
                   !.cap.src = Root]
           c == [entry[d] EXCEPT !.staging = NoFile]
<1>1. /\ op[p].pc = "idle" /\ UNCHANGED <<dirs, objects, acked, stamp, cuts>>
      /\ Holder(d) = {} /\ LockAllows(kind, entry[d].lock)
      /\ CleanupStaging(d) /\ op' = [op EXCEPT ![p] = x]
  BY DEF Begin, OpenPin, Become, treeVars
<1>2. StoreType /\ Root \in Local /\ stamp \in Nat BY Parts, Constants
<1>3. dirs[Root] \in Seq(Dir) /\ Len(dirs[Root]) > 0 BY <1>2 DEF StoreType, DirsType
<1>4. d \in 1 .. Len(dirs[Root]) /\ d \in Nat BY <1>3
<1>5. Free(p, d) BY <1>1 DEF Holder, Free
<1>6. entry[d] \in Entry /\ entry[d].lock \in File BY <1>4, EntryNow
<1>7. x.cap = [NoCapture EXCEPT !.src = Root] /\ x.pin = [Idle.pin EXCEPT ![Root] = d]
  BY IdleShape
<1>8. /\ DOMAIN x = DOMAIN Idle /\ x.pc = "open" /\ x.kind = kind /\ x.dir = d
      /\ x.old = entry[d].lock /\ x.got = Idle.got /\ x.todo = {} /\ x.file = NoFile
  BY IdleShape
<1> HIDE DEF x
<1>9. x.cap.src = Root /\ DOMAIN x.cap = DOMAIN NoCapture BY <1>7, IdleShape
<1>10. x.pin[Root] = d /\ x.pin \in [Local -> Nat] BY <1>2, <1>4, <1>7, IdleShape
<1>11. OpType(x)
  BY <1>4, <1>6, <1>8, <1>9, <1>10, IdleType, NoFileType DEF OpType
<1>12. Captures(x, dirs, stamp)
  <2>1. Taken(x) = {} /\ ~Snapped(x) BY <1>8, IdleShape, Constants DEF Taken, Snapped, Late
  <2>2. InDir(x, dirs, Root) BY <1>4, <1>10 DEF InDir
  <2> QED BY <1>2, <1>8, <1>9, <2>1, <2>2
      DEF Captures, Control, FirstCaptures, Walk, Snaps, Unsettled, SecondWalk, Settled, Late
<1>13. FileInv(x, p, stamp) /\ \A e, k, a : HeldInv(x, e, k, a)
  <2>1. Numbered(entry[d].lock, stamp) BY <1>4, EntryNow DEF GoodEntry
  <2>2. kind = "update" => Readable(entry[d].lock) BY <1>1 DEF LockAllows
  <2> QED BY <1>8, <2>1, <2>2 DEF FileInv, HeldInv, Written
<1>14. CASE entry' = entry /\ disk' = disk
  <2>1. /\ entry \in Seq(Entry) /\ Len(entry) = Len(dirs[Root])
        /\ disk \in Seq(SUBSET Entry) /\ Len(disk) = Len(dirs[Root])
    BY <1>2 DEF StoreType
  <2>2. entry' = [entry EXCEPT ![d] = entry[d]] /\ disk' = [disk EXCEPT ![d] = disk[d]]
    BY <1>4, <1>14, <2>1
  <2>3. /\ entry[d] \in disk[d] /\ disk[d] \subseteq disk[d] \cup {entry[d]}
        /\ GoodEntry(entry[d], acked[d], stamp)
    BY <1>4, EntryNow
  <2> HIDE DEF d
  <2> QED BY <1>1, <1>4, <1>5, <1>6, <1>8, <1>11, <1>12, <1>13, <2>2, <2>3, DirStepAt
<1>15. CASE entry' = [entry EXCEPT ![d] = c] /\ disk' = [disk EXCEPT ![d] = {c}]
  <2>1. c = [entry[d] EXCEPT !.staging = NoFile] OBVIOUS
  <2> HIDE DEF c, d
  <2>2. c \in Entry /\ GoodEntry(c, acked[d], stamp) BY <1>4, <2>1, CleanedEntry
  <2>3. c \in {c} /\ {c} \subseteq disk[d] \cup {c} OBVIOUS
  <2> QED BY <1>1, <1>4, <1>5, <1>8, <1>11, <1>12, <1>13, <1>15, <2>2, <2>3, DirStepAt
<1> QED BY <1>1, <1>14, <1>15 DEF CleanupStaging, Sync

-----------------------------------------------------------------------------
\* What the user does.

\* The operations go on where they were.
LEMMA UserStep ==
  ASSUME IInv, op' = op, StoreType', stamp <= stamp', Edited(dirs, dirs', stamp),
         Versions(dirs', stamp'), DirsInv',
         \A p \in Proc : op[p].pc # "idle" =>
           HeldInv(op[p], entry'[op[p].dir], disk'[op[p].dir], acked'[op[p].dir])
  PROVE  IInv'
<1>1. StoreType /\ OpsType /\ CapturesInv /\ PublishInv BY DEF IInv
<1>2. stamp \in Nat /\ stamp' \in Nat /\ DirsType(dirs) /\ DirsType(dirs')
  <2>1. stamp \in Nat /\ DirsType(dirs) BY <1>1 DEF StoreType
  <2>2. stamp' \in Nat /\ DirsType(dirs') BY DEF StoreType, DirsType
  <2> QED BY <2>1, <2>2
<1>3. OpsType' BY <1>1 DEF OpsType
<1>4. ASSUME NEW p \in Proc PROVE Captures(op[p], dirs', stamp')
  <2>1. OpType(op[p]) /\ Captures(op[p], dirs, stamp) /\ Versions(dirs, stamp)
    BY <1>1 DEF OpsType, CapturesInv
  <2> QED BY <1>2, <2>1, EditedCaptures
<1>5. CapturesInv' BY <1>4 DEF CapturesInv
<1>6. Exclusive' BY <1>1 DEF PublishInv, Exclusive
<1>7. ASSUME NEW p \in Proc PROVE FileInv(op[p], p, stamp')
  BY <1>1, <1>2, LaterFile DEF OpsType, PublishInv
<1>8. ASSUME NEW p \in Proc, op[p].pc # "idle" PROVE op[p].dir \in 1 .. Len(dirs'[Root])
  <2>1. op[p].dir \in 1 .. Len(dirs[Root]) BY <1>1, <1>8 DEF PublishInv
  <2>2. Len(dirs[Root]) <= Len(dirs'[Root]) BY Constants DEF Edited
  <2>3. Len(dirs[Root]) \in Nat /\ Len(dirs'[Root]) \in Nat BY <1>2, Constants DEF DirsType
  <2> QED BY <2>1, <2>2, <2>3
<1> QED BY <1>3, <1>5, <1>6, <1>7, <1>8 DEF IInv, PublishInv

\* The root's directories as they are.
LEMMA SameRoot ==
  ASSUME IInv, UNCHANGED <<entry, disk, acked>>, Len(dirs'[Root]) = Len(dirs[Root]),
         stamp' \in Nat, stamp <= stamp'
  PROVE  /\ DirsInv'
         /\ \A p \in Proc : op[p].pc # "idle" =>
              HeldInv(op[p], entry'[op[p].dir], disk'[op[p].dir], acked'[op[p].dir])
<1>1. StoreType /\ stamp \in Nat BY DEF IInv, StoreType
<1>2. ASSUME NEW c \in 1 .. Len(dirs[Root]) PROVE DirInv(c, entry', disk', acked', stamp')
  <2>1. DirInv(c, entry, disk, acked, stamp) BY DEF IInv, PublishInv, DirsInv
  <2>2. acked[c] \in Nat /\ disk[c] \in SUBSET Entry BY <1>1, RootType
  <2> QED BY <1>1, <2>1, <2>2, LaterDir
<1>3. DirsInv' BY <1>2 DEF DirsInv
<1>4. \A p \in Proc : op[p].pc # "idle" =>
        HeldInv(op[p], entry[op[p].dir], disk[op[p].dir], acked[op[p].dir])
  BY Alone
<1> QED BY <1>3, <1>4

\* From the files f to g with one edit, the last version st before it and su
\* after it.
FilesEdited(s, f, g, st, su) ==
  \A n \in Name :
    /\ g[n] <= su
    /\ g[n] = f[n] \/ g[n] > st \/ (g[n] = Absent /\ f[n] # Absent /\ f[n] = First[s][n])

\* The directory bound to the path of s is now b.
LEMMA BoundEdited ==
  ASSUME IInv, NEW s \in Local, NEW b \in Dir,
         dirs' = [dirs EXCEPT ![s] = [dirs[s] EXCEPT ![Len(dirs[s])] = b]],
         stamp' \in Nat, stamp <= stamp', UNCHANGED <<entry, disk, acked, objects, op, cuts>>,
         FilesEdited(s, Bound(s).files, b.files, stamp, stamp')
  PROVE  IInv'
<1> DEFINE i == Len(dirs[s])
           q == [dirs[s] EXCEPT ![i] = b]
<1>1. StoreType /\ stamp \in Nat /\ DirsType(dirs) /\ Versions(dirs, stamp)
  BY DEF IInv, StoreType, CapturesInv
<1>2. DOMAIN dirs = Local /\ \A t \in Local : dirs[t] \in Seq(Dir) /\ Len(dirs[t]) > 0
  BY <1>1 DEF DirsType
<1>3. i \in Nat /\ i > 0 /\ dirs[s] \in Seq(Dir) BY <1>2
<1>4. /\ q \in Seq(Dir) /\ Len(q) = i /\ q[i] = b
      /\ \A j \in 1 .. i : j # i => q[j] = dirs[s][j]
  BY <1>3
<1>5. dirs' = [dirs EXCEPT ![s] = q] OBVIOUS
<1> HIDE DEF q
<1>6. dirs'[s] = q /\ \A t \in Local : t # s => dirs'[t] = dirs[t] BY <1>2, <1>5
<1>7. DirsType(dirs')
  <2>1. dirs' \in [Local -> Seq(Dir)] BY <1>1, <1>4, <1>5 DEF DirsType
  <2> QED BY <1>2, <1>3, <1>4, <1>6, <2>1 DEF DirsType
<1>8. \A t \in Local : Len(dirs'[t]) = Len(dirs[t]) BY <1>4, <1>6
<1>9. StoreType' BY <1>1, <1>7, <1>8, Constants DEF StoreType
<1>10. \A t \in Local : \A j \in 1 .. Len(dirs[t]) : \/ t = s /\ j = i /\ dirs'[t][j] = b
                                                     \/ dirs'[t][j] = dirs[t][j]
  BY <1>4, <1>6
<1>11. dirs[s][i] = Bound(s) BY DEF Bound
<1>12. \A t \in Local : \A j \in 1 .. Len(dirs[t]) : \A n \in Name : dirs[t][j].files[n] \in Nat
  <2>1. \A t \in Local : \A j \in 1 .. Len(dirs[t]) : dirs[t][j] \in Dir BY <1>2
  <2> QED BY <2>1 DEF Dir, Files
<1>13. Edited(dirs, dirs', stamp)
  <2> SUFFICES ASSUME NEW t \in Local
               PROVE  /\ Len(dirs[t]) <= Len(dirs'[t])
                      /\ \A j \in 1 .. Len(dirs[t]) : \A n \in Name :
                           LET v == dirs[t][j].files[n]
                               w == dirs'[t][j].files[n]
                           IN w = v \/ w > stamp \/ (w = Absent /\ v # Absent /\ v = First[t][n])
    BY DEF Edited
  <2>1. Len(dirs[t]) <= Len(dirs'[t]) BY <1>2, <1>8
  <2> QED BY <1>10, <1>11, <2>1 DEF FilesEdited
<1>14. Versions(dirs', stamp')
  <2>1. \A t \in Local : \A n \in Name : First[t][n] <= stamp'
    <3>1. \A t \in Local : \A n \in Name : First[t][n] \in Nat BY Constants DEF Absent
    <3> QED BY <1>1, <3>1 DEF Versions
  <2>2. ASSUME NEW t \in Local, NEW j \in 1 .. Len(dirs'[t]), NEW n \in Name
        PROVE  dirs'[t][j].files[n] <= stamp'
    <3>1. j \in 1 .. Len(dirs[t]) BY <1>8
    <3>2. CASE dirs'[t][j] = b BY <3>2 DEF FilesEdited
    <3>3. CASE dirs'[t][j] = dirs[t][j] BY <3>1, <3>3, <1>1, <1>12 DEF Versions
    <3> QED BY <3>1, <3>2, <3>3, <1>10
  <2> QED BY <2>1, <2>2 DEF Versions
<1>15. Len(dirs'[Root]) = Len(dirs[Root]) BY <1>8, Constants
<1> QED BY <1>9, <1>13, <1>14, <1>15, SameRoot, UserStep

LEMMA EditFileStep ==
  ASSUME IInv, NEW s \in Local, NEW n \in Name, EditFile(s, n)
  PROVE  IInv'
<1> DEFINE i == Len(dirs[s])
           a == Bound(s)
           k == IF a.files[n] = Absent THEN 1 ELSE 0
           b == [a EXCEPT !.files[n] = stamp + 1, !.changed = @ + k]
<1>1. StoreType /\ stamp \in Nat /\ DirsType(dirs) /\ Versions(dirs, stamp)
  BY DEF IInv, StoreType, CapturesInv
<1>2. dirs[s] \in Seq(Dir) /\ i \in 1 .. Len(dirs[s]) BY <1>1 DEF DirsType
<1>3. a \in Dir /\ a = dirs[s][i] BY <1>2 DEF Bound
<1>4. a.files \in Files /\ a.changed \in Nat /\ k \in Nat BY <1>3 DEF Dir
<1>5. /\ dirs' = [dirs EXCEPT ![s][i].files[n] = stamp + 1, ![s][i].changed = @ + k]
      /\ stamp' = stamp + 1 /\ UNCHANGED <<entry, disk, acked, objects, op, cuts>>
  BY DEF EditFile, fileVars
<1>6. dirs' = [dirs EXCEPT ![s] = [dirs[s] EXCEPT ![i] = b]]
  <2> HIDE DEF k
  <2> QED BY <1>1, <1>2, <1>3, <1>5 DEF DirsType
<1>7. b.files = [a.files EXCEPT ![n] = stamp + 1]
  <2> HIDE DEF a, k
  <2> QED BY <1>3 DEF Dir
<1>8. b \in Dir
  <2> HIDE DEF a, k
  <2>1. [a.files EXCEPT ![n] = stamp + 1] \in Files /\ a.changed + k \in Nat
    BY <1>1, <1>4 DEF Files
  <2> QED BY <1>3, <2>1 DEF Dir
<1> HIDE DEF b
<1>9. stamp' \in Nat /\ stamp <= stamp' BY <1>1, <1>5
<1>10. ASSUME NEW m \in Name
       PROVE  b.files[m] <= stamp' /\ (b.files[m] = a.files[m] \/ b.files[m] > stamp)
  <2>1. a.files[m] \in Nat /\ a.files[m] <= stamp BY <1>1, <1>2, <1>3, <1>4 DEF Versions, Files
  <2> QED BY <1>1, <1>4, <1>5, <1>7, <2>1 DEF Files
<1>11. FilesEdited(s, a.files, b.files, stamp, stamp') BY <1>10 DEF FilesEdited
<1> QED BY <1>5, <1>6, <1>8, <1>9, <1>11, BoundEdited

LEMMA RemoveFileStep ==
  ASSUME IInv, NEW s \in Local, NEW n \in Name, RemoveFile(s, n)
  PROVE  IInv'
<1> DEFINE i == Len(dirs[s])
           a == Bound(s)
           b == [a EXCEPT !.files[n] = Absent, !.changed = @ + 1]
<1>1. StoreType /\ stamp \in Nat /\ DirsType(dirs) /\ Versions(dirs, stamp)
  BY DEF IInv, StoreType, CapturesInv
<1>2. dirs[s] \in Seq(Dir) /\ i \in 1 .. Len(dirs[s]) BY <1>1 DEF DirsType
<1>3. a \in Dir /\ a = dirs[s][i] BY <1>2 DEF Bound
<1>4. a.files \in Files /\ a.changed \in Nat BY <1>3 DEF Dir
<1>5. /\ dirs' = [dirs EXCEPT ![s][i].files[n] = Absent, ![s][i].changed = @ + 1]
      /\ stamp' = stamp /\ UNCHANGED <<entry, disk, acked, objects, op, cuts>>
      /\ a.files[n] = First[s][n] /\ First[s][n] # Absent
  BY DEF RemoveFile, fileVars
<1>6. dirs' = [dirs EXCEPT ![s] = [dirs[s] EXCEPT ![i] = b]]
  BY <1>1, <1>2, <1>3, <1>5 DEF DirsType
<1>7. b.files = [a.files EXCEPT ![n] = Absent]
  <2> HIDE DEF a
  <2> QED BY <1>3 DEF Dir
<1>8. b \in Dir
  <2> HIDE DEF a
  <2>1. [a.files EXCEPT ![n] = Absent] \in Files /\ a.changed + 1 \in Nat
    BY <1>4 DEF Files, Absent
  <2> QED BY <1>3, <2>1 DEF Dir
<1> HIDE DEF b
<1>9. stamp' \in Nat /\ stamp <= stamp' BY <1>1, <1>5
<1>10. ASSUME NEW m \in Name
       PROVE  /\ b.files[m] <= stamp'
              /\ \/ b.files[m] = a.files[m] \/ b.files[m] > stamp
                 \/ b.files[m] = Absent /\ a.files[m] # Absent /\ a.files[m] = First[s][m]
  <2>1. a.files[m] \in Nat /\ a.files[m] <= stamp BY <1>1, <1>2, <1>3, <1>4 DEF Versions, Files
  <2> QED BY <1>1, <1>4, <1>5, <1>7, <2>1 DEF Files, Absent
<1>11. FilesEdited(s, a.files, b.files, stamp, stamp') BY <1>10 DEF FilesEdited
<1> QED BY <1>5, <1>6, <1>8, <1>9, <1>11, BoundEdited

LEMMA ReplaceDirectoryStep ==
  ASSUME IInv, NEW s \in Local, ReplaceDirectory(s)
  PROVE  IInv'
<1> DEFINE b == [Bound(s) EXCEPT !.changed = 0]
           q == Append(dirs[s], b)
           N == Len(dirs[Root])
<1>1. StoreType /\ stamp \in Nat /\ DirsType(dirs) /\ Versions(dirs, stamp)
  BY DEF IInv, StoreType, CapturesInv
<1>2. DOMAIN dirs = Local /\ \A t \in Local : dirs[t] \in Seq(Dir) /\ Len(dirs[t]) > 0
  BY <1>1 DEF DirsType
<1>3. Bound(s) \in Dir /\ Bound(s) = dirs[s][Len(dirs[s])]
  BY <1>2 DEF Bound
<1>4. b \in Dir /\ b.files = Bound(s).files BY <1>3 DEF Dir
<1>5. /\ dirs' = [dirs EXCEPT ![s] = q]
      /\ UNCHANGED <<objects, op, stamp, cuts>>
      /\ \/ /\ s = Root /\ entry' = Append(entry, EmptyDir) /\ disk' = Append(disk, {EmptyDir})
            /\ acked' = Append(acked, 0)
         \/ s # Root /\ UNCHANGED <<entry, disk, acked>>
  BY DEF ReplaceDirectory, fileVars
<1> HIDE DEF b
<1>6. /\ q \in Seq(Dir) /\ Len(q) = Len(dirs[s]) + 1 /\ q[Len(q)] = b
      /\ \A j \in 1 .. Len(dirs[s]) : q[j] = dirs[s][j]
  BY <1>2, <1>4
<1> HIDE DEF q
<1>7. dirs'[s] = q /\ \A t \in Local : t # s => dirs'[t] = dirs[t] BY <1>2, <1>5
<1>8. DirsType(dirs')
  <2>1. dirs' \in [Local -> Seq(Dir)] BY <1>1, <1>5, <1>6 DEF DirsType
  <2>2. Len(q) > 0 BY <1>2, <1>6
  <2> QED BY <1>2, <1>7, <2>1, <2>2 DEF DirsType
<1>9. Edited(dirs, dirs', stamp)
  <2>1. ASSUME NEW t \in Local
        PROVE  /\ Len(dirs[t]) <= Len(dirs'[t])
               /\ \A j \in 1 .. Len(dirs[t]) : dirs'[t][j] = dirs[t][j]
    BY <1>2, <1>6, <1>7
  <2> QED BY <2>1 DEF Edited
<1>10. Versions(dirs', stamp')
  <2>1. ASSUME NEW t \in Local, NEW j \in 1 .. Len(dirs'[t]), NEW n \in Name
        PROVE  dirs'[t][j].files[n] <= stamp
    <3>1. CASE t # s BY <1>1, <1>7, <3>1 DEF Versions
    <3>2. CASE t = s /\ j # Len(q)
      <4>1. j \in 1 .. Len(dirs[s]) /\ dirs'[t][j] = dirs[s][j] BY <1>2, <1>6, <1>7, <3>2
      <4> QED BY <1>1, <4>1 DEF Versions
    <3>3. CASE t = s /\ j = Len(q)
      <4>1. Len(dirs[s]) \in 1 .. Len(dirs[s]) BY <1>2
      <4>2. dirs'[t][j].files = dirs[s][Len(dirs[s])].files BY <1>3, <1>4, <1>6, <1>7, <3>3
      <4> QED BY <1>1, <4>1, <4>2 DEF Versions
    <3> QED BY <3>1, <3>2, <3>3
  <2> QED BY <1>1, <1>5, <2>1 DEF Versions
<1>11. stamp' \in Nat /\ stamp <= stamp' BY <1>1, <1>5
<1>12. CASE s # Root
  <2>1. UNCHANGED <<entry, disk, acked>> /\ Len(dirs'[Root]) = Len(dirs[Root])
    BY <1>5, <1>7, <1>12, Constants
  <2>2. StoreType' BY <1>1, <1>5, <1>8, <2>1 DEF StoreType
  <2> QED BY <1>5, <1>9, <1>10, <1>11, <2>1, <2>2, SameRoot, UserStep
<1>13. CASE s = Root
  <2>1. /\ entry \in Seq(Entry) /\ Len(entry) = N /\ disk \in Seq(SUBSET Entry) /\ Len(disk) = N
        /\ acked \in Seq(Nat) /\ Len(acked) = N /\ N \in Nat
    BY <1>1, <1>2, Constants DEF StoreType
  <2>2. EmptyDir \in Entry /\ EmptyDir.lock = NoFile /\ EmptyDir.staging = NoFile
    BY NoFileType DEF EmptyDir, Entry
  <2>3. /\ entry' = Append(entry, EmptyDir) /\ disk' = Append(disk, {EmptyDir})
        /\ acked' = Append(acked, 0)
    BY <1>5, <1>13
  <2>4. /\ entry' \in Seq(Entry) /\ Len(entry') = N + 1 /\ entry'[N + 1] = EmptyDir
        /\ \A c \in 1 .. N : entry'[c] = entry[c]
    BY <2>3, <2>1, <2>2
  <2>5. /\ disk' \in Seq(SUBSET Entry) /\ Len(disk') = N + 1 /\ disk'[N + 1] = {EmptyDir}
        /\ \A c \in 1 .. N : disk'[c] = disk[c]
    BY <2>3, <2>1, <2>2
  <2>6. /\ acked' \in Seq(Nat) /\ Len(acked') = N + 1 /\ acked'[N + 1] = 0
        /\ \A c \in 1 .. N : acked'[c] = acked[c]
    BY <2>3, <2>1
  <2>7. Len(dirs'[Root]) = N + 1 BY <1>6, <1>7, <1>13
  <2>8. StoreType' BY <1>1, <1>5, <1>8, <2>4, <2>5, <2>6, <2>7 DEF StoreType
  <2>9. ASSUME NEW c \in 1 .. N PROVE DirInv(c, entry', disk', acked', stamp')
    <3>1. DirInv(c, entry, disk, acked, stamp) BY DEF IInv, PublishInv, DirsInv
    <3>2. acked[c] \in Nat /\ disk[c] \in SUBSET Entry BY <1>1, RootType
    <3> QED BY <1>1, <1>11, <2>4, <2>5, <2>6, <3>1, <3>2, LaterDir
  <2>10. DirInv(N + 1, entry', disk', acked', stamp')
    <3>1. GoodEntry(EmptyDir, 0, stamp) BY <1>1, <2>2, NoFileType DEF GoodEntry, Numbered, Kept
    <3> QED BY <1>1, <1>5, <2>4, <2>5, <2>6, <3>1 DEF DirInv
  <2>11. DirsInv'
    <3> HIDE DEF N
    <3>1. \A c \in 1 .. N + 1 : c \in 1 .. N \/ c = N + 1 BY <2>1
    <3> QED BY <2>7, <2>9, <2>10, <3>1 DEF DirsInv
  <2>12. \A p \in Proc : op[p].pc # "idle" =>
           HeldInv(op[p], entry'[op[p].dir], disk'[op[p].dir], acked'[op[p].dir])
    BY <2>4, <2>5, <2>6, Alone
  <2> QED BY <1>5, <1>9, <1>10, <1>11, <2>8, <2>11, <2>12, UserStep
<1> QED BY <1>12, <1>13

LEMMA EditLockStep ==
  ASSUME IInv, NEW body \in UserLocks \cup {None, Junk}, EditLock(body)
  PROVE  IInv'
<1> DEFINE d == Len(dirs[Root])
           g == [no |-> stamp + 1, by |-> None, base |-> 0, body |-> body, synced |-> FALSE]
           f == IF body = None THEN NoFile ELSE g
           e == [entry[d] EXCEPT !.lock = f]
           K == disk[d] \cup {e}
<1>1. /\ entry' = [entry EXCEPT ![d] = e] /\ disk' = [disk EXCEPT ![d] = K]
      /\ acked' = [acked EXCEPT ![d] = 0] /\ stamp' = stamp + 1
      /\ UNCHANGED <<dirs, objects, op, cuts>>
  BY DEF EditLock, Change, treeVars
<1>2. StoreType /\ stamp \in Nat /\ DirsType(dirs) /\ Versions(dirs, stamp)
  BY DEF IInv, StoreType, CapturesInv
<1>3. stamp' \in Nat /\ stamp <= stamp' BY <1>1, <1>2
<1>4. d \in 1 .. Len(dirs[Root]) BY <1>2, Constants DEF DirsType
<1>5. body \in Body BY DEF Body
<1>6. /\ f \in File /\ f.by = None /\ f.no <= stamp'
      /\ (f.no = 0 => f = NoFile) /\ f.no \in {0, stamp + 1}
  <2>1. g \in File /\ g.by = None /\ g.no = stamp + 1 BY <1>2, <1>5 DEF File
  <2> HIDE DEF g
  <2> QED BY <1>1, <1>2, <2>1, NoFileType
<1> HIDE DEF f
<1>7. e \in Entry /\ e.lock = f /\ e.staging = entry[d].staging
  <2>1. entry[d] \in Entry BY <1>4, EntryNow
  <2> HIDE DEF d
  <2> QED BY <1>6, <2>1, EntryShape
<1> HIDE DEF e
<1>8. disk[d] \in SUBSET Entry BY <1>4, EntryNow
<1>9. K \in SUBSET Entry BY <1>7, <1>8
<1>10. /\ entry \in Seq(Entry) /\ Len(entry) = d /\ disk \in Seq(SUBSET Entry) /\ Len(disk) = d
       /\ acked \in Seq(Nat) /\ Len(acked) = d
  BY <1>2 DEF StoreType
<1> HIDE DEF K
<1>11. /\ entry' \in Seq(Entry) /\ Len(entry') = d /\ entry'[d] = e
       /\ \A c \in 1 .. d : c # d => entry'[c] = entry[c]
  BY <1>1, <1>4, <1>7, <1>10
<1>12. /\ disk' \in Seq(SUBSET Entry) /\ Len(disk') = d /\ disk'[d] = K
       /\ \A c \in 1 .. d : c # d => disk'[c] = disk[c]
  BY <1>1, <1>4, <1>9, <1>10
<1>13. /\ acked' \in Seq(Nat) /\ Len(acked') = d /\ acked'[d] = 0
       /\ \A c \in 1 .. d : c # d => acked'[c] = acked[c]
  BY <1>1, <1>4, <1>10
<1>14. StoreType' BY <1>1, <1>2, <1>3, <1>11, <1>12, <1>13 DEF StoreType
<1>15. Edited(dirs, dirs', stamp) BY <1>1, <1>2, EditedSame
<1>16. Versions(dirs', stamp')
  <2>1. \A s \in Local : \A n \in Name : First[s][n] \in Nat BY Constants DEF Absent
  <2>2. \A s \in Local : \A i \in 1 .. Len(dirs[s]) : dirs[s][i] \in Dir BY <1>2 DEF DirsType
  <2>3. \A s \in Local : \A i \in 1 .. Len(dirs[s]) : \A n \in Name : dirs[s][i].files[n] \in Nat
    BY <2>2 DEF Dir, Files
  <2> QED BY <1>1, <1>2, <1>3, <2>1, <2>3 DEF Versions
<1>17. ASSUME NEW x \in K PROVE GoodEntry(x, 0, stamp')
  <2>1. GoodEntry(entry[d], acked[d], stamp) /\ \A y \in disk[d] : GoodEntry(y, acked[d], stamp)
    <3>1. DirInv(d, entry, disk, acked, stamp) BY <1>4 DEF IInv, PublishInv, DirsInv
    <3> QED BY <3>1 DEF DirInv
  <2>2. CASE x = e BY <1>6, <1>7, <2>1, <2>2 DEF GoodEntry, Numbered, Kept
  <2>3. CASE x \in disk[d]
    <3>1. x.lock.no \in Nat BY <1>8, <2>3 DEF Entry, File
    <3> QED BY <1>2, <1>3, <2>1, <2>3, <3>1 DEF GoodEntry, Numbered, Kept
  <2> QED BY <2>2, <2>3 DEF K
<1>18. DirsInv'
  <2> SUFFICES ASSUME NEW c \in 1 .. Len(dirs[Root]) PROVE DirInv(c, entry', disk', acked', stamp')
    BY <1>1 DEF DirsInv
  <2>1. CASE c = d
    <3>1. e \in K BY DEF K
    <3> QED BY <2>1, <1>3, <1>11, <1>12, <1>13, <1>17, <3>1 DEF DirInv
  <2>2. CASE c # d
    <3>1. DirInv(c, entry, disk, acked, stamp) BY DEF IInv, PublishInv, DirsInv
    <3>2. acked[c] \in Nat /\ disk[c] \in SUBSET Entry BY <1>2, RootType
    <3> QED BY <2>2, <1>2, <1>3, <1>11, <1>12, <1>13, <3>1, <3>2, LaterDir
  <2> QED BY <2>1, <2>2
<1>19. ASSUME NEW p \in Proc, op[p].pc # "idle"
       PROVE  HeldInv(op[p], entry'[op[p].dir], disk'[op[p].dir], acked'[op[p].dir])
  <2>1. op[p].dir \in 1 .. d /\ HeldInv(op[p], entry[op[p].dir], disk[op[p].dir], acked[op[p].dir])
    BY <1>19, Alone
  <2>2. CASE op[p].dir # d BY <2>1, <2>2, <1>11, <1>12, <1>13
  <2>3. CASE op[p].dir = d
    <3>1. FileInv(op[p], p, stamp) /\ OpType(op[p]) BY Parts
    <3>2. op[p].old.no \in Nat /\ op[p].old.no <= stamp /\ (op[p].pc = "kept" => op[p].old # NoFile)
      BY <1>19, <3>1 DEF FileInv, Numbered, OpType, File, Readable
    <3>3. op[p].pc \in Written => op[p].file.no \in 1 .. stamp BY <3>1 DEF FileInv
    <3>4. op[p].pc = "kept" => f # op[p].old BY <1>2, <1>6, <3>2
    <3>5. op[p].pc \in Written => f.no # op[p].file.no /\ 0 <= op[p].file.no BY <1>2, <1>6, <3>3
    <3>6. op[p].pc = "verify" => op[p].pc \in Written BY DEF Written
    <3>7. HeldInv(op[p], entry[d], disk[d], acked[d]) BY <2>1, <2>3
    <3>8. HeldInv(op[p], e, K, 0) BY <1>6, <1>7, <3>4, <3>5, <3>6, <3>7 DEF HeldInv
    <3> QED BY <2>3, <3>8, <1>11, <1>12, <1>13
  <2> QED BY <2>2, <2>3
<1> QED BY <1>1, <1>3, <1>14, <1>15, <1>16, <1>18, <1>19, UserStep

-----------------------------------------------------------------------------
\* A loss of power, and the beginning.

\* Every process is idle, every directory is as it was found.
LEMMA QuietStore ==
  ASSUME StoreType', CapturesInv', \A p \in Proc : op'[p] = Idle, DOMAIN op' = Proc, DirsInv'
  PROVE  IInv'
<1>1. Idle.pc = "idle" BY IdleShape
<1>2. OpsType' BY IdleType DEF OpsType
<1>3. stamp' \in Nat BY DEF StoreType
<1>4. \A p \in Proc : FileInv(op'[p], p, stamp') BY <1>3, IdleFile
<1>5. Exclusive' BY <1>1 DEF Exclusive
<1> QED BY <1>1, <1>2, <1>4, <1>5 DEF IInv, PublishInv

\* What may be left of a file that could be relied on.
LEMMA SurvivesSynced ==
  ASSUME NEW f, NEW g \in Survives(f), f.synced = TRUE
  PROVE  g = f
BY DEF Survives

LEMMA SurvivesType ==
  ASSUME NEW f \in File, NEW g \in Survives(f), NEW st, Numbered(f, st)
  PROVE  g \in File /\ Numbered(g, st)
<1>1. CASE g = f BY <1>1
<1>2. CASE g # f
  <2>1. f.synced # TRUE /\ g = [f EXCEPT !.body = Junk, !.synced = TRUE] BY <1>2 DEF Survives
  <2>2. Junk \in Body BY DEF Body
  <2>3. g \in File /\ g.no = f.no BY <2>1, <2>2 DEF File
  <2>4. f # NoFile BY <2>1, NoFileType
  <2> QED BY <2>3, <2>4 DEF Numbered
<1> QED BY <1>1, <1>2

LEMMA PowerCutStep ==
  ASSUME IInv, PowerCut
  PROVE  IInv'
<1> DEFINE N == Len(dirs[Root])
<1>1. StoreType /\ CapturesInv BY DEF IInv
<1>2. disk \in Seq(SUBSET Entry) /\ Len(disk) = N /\ N \in Nat /\ N > 0 /\ DOMAIN disk = 1 .. N
  <2>1. dirs[Root] \in Seq(Dir) /\ Len(dirs[Root]) > 0 BY <1>1, Constants DEF StoreType, DirsType
  <2> QED BY <1>1, <2>1 DEF StoreType
<1>3. /\ op' = [p \in Proc |-> Idle] /\ UNCHANGED <<dirs, objects, acked, stamp>>
      /\ cuts' = cuts - 1 /\ cuts > 0
  BY DEF PowerCut, treeVars
<1>4. PICK left \in {f \in [DOMAIN disk -> UNION {disk[d] : d \in DOMAIN disk}] :
                       \A d \in DOMAIN disk : f[d] \in disk[d]} :
        \E lock \in Survives(left[Len(left)].lock),
           staging \in Survives(left[Len(left)].staging) :
          LET e == [left EXCEPT ![Len(left)] = [lock |-> lock, staging |-> staging]]
          IN entry' = e /\ disk' = [d \in DOMAIN disk |-> {e[d]}]
  BY DEF PowerCut
<1>5. PICK lock \in Survives(left[Len(left)].lock), staging \in Survives(left[Len(left)].staging) :
        LET e == [left EXCEPT ![Len(left)] = [lock |-> lock, staging |-> staging]]
        IN entry' = e /\ disk' = [d \in DOMAIN disk |-> {e[d]}]
  BY <1>4
<1>6. DOMAIN left = 1 .. N /\ \A d \in 1 .. N : left[d] \in disk[d] /\ disk[d] \in SUBSET Entry
  <2>1. DOMAIN left = DOMAIN disk /\ \A d \in DOMAIN disk : left[d] \in disk[d] BY <1>4
  <2>2. \A d \in 1 .. N : disk[d] \in SUBSET Entry BY <1>1, RootType
  <2> QED BY <1>2, <2>1, <2>2
<1>7. left \in [1 .. N -> Entry] BY <1>2, <1>4, <1>6
<1> HIDE DEF N
<1>8. left \in Seq(Entry) /\ Len(left) = N BY <1>2, <1>7
<1> DEFINE z == [lock |-> lock, staging |-> staging]
           e == [left EXCEPT ![N] = z]
<1>9. entry' = e /\ disk' = [d \in 1 .. N |-> {e[d]}] BY <1>2, <1>5, <1>8
<1>10. N \in 1 .. N BY <1>2
<1>11. left[N] \in Entry /\ left[N].lock \in File /\ left[N].staging \in File
  BY <1>7, <1>10 DEF Entry
<1>12. \A d \in 1 .. N : DirInv(d, entry, disk, acked, stamp) BY DEF N, IInv, PublishInv, DirsInv
<1>13. \A d \in 1 .. N : GoodEntry(left[d], acked[d], stamp) BY <1>6, <1>12 DEF DirInv
<1>14. lock \in File /\ Numbered(lock, stamp) /\ staging = left[N].staging
  <2>1. lock \in Survives(left[N].lock) /\ staging \in Survives(left[N].staging) BY <1>5, <1>8
  <2>2. Numbered(left[N].lock, stamp) /\ left[N].staging.synced = TRUE BY <1>10, <1>13 DEF GoodEntry
  <2> QED BY <1>11, <2>1, <2>2, SurvivesType, SurvivesSynced
<1>15. acked[N] # 0 => lock = left[N].lock
  <2>1. lock \in Survives(left[N].lock) BY <1>5, <1>8
  <2>2. acked[N] # 0 => left[N].lock.synced = TRUE BY <1>10, <1>13 DEF GoodEntry, Kept
  <2> QED BY <2>1, <2>2, SurvivesSynced
<1>16. z \in Entry /\ z.lock = lock /\ z.staging = staging BY <1>11, <1>14 DEF Entry
<1> HIDE DEF z
<1>17. GoodEntry(z, acked[N], stamp)
  BY <1>10, <1>13, <1>14, <1>15, <1>16 DEF GoodEntry, Kept
<1>18. /\ e \in [1 .. N -> Entry] /\ e[N] = z /\ \A d \in 1 .. N : d # N => e[d] = left[d]
  BY <1>7, <1>10, <1>16
<1> HIDE DEF e
<1>19. entry' \in Seq(Entry) /\ Len(entry') = N /\ \A d \in 1 .. N : entry'[d] = e[d]
  BY <1>2, <1>9, <1>18
<1>20. disk' \in Seq(SUBSET Entry) /\ Len(disk') = N /\ \A d \in 1 .. N : disk'[d] = {e[d]}
  <2>1. [d \in 1 .. N |-> {e[d]}] \in [1 .. N -> SUBSET Entry] BY <1>18
  <2>2. disk' \in [1 .. N -> SUBSET Entry] /\ \A d \in 1 .. N : disk'[d] = {e[d]} BY <1>9, <2>1
  <2>3. disk' \in Seq(SUBSET Entry) /\ DOMAIN disk' = 1 .. N BY <1>2, <2>2
  <2> QED BY <1>2, <2>2, <2>3
<1>21. cuts' \in Nat BY <1>1, <1>3 DEF StoreType
<1>22. StoreType' BY <1>1, <1>3, <1>19, <1>20, <1>21 DEF N, StoreType
<1>23. DirsInv'
  <2> SUFFICES ASSUME NEW d \in 1 .. N PROVE DirInv(d, entry', disk', acked', stamp')
    BY <1>3 DEF N, DirsInv
  <2>1. GoodEntry(e[d], acked[d], stamp)
    <3>1. CASE d = N BY <3>1, <1>17, <1>18
    <3>2. CASE d # N BY <3>2, <1>13, <1>18
    <3> QED BY <3>1, <3>2
  <2>2. acked[d] <= stamp BY <1>12 DEF DirInv
  <2> QED BY <1>3, <1>19, <1>20, <2>1, <2>2 DEF DirInv
<1>24. CapturesInv'
  <2>1. Versions(dirs', stamp') BY <1>1, <1>3 DEF CapturesInv
  <2>2. \A p \in Proc : Captures(op'[p], dirs', stamp') BY <1>3, IdleCaptures
  <2> QED BY <2>1, <2>2 DEF CapturesInv
<1> QED BY <1>3, <1>22, <1>23, <1>24, QuietStore

LEMMA InitInv == Init => IInv
<1> SUFFICES ASSUME Init PROVE IInv OBVIOUS
<1>1. PICK f \in Faults : cuts = f.cuts BY DEF Init
<1>2. cuts \in Nat BY <1>1, PackLockConstants
<1>3. \A s \in Local : /\ First[s] \in Files
                       /\ \A n \in Name : First[s][n] \in Nat /\ First[s][n] <= 1
  BY Constants DEF Files, Absent
<1>4. dirs = [s \in Local |-> <<[files |-> First[s], changed |-> 0]>>] BY DEF Init
<1>5. \A s \in Local : [files |-> First[s], changed |-> 0] \in Dir BY <1>3 DEF Dir
<1>6. \A s \in Local : /\ dirs[s] = <<[files |-> First[s], changed |-> 0]>>
                       /\ dirs[s] \in Seq(Dir) /\ Len(dirs[s]) = 1 /\ dirs[s][1].files = First[s]
  BY <1>4, <1>5
<1>7. DirsType(dirs) BY <1>4, <1>6 DEF DirsType
<1>8. EmptyDir \in Entry /\ EmptyDir.lock = NoFile /\ EmptyDir.staging = NoFile
  BY NoFileType DEF EmptyDir, Entry
<1>9. entry = <<EmptyDir>> /\ disk = <<{EmptyDir}>> /\ acked = <<0>> /\ objects = {} /\ stamp = 1
  BY DEF Init
<1>10. /\ entry \in Seq(Entry) /\ Len(entry) = 1 /\ entry[1] = EmptyDir
       /\ disk \in Seq(SUBSET Entry) /\ Len(disk) = 1 /\ disk[1] = {EmptyDir}
       /\ acked \in Seq(Nat) /\ Len(acked) = 1 /\ acked[1] = 0
  BY <1>8, <1>9
<1>11. Len(dirs[Root]) = 1 BY <1>6, Constants
<1>12. StoreType BY <1>2, <1>7, <1>9, <1>10, <1>11 DEF StoreType
<1>13. DOMAIN op = Proc /\ \A p \in Proc : op[p] = Idle BY DEF Init
<1>14. OpsType BY <1>13, IdleType DEF OpsType
<1>15. CapturesInv
  <2>1. ASSUME NEW s \in Local, NEW i \in 1 .. Len(dirs[s]), NEW n \in Name
        PROVE  dirs[s][i].files[n] <= stamp
    <3>1. Len(dirs[s]) = 1 /\ dirs[s][1].files = First[s] BY <1>6
    <3>2. i = 1 BY <3>1
    <3> QED BY <1>3, <1>9, <3>1, <3>2
  <2>2. Versions(dirs, stamp) BY <1>3, <1>9, <2>1 DEF Versions
  <2> QED BY <1>13, <2>2, IdleCaptures DEF CapturesInv
<1>16. DirsInv
  <2>1. GoodEntry(EmptyDir, 0, 1) BY <1>8, NoFileType DEF GoodEntry, Numbered, Kept
  <2>2. DirInv(1, entry, disk, acked, stamp) BY <1>9, <1>10, <2>1 DEF DirInv
  <2> QED BY <1>11, <2>2 DEF DirsInv
<1>17. PublishInv
  <2>1. Idle.pc = "idle" BY IdleShape
  <2> QED BY <1>9, <1>13, <1>16, <2>1, IdleFile DEF PublishInv, Exclusive
<1> QED BY <1>12, <1>14, <1>15, <1>17 DEF IInv

-----------------------------------------------------------------------------
\* Every step.

LEMMA StepPreserves ==
  ASSUME IInv, NEW p \in Proc, Step(p)
  PROVE  IInv'
<1>1. CASE \E kind \in {"create", "update"}, input \in Inputs : Begin(p, kind, input)
  BY <1>1, BeginStep
<1>2. CASE CaptureOpen(p) BY <1>2, CaptureOpenStep
<1>3. CASE CaptureFile(p) BY <1>3, CaptureFileStep
<1>4. CASE CaptureRejected(p) BY <1>4, CaptureRejectedStep
<1>5. CASE Discovered(p) BY <1>5, DiscoveredStep
<1>6. CASE NextSource(p) BY <1>6, NextSourceStep
<1>7. CASE KnownEdge(p) BY <1>7, KnownEdgeStep
<1>8. CASE LocalEdge(p) BY <1>8, LocalEdgeStep
<1>9. CASE GitEdge(p) BY <1>9, GitEdgeStep
<1>10. CASE GraphResolved(p) BY <1>10, GraphResolvedStep
<1>11. CASE Revalidated(p) BY <1>11, RevalidatedStep
<1>12. CASE Assemble(p) BY <1>12, AssembleStep
<1>13. CASE SyncUnchanged(p) BY <1>13, SyncUnchangedStep
<1>14. CASE AckUnchanged(p) BY <1>14, AckUnchangedStep
<1>15. CASE WriteTemporary(p) BY <1>15, WriteTemporaryStep
<1>16. CASE LinkCreated(p) BY <1>16, LinkCreatedStep
<1>17. CASE LinkStaging(p) BY <1>17, LinkStagingStep
<1>18. CASE RecheckOld(p) BY <1>18, RecheckOldStep
<1>19. CASE RenameStaging(p) BY <1>19, RenameStagingStep
<1>20. CASE SyncPublished(p) BY <1>20, SyncPublishedStep
<1>21. CASE VerifyPublished(p) BY <1>21, VerifyPublishedStep
<1> QED BY <1>1, <1>2, <1>3, <1>4, <1>5, <1>6, <1>7, <1>8, <1>9, <1>10, <1>11, <1>12, <1>13,
           <1>14, <1>15, <1>16, <1>17, <1>18, <1>19, <1>20, <1>21 DEF Step

LEMMA DieStep ==
  ASSUME IInv, NEW p \in Proc, Die(p)
  PROVE  IInv'
<1>1. /\ op[p].pc # "idle" /\ Fail(p)
      /\ dirs' = dirs /\ objects' = objects /\ entry' = entry /\ disk' = disk /\ acked' = acked
      /\ stamp' = stamp /\ cuts' = cuts
  BY DEF Die, treeVars, fileVars
<1> QED BY <1>1, Parts, FailStep

LEMMA NextInv == IInv /\ [Next]_vars => IInv'
<1> SUFFICES ASSUME IInv, [Next]_vars PROVE IInv' OBVIOUS
<1>1. CASE \E p \in Proc : Step(p) BY <1>1, StepPreserves
<1>2. CASE \E p \in Proc : Die(p) BY <1>2, DieStep
<1>3. CASE \E s \in Local, n \in Name : EditFile(s, n) BY <1>3, EditFileStep
<1>4. CASE \E s \in Local, n \in Name : RemoveFile(s, n) BY <1>4, RemoveFileStep
<1>5. CASE \E s \in Local : ReplaceDirectory(s) BY <1>5, ReplaceDirectoryStep
<1>6. CASE \E body \in UserLocks \cup {None, Junk} : EditLock(body) BY <1>6, EditLockStep
<1>7. CASE PowerCut BY <1>7, PowerCutStep
<1>8. CASE UNCHANGED vars
  BY <1>8 DEF vars, IInv, StoreType, OpsType, CapturesInv, PublishInv, Exclusive, DirsInv
<1> QED BY <1>1, <1>2, <1>3, <1>4, <1>5, <1>6, <1>7, <1>8 DEF Next, Environment

-----------------------------------------------------------------------------
\* What follows.

LEMMA InvLocks == IInv => LocksReliable
<1> SUFFICES ASSUME IInv PROVE LocksReliable OBVIOUS
<1>1. StoreType /\ OpsType /\ CapturesInv /\ PublishInv BY DEF IInv
<1>2. LockIsSnapshot
  <2> SUFFICES ASSUME NEW p \in Proc, op[p].file # NoFile, NEW n \in op[p].file.body.nodes,
                      n.src \in Local
               PROVE  SnapshotOf(op[p], n.src, n.digest)
    BY DEF LockIsSnapshot
  <2> DEFINE o == op[p]
             s == n.src
  <2>1. FileInv(o, p, stamp) /\ Captures(o, dirs, stamp) BY Parts
  <2>2. o.pc \in Written /\ o.file.body = LockOf(o) BY <2>1 DEF FileInv
  <2>3. n.digest = o.got[s] /\ o.got[s] # None
    <3>1. PICK t \in Found(o) : n = LockedPack(t, o.got) BY <2>2 DEF LockOf
    <3> QED BY <3>1 DEF LockedPack, Found
  <2>4. s \in Taken(o) BY <2>3 DEF Taken
  <2>5. Snapped(o) /\ o.todo = {}
    <3>1. o.pc \in Late /\ o.pc \notin {"open", "walk"} BY <2>2 DEF Written, Late
    <3> QED BY <2>1, <3>1 DEF Captures, Control, Snapped
  <2>6. IsSnapshot(o, dirs, s) BY <2>1, <2>4, <2>5 DEF Captures, Settled
  <2>7. o.got[s].src = s BY <2>1, <2>4 DEF Captures, FirstCaptures
  <2> QED BY <2>3, <2>6, <2>7 DEF SnapshotOf, IsSnapshot, Cur
<1>3. CutsAreHarmless
  <2> SUFFICES ASSUME NEW d \in DOMAIN disk, NEW e \in disk[d]
               PROVE  /\ acked[d] # 0 => e.lock.no >= acked[d] /\ e.lock.synced /\ Decodes(e.lock)
                      /\ e.staging.synced /\ Decodes(e.staging)
    BY DEF CutsAreHarmless
  <2>1. d \in 1 .. Len(dirs[Root]) BY <1>1 DEF StoreType
  <2>2. GoodEntry(e, acked[d], stamp) BY <1>1, <2>1 DEF PublishInv, DirsInv, DirInv
  <2> QED BY <2>2 DEF GoodEntry, Kept
<1> QED BY <1>2, <1>3 DEF LocksReliable

\* Whatever processes, edits, deaths and losses of power there are, and
\* whatever the manifests say: a lock that malm publishes describes one state
\* of its local packs, and a loss of power brings back the acknowledged lock
\* or a later one, never a staging file that the next operation would refuse
\* (validate_local_snapshots, verify_published, cleanup_staging).
THEOREM LocksSafe == Spec => []LocksReliable
<1>1. Init => IInv BY InitInv
<1>2. IInv /\ [Next]_vars => IInv' BY NextInv
<1>3. IInv => LocksReliable BY InvLocks
<1> QED BY <1>1, <1>2, <1>3, PTL DEF Spec

\* What one step does to a lock file that changes hands.
Handed(d) ==
  LET old == entry[d].lock
      new == entry'[d].lock
  IN old # new /\ old.no # new.no /\ new.by # None /\ cuts' = cuts
       => /\ op[new.by].file = new /\ op'[new.by].pc = "sync"
          /\ old.by # None => new.base = old.no

LEMMA HandedSame ==
  ASSUME NEW d, entry'[d].lock = entry[d].lock
  PROVE  Handed(d)
BY DEF Handed

\* linkat and renameat: the lock of directory op[p].dir is now the file of p.
LEMMA HandedByWriter ==
  ASSUME IInv, NEW p \in Proc, NEW d \in DOMAIN entry, NEW e \in Entry,
         entry' = [entry EXCEPT ![op[p].dir] = e],
         e.lock = op[p].file, op[p].pc \in Written, op' = [op EXCEPT ![p].pc = "sync"],
         entry[op[p].dir].lock.by # None => entry[op[p].dir].lock.no = op[p].old.no
  PROVE  Handed(d)
<1> DEFINE o == op[p]
<1>1. /\ o.file.by = p /\ o.file.base = o.old.no BY WrittenFile
<1>2. o.dir \in DOMAIN entry
  <2>1. StoreType /\ o.dir \in 1 .. Len(dirs[Root]) BY WrittenFile DEF IInv
  <2> QED BY <2>1 DEF StoreType
<1>3. CASE d # o.dir
  <2>1. entry'[d] = entry[d] BY <1>2, <1>3
  <2> QED BY <2>1, HandedSame
<1>4. CASE d = o.dir
  <2>1. entry'[d].lock = o.file BY <1>2, <1>4
  <2>2. op'[p].pc = "sync"
    <3>1. DOMAIN op = Proc /\ DOMAIN o = DOMAIN Idle BY Parts DEF OpsType, OpType
    <3> QED BY <3>1, IdleShape
  <2> QED BY <1>1, <1>4, <2>1, <2>2 DEF Handed
<1> QED BY <1>3, <1>4

\* cleanup_staging and the fsync of an unchanged lock leave its number alone.
LEMMA HandedKept ==
  ASSUME NEW d \in DOMAIN entry, NEW c, NEW e, entry' = [entry EXCEPT ![c] = e],
         e.lock.no = entry[c].lock.no
  PROVE  Handed(d)
<1>1. CASE d = c BY <1>1 DEF Handed
<1>2. CASE d # c
  <2>1. entry'[d] = entry[d] BY <1>2
  <2> QED BY <2>1, HandedSame
<1> QED BY <1>1, <1>2

LEMMA HandedStep ==
  ASSUME IInv, NEW p \in Proc, Step(p), NEW d \in DOMAIN entry
  PROVE  Handed(d)
<1> DEFINE o == op[p]
           b == o.dir
<1>1. StoreType /\ OpType(o) /\ FileInv(o, p, stamp) BY Parts
<1>2. CASE entry' = entry BY <1>2, HandedSame
<1>3. ASSUME NEW c \in 1 .. Len(dirs[Root]), CleanupStaging(c) PROVE Handed(d)
  <2>1. CASE entry' = entry BY <2>1, HandedSame
  <2>2. CASE entry' = [entry EXCEPT ![c] = [entry[c] EXCEPT !.staging = NoFile]]
    <3> DEFINE e == [entry[c] EXCEPT !.staging = NoFile]
    <3>1. e = [entry[c] EXCEPT !.staging = NoFile] /\ entry' = [entry EXCEPT ![c] = e] BY <2>2
    <3> HIDE DEF e
    <3>2. e.lock = entry[c].lock BY <3>1, CleanedEntry
    <3> QED BY <3>1, <3>2, HandedKept
  <2> QED BY <1>3, <2>1, <2>2 DEF CleanupStaging, Sync
<1>4. CASE \E kind \in {"create", "update"}, input \in Inputs : Begin(p, kind, input)
  <2>1. CleanupStaging(Len(dirs[Root])) BY <1>4 DEF Begin, OpenPin
  <2>2. Len(dirs[Root]) \in 1 .. Len(dirs[Root]) BY <1>1, Constants DEF StoreType, DirsType
  <2> QED BY <1>3, <2>1, <2>2
<1>5. CASE SyncUnchanged(p)
  <2> DEFINE kept == [o.old EXCEPT !.synced = TRUE]
             e == [entry[b] EXCEPT !.lock = kept]
  <2>1. entry' = entry \/ (OldBound(o) /\ entry' = [entry EXCEPT ![b] = e])
    BY <1>5 DEF SyncUnchanged, Sync
  <2>2. CASE OldBound(o) /\ entry' = [entry EXCEPT ![b] = e]
    <3>1. b \in 1 .. Len(dirs[Root]) BY <1>5, Alone DEF SyncUnchanged
    <3>2. entry[b] \in Entry BY <3>1, EntryNow
    <3>3. o.old \in File BY <1>1 DEF OpType
    <3>4. kept \in File /\ kept.no = o.old.no BY <3>3 DEF File
    <3> HIDE DEF kept
    <3>5. e.lock.no = entry[b].lock.no
      <4>1. e.lock = kept BY <3>2 DEF Entry
      <4> QED BY <2>2, <3>4, <4>1 DEF OldBound
    <3> HIDE DEF e
    <3> QED BY <2>2, <3>5, HandedKept
  <2> QED BY <1>2, <2>1, <2>2
<1>6. CASE LinkCreated(p)
  <2> DEFINE e == [entry[b] EXCEPT !.lock = o.file]
  <2>1. o.pc = "link" BY <1>6 DEF LinkCreated
  <2>2. \/ entry' = entry
        \/ /\ entry[b].lock = NoFile /\ entry' = [entry EXCEPT ![b] = e]
           /\ op' = [op EXCEPT ![p] = [o EXCEPT !.pc = "sync"]]
    BY <1>6 DEF LinkCreated, Change, Become
  <2>3. CASE /\ entry[b].lock = NoFile /\ entry' = [entry EXCEPT ![b] = e]
             /\ op' = [op EXCEPT ![p] = [o EXCEPT !.pc = "sync"]]
    <3>1. o.pc \in Written /\ b \in 1 .. Len(dirs[Root]) BY <2>1, Alone DEF Written
    <3>2. entry[b] \in Entry /\ o.file \in File BY <3>1, EntryNow, WrittenFile
    <3>3. e \in Entry /\ e.lock = o.file BY <3>2 DEF Entry
    <3>4. entry[b].lock.by = None BY <2>3, NoFileType
    <3>5. op' = [op EXCEPT ![p].pc = "sync"] BY <2>3
    <3> HIDE DEF e
    <3> QED BY <2>3, <3>1, <3>3, <3>4, <3>5, HandedByWriter
  <2> QED BY <1>2, <2>2, <2>3
<1>7. CASE LinkStaging(p)
  <2> DEFINE e == [entry[b] EXCEPT !.staging = o.file]
  <2>1. o.pc = "stage" /\ (entry' = entry \/ entry' = [entry EXCEPT ![b] = e])
    BY <1>7 DEF LinkStaging, Change
  <2>2. CASE entry' = [entry EXCEPT ![b] = e]
    <3>1. b \in 1 .. Len(dirs[Root]) BY <2>1, Alone
    <3>2. entry[b] \in Entry BY <3>1, EntryNow
    <3>3. e.lock = entry[b].lock BY <3>2 DEF Entry
    <3> HIDE DEF e
    <3> QED BY <2>2, <3>3, HandedKept
  <2> QED BY <1>2, <2>1, <2>2
<1>8. CASE RecheckOld(p)
  <2>1. entry' = entry \/ CleanupStaging(b) BY <1>8 DEF RecheckOld
  <2>2. b \in 1 .. Len(dirs[Root]) BY <1>8, Alone DEF RecheckOld
  <2> QED BY <1>2, <1>3, <2>1, <2>2
<1>9. CASE RenameStaging(p)
  <2> DEFINE e == [lock |-> entry[b].staging, staging |-> NoFile]
  <2>1. o.pc = "swap" BY <1>9 DEF RenameStaging
  <2>2. \/ entry' = entry
        \/ /\ entry' = [entry EXCEPT ![b] = e]
           /\ op' = [op EXCEPT ![p] = [o EXCEPT !.pc = "sync"]]
    BY <1>9 DEF RenameStaging, Change, Become
  <2>3. CASE /\ entry' = [entry EXCEPT ![b] = e]
             /\ op' = [op EXCEPT ![p] = [o EXCEPT !.pc = "sync"]]
    <3>1. o.pc \in Written BY <2>1 DEF Written
    <3>2. HeldInv(o, entry[b], disk[b], acked[b]) BY <2>1, Alone
    <3>3. entry[b].staging = o.file /\ (entry[b].lock.by # None => entry[b].lock.no = o.old.no)
      BY <2>1, <3>2 DEF HeldInv
    <3>4. e \in Entry /\ e.lock = o.file BY <3>1, <3>3, WrittenFile, NoFileType DEF Entry
    <3>5. op' = [op EXCEPT ![p].pc = "sync"] BY <2>3
    <3> HIDE DEF e
    <3> QED BY <2>3, <3>1, <3>3, <3>4, <3>5, HandedByWriter
  <2> QED BY <1>2, <2>2, <2>3
<1>10. CASE SyncPublished(p)
  <2>1. entry' = entry \/ entry' = [entry EXCEPT ![b] = entry[b]]
    BY <1>10 DEF SyncPublished, Sync
  <2> QED BY <1>2, <2>1, HandedKept
<1>11. CASE \/ CaptureOpen(p) \/ CaptureFile(p) \/ CaptureRejected(p) \/ Discovered(p)
            \/ NextSource(p) \/ KnownEdge(p) \/ LocalEdge(p) \/ GitEdge(p) \/ GraphResolved(p)
            \/ Revalidated(p) \/ Assemble(p) \/ AckUnchanged(p) \/ WriteTemporary(p)
            \/ VerifyPublished(p)
  <2>1. entry' = entry
    BY <1>11 DEF CaptureOpen, CaptureFile, CaptureRejected, Discovered, NextSource, KnownEdge,
      LocalEdge, GitEdge, GraphResolved, Revalidated, Assemble, AckUnchanged, WriteTemporary,
      VerifyPublished, fileVars
  <2> QED BY <1>2, <2>1
<1> QED BY <1>4, <1>5, <1>6, <1>7, <1>8, <1>9, <1>10, <1>11 DEF Step

LEMMA HandedNext ==
  ASSUME IInv, [Next]_vars, NEW d \in DOMAIN entry
  PROVE  Handed(d)
<1>1. CASE \E p \in Proc : Step(p) BY <1>1, HandedStep
<1>2. CASE \/ \E p \in Proc : Die(p)
           \/ \E s \in Local, n \in Name : EditFile(s, n) \/ RemoveFile(s, n)
           \/ UNCHANGED vars
  <2>1. entry' = entry BY <1>2 DEF Die, EditFile, RemoveFile, fileVars, vars
  <2> QED BY <2>1, HandedSame
<1>3. CASE \E s \in Local : ReplaceDirectory(s)
  <2>1. entry' = entry \/ entry' = Append(entry, EmptyDir) BY <1>3 DEF ReplaceDirectory, fileVars
  <2>2. entry \in Seq(Entry) BY DEF IInv, StoreType
  <2>3. EmptyDir \in Entry BY NoFileType DEF EmptyDir, Entry
  <2>4. entry'[d] = entry[d] BY <2>1, <2>2, <2>3
  <2> QED BY <2>4, HandedSame
<1>4. CASE \E body \in UserLocks \cup {None, Junk} : EditLock(body)
  <2> DEFINE c == Len(dirs[Root])
  <2>1. PICK f : /\ f.by = None
                 /\ entry' = [entry EXCEPT ![c] = [entry[c] EXCEPT !.lock = f]]
    <3>1. PICK body \in UserLocks \cup {None, Junk} : EditLock(body) BY <1>4
    <3> DEFINE g == [no |-> stamp + 1, by |-> None, base |-> 0, body |-> body, synced |-> FALSE]
               f == IF body = None THEN NoFile ELSE g
    <3>2. f.by = None BY NoFileType
    <3>3. entry' = [entry EXCEPT ![c] = [entry[c] EXCEPT !.lock = f]]
      BY <3>1 DEF EditLock, Change
    <3> HIDE DEF f
    <3> QED BY <3>2, <3>3
  <2>2. CASE d # c
    <3>1. entry'[d] = entry[d] BY <2>1, <2>2
    <3> QED BY <3>1, HandedSame
  <2>3. CASE d = c
    <3>1. entry[d] \in Entry
      <4>1. entry \in Seq(Entry) BY DEF IInv, StoreType
      <4> QED BY <4>1
    <3>2. [entry[d] EXCEPT !.lock = f].lock = f BY <3>1 DEF Entry
    <3>3. entry'[d].lock = f BY <2>1, <2>3, <3>2
    <3> QED BY <2>1, <3>3 DEF Handed
  <2> QED BY <2>2, <2>3
<1>5. CASE PowerCut
  <2>1. cuts \in Nat /\ cuts' = cuts - 1 BY <1>5 DEF PowerCut, IInv, StoreType
  <2>2. cuts' # cuts BY <2>1
  <2> QED BY <2>2 DEF Handed
<1> QED BY <1>1, <1>2, <1>3, <1>4, <1>5 DEF Next, Environment

\* malm.lock becomes a lock that malm wrote only at the hands of the operation
\* that wrote it, and in the place of the lock that operation started from: of
\* any number of processes, none publishes another's file and none loses
\* another's update (the flock, the staging name, revalidate_existing).
THEOREM PublicationSafe == Spec => PublishedByItsWriter
<1> DEFINE A == \A d \in DOMAIN entry :
                  LET old == entry[d].lock
                      new == entry'[d].lock
                  IN old # new /\ old.no # new.no /\ new.by # None /\ cuts' = cuts
                       => /\ op[new.by].file = new /\ op'[new.by].pc = "sync"
                          /\ old.by # None => new.base = old.no
<1>1. Init => IInv BY InitInv
<1>2. IInv /\ [Next]_vars => IInv' BY NextInv
<1>3. IInv /\ [Next]_vars => A BY HandedNext DEF Handed
<1>4. IInv /\ [Next]_vars => [A]_vars BY <1>3
<1>5. PublishedByItsWriter <=> [][A]_vars BY DEF PublishedByItsWriter
<1> QED BY <1>1, <1>2, <1>4, <1>5, PTL DEF Spec
=============================================================================
