------------------------- MODULE TrackedRootProofs -------------------------
(***************************************************************************)
(* Proofs about tracked deployments and the Git children they run, for any *)
(* number of processes, any branch, locks and limits, and children that    *)
(* follow any script.                                                      *)
(*                                                                         *)
(* The first part is about one subprocess. Good is kept by every step of   *)
(* the child, its helper, the threads and the calling thread: a budget     *)
(* that was exceeded is on record before anybody can miss it (Metered),    *)
(* and the group is dead before the threads are joined (Dead). The second  *)
(* part is about one call of prepare or update. Sound says which head and  *)
(* grants it is based on and what it has seen; it survives whatever the    *)
(* other processes do because the history only grows (Later). The third    *)
(* puts the processes together.                                            *)
(***************************************************************************)
EXTENDS TrackedRoot, NatLemmas

-----------------------------------------------------------------------------
\* Git subprocesses

\* Where the calling thread is.
GitPcs == {"idle", "limits", "exit", "deadline", "join", "done"}

\* The fields of a subprocess, and their types as far as they matter.
GitFields == {"pc", "stage", "child", "leader", "helper", "pipe", "drained", "ended", "over",
              "grown", "late", "left", "wait", "verdict"}
GitType(g) ==
  /\ DOMAIN g = GitFields
  /\ g.pc \in GitPcs /\ g.stage \in Stages \cup {"none"}
  /\ g.helper \in BOOLEAN
  /\ g.pipe \in [Streams -> Nat] /\ g.drained \in [Streams -> Nat]
  /\ g.ended \subseteq Streams /\ g.over \subseteq Streams
  /\ g.grown \in Nat /\ g.left \in Nat

\* Nobody of the group is left once it was killed, and the threads are joined
\* before the call returns.
Dead(g) ==
  /\ g.pc \in {"idle", "join", "done"} => ~Open(g)
  /\ g.pc \in {"idle", "done"} => g.ended = Streams
  /\ g.pc \notin {"idle", "done"} => g.stage \in Stages

\* A budget that was exceeded is on record, whoever exceeded it and when.
Metered(g) ==
  /\ \A s \in Watched(g.stage) : g.drained[s] > OutputLimit => s \in g.over
  /\ g.pc \in {"join", "done"} /\ g.wait = "ok" /\ g.stage = "fetch" => g.grown <= TransferLimit
  /\ IF g.stage = "read" THEN "out" \notin g.ended => g.left > 0 ELSE g.left = 0

\* What a call that has returned promises.
Kept(g) ==
  g.pc = "done" /\ g.verdict = "ok" =>
    /\ \A s \in Watched(g.stage) : g.drained[s] <= OutputLimit
    /\ g.stage = "fetch" => g.grown <= TransferLimit
    /\ g.left = 0

\* All of it.
Good(g) == GitType(g) /\ Dead(g) /\ Metered(g) /\ Kept(g)

\* Before and between calls.
LEMMA QuietGood == Good(Quiet)
<1>1. GitType(Quiet)
  BY DEF Quiet, GitType, GitFields, GitPcs, Streams
<1> QED
  BY <1>1, GitConstants DEF Quiet, Good, Dead, Metered, Kept, Open, Running, Streams, Watched

\* A step of a call: nothing but the fields F differs, and the call goes on.
Same(g, r, F) == DOMAIN r = DOMAIN g /\ \A x \in GitFields \ F : r[x] = g[x]
Moves(p) ==
  \E g : Good(g) /\ Put(p, g) /\ G(p).pc \notin {"idle", "done"} /\ g.pc # "idle"

\* A chunk is written.
LEMMA WritesGood ==
  ASSUME NEW p \in Caller, Good(G(p)), NEW s \in Streams, ChildWrites(p, s)
  PROVE  Moves(p)
<1> DEFINE g == G(p)
           r == [g EXCEPT !.child[s] = @ - 1, !.pipe[s] = @ + 1]
<1>1. Put(p, r) /\ Open(g)
  BY DEF ChildWrites
<1>2. g.pc \notin {"idle", "done"} /\ g.stage \in Stages
  BY <1>1 DEF Good, GitType, Dead, Streams
<1>3. /\ Same(g, r, {"child", "pipe"})
      /\ r.pipe = [g.pipe EXCEPT ![s] = @ + 1]
  BY DEF Same, Good, GitType, GitFields, KillGroup
<1> HIDE DEF r
<1>5. GitType(r)
  BY <1>1, <1>2, <1>3 DEF Same, Good, GitType, GitFields, GitPcs, Streams, Metered
<1>6. Dead(r)
  BY <1>1, <1>2, <1>3, <1>5 DEF Same, Good, GitType, GitFields, Dead, Open, Running, Streams
<1>7. Metered(r)
  BY <1>1, <1>2, <1>3, <1>5, GitConstants
     DEF Same, Good, GitType, GitFields, Dead, Metered, Open, Running, Watched, Streams
<1>8. Kept(r)
  BY <1>1, <1>2, <1>3, <1>5, <1>7, GitConstants
     DEF Same, Good, GitType, GitFields, Dead, Metered, Kept, Watched, Streams
<1> QED
  BY <1>1, <1>2, <1>3, <1>5, <1>6, <1>7, <1>8 DEF Good, Same, GitFields, Moves

\* An object is answered.
LEMMA AnswersGood ==
  ASSUME NEW p \in Caller, Good(G(p)), ChildAnswers(p)
  PROVE  Moves(p)
<1> DEFINE g == G(p)
           r == [g EXCEPT !.child.out = @ - 1, !.pipe["out"] = 1]
<1>1. Put(p, r) /\ Open(g)
  BY DEF ChildAnswers, Open
<1>2. g.pc \notin {"idle", "done"} /\ g.stage \in Stages
  BY <1>1 DEF Good, GitType, Dead, Streams
<1>3. /\ Same(g, r, {"child", "pipe"})
      /\ r.pipe = [g.pipe EXCEPT !["out"] = 1]
  BY DEF Same, Good, GitType, GitFields, KillGroup
<1> HIDE DEF r
<1>5. GitType(r)
  BY <1>1, <1>2, <1>3 DEF Same, Good, GitType, GitFields, GitPcs, Streams, Metered
<1>6. Dead(r)
  BY <1>1, <1>2, <1>3, <1>5 DEF Same, Good, GitType, GitFields, Dead, Open, Running, Streams
<1>7. Metered(r)
  BY <1>1, <1>2, <1>3, <1>5, GitConstants
     DEF Same, Good, GitType, GitFields, Dead, Metered, Open, Running, Watched, Streams
<1>8. Kept(r)
  BY <1>1, <1>2, <1>3, <1>5, <1>7, GitConstants
     DEF Same, Good, GitType, GitFields, Dead, Metered, Kept, Watched, Streams
<1> QED
  BY <1>1, <1>2, <1>3, <1>5, <1>6, <1>7, <1>8 DEF Good, Same, GitFields, Moves

\* The scratch directory grows.
LEMMA GrowsGood ==
  ASSUME NEW p \in Caller, Good(G(p)), ChildGrows(p)
  PROVE  Moves(p)
<1> DEFINE g == G(p)
           r == [g EXCEPT !.child.grows = @ - 1, !.grown = @ + 1]
<1>1. Put(p, r) /\ Open(g)
  BY DEF ChildGrows
<1>2. g.pc \notin {"idle", "done"} /\ g.stage \in Stages
  BY <1>1 DEF Good, GitType, Dead, Streams
<1>3. /\ Same(g, r, {"child", "grown"})
      /\ r.grown = g.grown + 1
  BY DEF Same, Good, GitType, GitFields, KillGroup
<1> HIDE DEF r
<1>5. GitType(r)
  BY <1>1, <1>2, <1>3 DEF Same, Good, GitType, GitFields, GitPcs, Streams, Metered
<1>6. Dead(r)
  BY <1>1, <1>2, <1>3, <1>5 DEF Same, Good, GitType, GitFields, Dead, Open, Running, Streams
<1>7. Metered(r)
  BY <1>1, <1>2, <1>3, <1>5, GitConstants
     DEF Same, Good, GitType, GitFields, Dead, Metered, Open, Running, Watched, Streams
<1>8. Kept(r)
  BY <1>1, <1>2, <1>3, <1>5, <1>7, GitConstants
     DEF Same, Good, GitType, GitFields, Dead, Metered, Kept, Watched, Streams
<1> QED
  BY <1>1, <1>2, <1>3, <1>5, <1>6, <1>7, <1>8 DEF Good, Same, GitFields, Moves

\* A helper is forked.
LEMMA ForksGood ==
  ASSUME NEW p \in Caller, Good(G(p)), ChildForks(p)
  PROVE  Moves(p)
<1> DEFINE g == G(p)
           r == [g EXCEPT !.child.forks = FALSE, !.helper = TRUE]
<1>1. Put(p, r) /\ Open(g)
  BY DEF ChildForks, Open
<1>2. g.pc \notin {"idle", "done"} /\ g.stage \in Stages
  BY <1>1 DEF Good, GitType, Dead, Streams
<1>3. /\ Same(g, r, {"child", "helper"})
      /\ r.helper = TRUE
  BY DEF Same, Good, GitType, GitFields, KillGroup
<1> HIDE DEF r
<1>5. GitType(r)
  BY <1>1, <1>2, <1>3 DEF Same, Good, GitType, GitFields, GitPcs, Streams, Metered
<1>6. Dead(r)
  BY <1>1, <1>2, <1>3, <1>5 DEF Same, Good, GitType, GitFields, Dead, Open, Running, Streams
<1>7. Metered(r)
  BY <1>1, <1>2, <1>3, <1>5, GitConstants
     DEF Same, Good, GitType, GitFields, Dead, Metered, Open, Running, Watched, Streams
<1>8. Kept(r)
  BY <1>1, <1>2, <1>3, <1>5, <1>7, GitConstants
     DEF Same, Good, GitType, GitFields, Dead, Metered, Kept, Watched, Streams
<1> QED
  BY <1>1, <1>2, <1>3, <1>5, <1>6, <1>7, <1>8 DEF Good, Same, GitFields, Moves

\* The leader exits.
LEMMA ExitsGood ==
  ASSUME NEW p \in Caller, Good(G(p)), ChildExits(p)
  PROVE  Moves(p)
<1> DEFINE g == G(p)
           r == [g EXCEPT !.leader = "zombie"]
<1>1. Put(p, r) /\ Open(g)
  BY DEF ChildExits, Open
<1>2. g.pc \notin {"idle", "done"} /\ g.stage \in Stages
  BY <1>1 DEF Good, GitType, Dead, Streams
<1>3. /\ Same(g, r, {"leader"})
      /\ r.leader = "zombie"
  BY DEF Same, Good, GitType, GitFields, KillGroup
<1> HIDE DEF r
<1>5. GitType(r)
  BY <1>1, <1>2, <1>3 DEF Same, Good, GitType, GitFields, GitPcs, Streams, Metered
<1>6. Dead(r)
  BY <1>1, <1>2, <1>3, <1>5 DEF Same, Good, GitType, GitFields, Dead, Open, Running, Streams
<1>7. Metered(r)
  BY <1>1, <1>2, <1>3, <1>5, GitConstants
     DEF Same, Good, GitType, GitFields, Dead, Metered, Open, Running, Watched, Streams
<1>8. Kept(r)
  BY <1>1, <1>2, <1>3, <1>5, <1>7, GitConstants
     DEF Same, Good, GitType, GitFields, Dead, Metered, Kept, Watched, Streams
<1> QED
  BY <1>1, <1>2, <1>3, <1>5, <1>6, <1>7, <1>8 DEF Good, Same, GitFields, Moves

\* The helper exits.
LEMMA HelperGood ==
  ASSUME NEW p \in Caller, Good(G(p)), HelperExits(p)
  PROVE  Moves(p)
<1> DEFINE g == G(p)
           r == [g EXCEPT !.helper = FALSE]
<1>1. Put(p, r) /\ Open(g)
  BY DEF HelperExits, Open
<1>2. g.pc \notin {"idle", "done"} /\ g.stage \in Stages
  BY <1>1 DEF Good, GitType, Dead, Streams
<1>3. /\ Same(g, r, {"helper"})
      /\ r.helper = FALSE
  BY DEF Same, Good, GitType, GitFields, KillGroup
<1> HIDE DEF r
<1>5. GitType(r)
  BY <1>1, <1>2, <1>3 DEF Same, Good, GitType, GitFields, GitPcs, Streams, Metered
<1>6. Dead(r)
  BY <1>1, <1>2, <1>3, <1>5 DEF Same, Good, GitType, GitFields, Dead, Open, Running, Streams
<1>7. Metered(r)
  BY <1>1, <1>2, <1>3, <1>5, GitConstants
     DEF Same, Good, GitType, GitFields, Dead, Metered, Open, Running, Watched, Streams
<1>8. Kept(r)
  BY <1>1, <1>2, <1>3, <1>5, <1>7, GitConstants
     DEF Same, Good, GitType, GitFields, Dead, Metered, Kept, Watched, Streams
<1> QED
  BY <1>1, <1>2, <1>3, <1>5, <1>6, <1>7, <1>8 DEF Good, Same, GitFields, Moves

\* The deadline passes.
LEMMA LateGood ==
  ASSUME NEW p \in Caller, Good(G(p)), Deadline(p)
  PROVE  Moves(p)
<1> DEFINE g == G(p)
           r == [g EXCEPT !.late = TRUE]
<1>1. Put(p, r) /\ g.pc \in {"limits", "exit", "deadline"}
  BY DEF Deadline
<1>2. g.pc \notin {"idle", "done"} /\ g.stage \in Stages
  BY <1>1 DEF Good, GitType, Dead, Streams
<1>3. /\ Same(g, r, {"late"})
      /\ r.late = TRUE
  BY DEF Same, Good, GitType, GitFields, KillGroup
<1> HIDE DEF r
<1>5. GitType(r)
  BY <1>1, <1>2, <1>3 DEF Same, Good, GitType, GitFields, GitPcs, Streams, Metered
<1>6. Dead(r)
  BY <1>1, <1>2, <1>3, <1>5 DEF Same, Good, GitType, GitFields, Dead, Open, Running, Streams
<1>7. Metered(r)
  BY <1>1, <1>2, <1>3, <1>5, GitConstants
     DEF Same, Good, GitType, GitFields, Dead, Metered, Open, Running, Watched, Streams
<1>8. Kept(r)
  BY <1>1, <1>2, <1>3, <1>5, <1>7, GitConstants
     DEF Same, Good, GitType, GitFields, Dead, Metered, Kept, Watched, Streams
<1> QED
  BY <1>1, <1>2, <1>3, <1>5, <1>6, <1>7, <1>8 DEF Good, Same, GitFields, Moves

\* A thread drains a chunk; past the limit it says so.
LEMMA DrainReads ==
  ASSUME NEW p \in Caller, Good(G(p)), NEW s \in Streams, Drain(p, s), G(p).pipe[s] > 0
  PROVE  Moves(p)
<1> DEFINE g == G(p)
           r == [g EXCEPT !.pipe[s] = @ - 1, !.drained[s] = @ + 1,
                      !.over = IF g.drained[s] + 1 > OutputLimit THEN @ \cup {s} ELSE @]
<1>1. Put(p, r) /\ s \notin g.ended /\ g.pipe[s] > 0
  BY DEF Drain
<1>2. g.pc \notin {"idle", "done"} /\ g.stage \in Stages
  BY <1>1 DEF Good, GitType, Dead, Streams
<1>3. /\ Same(g, r, {"pipe", "drained", "over"})
      /\ r.pipe = [g.pipe EXCEPT ![s] = @ - 1]
      /\ r.drained = [g.drained EXCEPT ![s] = @ + 1]
      /\ r.over = IF g.drained[s] + 1 > OutputLimit THEN g.over \cup {s} ELSE g.over
  BY DEF Same, Good, GitType, GitFields, KillGroup
<1> HIDE DEF r
<1>5. GitType(r)
  BY <1>1, <1>2, <1>3 DEF Same, Good, GitType, GitFields, GitPcs, Streams, Metered
<1>6. Dead(r)
  BY <1>1, <1>2, <1>3, <1>5 DEF Same, Good, GitType, GitFields, Dead, Open, Running, Streams
<1>7. Metered(r)
  BY <1>1, <1>2, <1>3, <1>5, GitConstants
     DEF Same, Good, GitType, GitFields, Dead, Metered, Open, Running, Watched, Streams
<1>8. Kept(r)
  BY <1>1, <1>2, <1>3, <1>5, <1>7, GitConstants
     DEF Same, Good, GitType, GitFields, Dead, Metered, Kept, Watched, Streams
<1> QED
  BY <1>1, <1>2, <1>3, <1>5, <1>6, <1>7, <1>8 DEF Good, Same, GitFields, Moves

\* A thread sees the end of its pipe.
LEMMA DrainEnds ==
  ASSUME NEW p \in Caller, Good(G(p)), NEW s \in Streams, Drain(p, s), ~(G(p).pipe[s] > 0)
  PROVE  Moves(p)
<1> DEFINE g == G(p)
           r == [g EXCEPT !.ended = @ \cup {s}]
<1>1. Put(p, r) /\ s \notin g.ended /\ (g.stage = "read" => s # "out")
  BY DEF Drain, Watched, Streams
<1>2. g.pc \notin {"idle", "done"} /\ g.stage \in Stages
  BY <1>1 DEF Good, GitType, Dead, Streams
<1>3. /\ Same(g, r, {"ended"})
      /\ r.ended = g.ended \cup {s}
  BY DEF Same, Good, GitType, GitFields, KillGroup
<1> HIDE DEF r
<1>5. GitType(r)
  BY <1>1, <1>2, <1>3 DEF Same, Good, GitType, GitFields, GitPcs, Streams, Metered
<1>6. Dead(r)
  BY <1>1, <1>2, <1>3, <1>5 DEF Same, Good, GitType, GitFields, Dead, Open, Running, Streams
<1>7. Metered(r)
  BY <1>1, <1>2, <1>3, <1>5, GitConstants
     DEF Same, Good, GitType, GitFields, Dead, Metered, Open, Running, Watched, Streams
<1>8. Kept(r)
  BY <1>1, <1>2, <1>3, <1>5, <1>7, GitConstants
     DEF Same, Good, GitType, GitFields, Dead, Metered, Kept, Watched, Streams
<1> QED
  BY <1>1, <1>2, <1>3, <1>5, <1>6, <1>7, <1>8 DEF Good, Same, GitFields, Moves

\* The worker reads an answer it does not understand.
LEMMA WorkerFails ==
  ASSUME NEW p \in Caller, Good(G(p)), WorkerReads(p), G(p).pipe["out"] > 0, G(p).child.bad
  PROVE  Moves(p)
<1> DEFINE g == G(p)
           r == [g EXCEPT !.pipe["out"] = 0, !.ended = @ \cup {"out"}]
<1>1. Put(p, r) /\ "out" \notin g.ended /\ g.stage = "read"
  BY DEF WorkerReads
<1>2. g.pc \notin {"idle", "done"} /\ g.stage \in Stages
  BY <1>1 DEF Good, GitType, Dead, Streams
<1>3. /\ Same(g, r, {"pipe", "ended"})
      /\ r.pipe = [g.pipe EXCEPT !["out"] = 0] /\ r.ended = g.ended \cup {"out"}
  BY DEF Same, Good, GitType, GitFields, KillGroup
<1> HIDE DEF r
<1>5. GitType(r)
  BY <1>1, <1>2, <1>3 DEF Same, Good, GitType, GitFields, GitPcs, Streams, Metered
<1>6. Dead(r)
  BY <1>1, <1>2, <1>3, <1>5 DEF Same, Good, GitType, GitFields, Dead, Open, Running, Streams
<1>7. Metered(r)
  BY <1>1, <1>2, <1>3, <1>5, GitConstants
     DEF Same, Good, GitType, GitFields, Dead, Metered, Open, Running, Watched, Streams
<1>8. Kept(r)
  BY <1>1, <1>2, <1>3, <1>5, <1>7, GitConstants
     DEF Same, Good, GitType, GitFields, Dead, Metered, Kept, Watched, Streams
<1> QED
  BY <1>1, <1>2, <1>3, <1>5, <1>6, <1>7, <1>8 DEF Good, Same, GitFields, Moves

\* The worker reads an object.
LEMMA WorkerTakes ==
  ASSUME NEW p \in Caller, Good(G(p)), WorkerReads(p), G(p).pipe["out"] > 0, ~G(p).child.bad
  PROVE  Moves(p)
<1> DEFINE g == G(p)
           r == [g EXCEPT !.pipe["out"] = 0, !.left = @ - 1,
                      !.ended = IF g.left = 1 THEN @ \cup {"out"} ELSE @]
<1>1. Put(p, r) /\ "out" \notin g.ended /\ g.stage = "read"
  BY DEF WorkerReads
<1>2. g.pc \notin {"idle", "done"} /\ g.stage \in Stages
  BY <1>1 DEF Good, GitType, Dead, Streams
<1>3. /\ Same(g, r, {"pipe", "ended", "left"})
      /\ r.pipe = [g.pipe EXCEPT !["out"] = 0] /\ r.left = g.left - 1
      /\ r.ended = IF g.left = 1 THEN g.ended \cup {"out"} ELSE g.ended
  BY DEF Same, Good, GitType, GitFields, KillGroup
<1> HIDE DEF r
<1>5. GitType(r)
  BY <1>1, <1>2, <1>3 DEF Same, Good, GitType, GitFields, GitPcs, Streams, Metered
<1>6. Dead(r)
  BY <1>1, <1>2, <1>3, <1>5 DEF Same, Good, GitType, GitFields, Dead, Open, Running, Streams
<1>7. Metered(r)
  BY <1>1, <1>2, <1>3, <1>5, GitConstants
     DEF Same, Good, GitType, GitFields, Dead, Metered, Open, Running, Watched, Streams
<1>8. Kept(r)
  BY <1>1, <1>2, <1>3, <1>5, <1>7, GitConstants
     DEF Same, Good, GitType, GitFields, Dead, Metered, Kept, Watched, Streams
<1> QED
  BY <1>1, <1>2, <1>3, <1>5, <1>6, <1>7, <1>8 DEF Good, Same, GitFields, Moves

\* The worker sees the end of its pipe.
LEMMA WorkerEnds ==
  ASSUME NEW p \in Caller, Good(G(p)), WorkerReads(p), ~(G(p).pipe["out"] > 0)
  PROVE  Moves(p)
<1> DEFINE g == G(p)
           r == [g EXCEPT !.ended = @ \cup {"out"}]
<1>1. Put(p, r) /\ "out" \notin g.ended /\ g.stage = "read"
  BY DEF WorkerReads
<1>2. g.pc \notin {"idle", "done"} /\ g.stage \in Stages
  BY <1>1 DEF Good, GitType, Dead, Streams
<1>3. /\ Same(g, r, {"ended"})
      /\ r.ended = g.ended \cup {"out"}
  BY DEF Same, Good, GitType, GitFields, KillGroup
<1> HIDE DEF r
<1>5. GitType(r)
  BY <1>1, <1>2, <1>3 DEF Same, Good, GitType, GitFields, GitPcs, Streams, Metered
<1>6. Dead(r)
  BY <1>1, <1>2, <1>3, <1>5 DEF Same, Good, GitType, GitFields, Dead, Open, Running, Streams
<1>7. Metered(r)
  BY <1>1, <1>2, <1>3, <1>5, GitConstants
     DEF Same, Good, GitType, GitFields, Dead, Metered, Open, Running, Watched, Streams
<1>8. Kept(r)
  BY <1>1, <1>2, <1>3, <1>5, <1>7, GitConstants
     DEF Same, Good, GitType, GitFields, Dead, Metered, Kept, Watched, Streams
<1> QED
  BY <1>1, <1>2, <1>3, <1>5, <1>6, <1>7, <1>8 DEF Good, Same, GitFields, Moves

\* supervise ends with an issue.
LEMMA StopGood ==
  ASSUME NEW p \in Caller, Good(G(p)), NEW issue, issue # "ok", Stop(p, issue),
         G(p).pc \in {"limits", "deadline"}
  PROVE  Moves(p)
<1> DEFINE g == G(p)
           r == [KillGroup(g) EXCEPT !.pc = "join", !.wait = issue]
<1>1. Put(p, r) /\ g.pc \in {"limits", "deadline"}
  BY DEF Stop
<1>2. g.pc \notin {"idle", "done"} /\ g.stage \in Stages
  BY <1>1 DEF Good, GitType, Dead, Streams
<1>3. /\ Same(g, r, {"pc", "wait", "leader", "helper"})
      /\ r.pc = "join" /\ r.wait = issue /\ r.leader = "gone" /\ r.helper = FALSE
  BY DEF Same, Good, GitType, GitFields, KillGroup
<1> HIDE DEF r
<1>5. GitType(r)
  BY <1>1, <1>2, <1>3 DEF Same, Good, GitType, GitFields, GitPcs, Streams, Metered
<1>6. Dead(r)
  BY <1>1, <1>2, <1>3, <1>5 DEF Same, Good, GitType, GitFields, Dead, Open, Running, Streams
<1>7. Metered(r)
  BY <1>1, <1>2, <1>3, <1>5, GitConstants
     DEF Same, Good, GitType, GitFields, Dead, Metered, Open, Running, Watched, Streams
<1>8. Kept(r)
  BY <1>1, <1>2, <1>3, <1>5, <1>7, GitConstants
     DEF Same, Good, GitType, GitFields, Dead, Metered, Kept, Watched, Streams
<1> QED
  BY <1>1, <1>2, <1>3, <1>5, <1>6, <1>7, <1>8 DEF Good, Same, GitFields, Moves

\* The leader has exited.
LEMMA ExitedGood ==
  ASSUME NEW p \in Caller, Good(G(p)), PollExit(p), G(p).leader = "zombie"
  PROVE  Moves(p)
<1> DEFINE g == G(p)
           r == [KillGroup(g) EXCEPT !.pc = "join", !.wait = Measured(g)]
<1>1. Put(p, r) /\ g.pc = "exit"
  BY DEF PollExit
<1>2. g.pc \notin {"idle", "done"} /\ g.stage \in Stages
  BY <1>1 DEF Good, GitType, Dead, Streams
<1>3. /\ Same(g, r, {"pc", "wait", "leader", "helper"})
      /\ r.pc = "join" /\ r.wait = Measured(g) /\ r.leader = "gone" /\ r.helper = FALSE
  BY DEF Same, Good, GitType, GitFields, KillGroup
<1> HIDE DEF r
<1>5. GitType(r)
  BY <1>1, <1>2, <1>3 DEF Same, Good, GitType, GitFields, GitPcs, Streams, Metered
<1>6. Dead(r)
  BY <1>1, <1>2, <1>3, <1>5 DEF Same, Good, GitType, GitFields, Dead, Open, Running, Streams
<1>7. Metered(r)
  BY <1>1, <1>2, <1>3, <1>5, GitConstants
     DEF Same, Good, GitType, GitFields, Dead, Metered, Open, Running, Watched, Streams, Measured,
       Stages
<1>8. Kept(r)
  BY <1>1, <1>2, <1>3, <1>5, <1>7, GitConstants
     DEF Same, Good, GitType, GitFields, Dead, Metered, Kept, Watched, Streams, Measured, Stages
<1> QED
  BY <1>1, <1>2, <1>3, <1>5, <1>6, <1>7, <1>8 DEF Good, Same, GitFields, Moves

\* An iteration of supervise goes on.
LEMMA PollsOn ==
  ASSUME NEW p \in Caller, Good(G(p)), NEW pc \in {"limits", "exit", "deadline"},
         Put(p, [G(p) EXCEPT !.pc = pc]), G(p).pc \in {"limits", "exit", "deadline"}
  PROVE  Moves(p)
<1> DEFINE g == G(p)
           r == [g EXCEPT !.pc = pc]
<1>1. Put(p, r) /\ g.pc \in {"limits", "exit", "deadline"}
  BY DEF Put
<1>2. g.pc \notin {"idle", "done"} /\ g.stage \in Stages
  BY <1>1 DEF Good, GitType, Dead, Streams
<1>3. /\ Same(g, r, {"pc"})
      /\ r.pc = pc
  BY DEF Same, Good, GitType, GitFields, KillGroup
<1> HIDE DEF r
<1>5. GitType(r)
  BY <1>1, <1>2, <1>3 DEF Same, Good, GitType, GitFields, GitPcs, Streams, Metered
<1>6. Dead(r)
  BY <1>1, <1>2, <1>3, <1>5 DEF Same, Good, GitType, GitFields, Dead, Open, Running, Streams
<1>7. Metered(r)
  BY <1>1, <1>2, <1>3, <1>5, GitConstants
     DEF Same, Good, GitType, GitFields, Dead, Metered, Open, Running, Watched, Streams
<1>8. Kept(r)
  BY <1>1, <1>2, <1>3, <1>5, <1>7, GitConstants
     DEF Same, Good, GitType, GitFields, Dead, Metered, Kept, Watched, Streams
<1> QED
  BY <1>1, <1>2, <1>3, <1>5, <1>6, <1>7, <1>8 DEF Good, Same, GitFields, Moves

\* The threads are joined and the call is judged.
LEMMA JoinGood ==
  ASSUME NEW p \in Caller, Good(G(p)), Join(p)
  PROVE  Moves(p)
<1> DEFINE g == G(p)
           r == [g EXCEPT !.pc = "done", !.verdict = Judge(g)]
<1>1. Put(p, r) /\ g.pc = "join" /\ g.ended = Streams
  BY DEF Join
<1>2. g.pc \notin {"idle", "done"} /\ g.stage \in Stages
  BY <1>1 DEF Good, GitType, Dead, Streams
<1>3. /\ Same(g, r, {"pc", "verdict"})
      /\ r.pc = "done" /\ r.verdict = Judge(g)
  BY DEF Same, Good, GitType, GitFields, KillGroup
<1> HIDE DEF r
<1>5. GitType(r)
  BY <1>1, <1>2, <1>3 DEF Same, Good, GitType, GitFields, GitPcs, Streams, Metered
<1>6. Dead(r)
  BY <1>1, <1>2, <1>3, <1>5 DEF Same, Good, GitType, GitFields, Dead, Open, Running, Streams
<1>7. Metered(r)
  BY <1>1, <1>2, <1>3, <1>5, GitConstants
     DEF Same, Good, GitType, GitFields, Dead, Metered, Open, Running, Watched, Streams, Judge,
       Issues
<1>8. Kept(r)
  BY <1>1, <1>2, <1>3, <1>5, <1>7, GitConstants
     DEF Same, Good, GitType, GitFields, Dead, Metered, Kept, Watched, Streams, Judge, Issues
<1> QED
  BY <1>1, <1>2, <1>3, <1>5, <1>6, <1>7, <1>8 DEF Good, Same, GitFields, Moves

\* Every step of a subprocess or of its threads keeps the call in order.
LEMMA GitGood ==
  ASSUME NEW p \in Caller, Good(G(p)), GitStep(p)
  PROVE  Moves(p)
<1>1. CASE ChildStep(p)
  BY <1>1, WritesGood, AnswersGood, GrowsGood, ForksGood, ExitsGood, HelperGood DEF ChildStep
<1>2. CASE Deadline(p)
  BY <1>2, LateGood
<1>3. CASE ThreadStep(p)
  BY <1>3, DrainReads, DrainEnds, WorkerFails, WorkerTakes, WorkerEnds DEF ThreadStep
<1>4. CASE PollLimits(p)
  BY <1>4, StopGood, PollsOn DEF PollLimits
<1>5. CASE PollExit(p)
  BY <1>5, ExitedGood, PollsOn DEF PollExit
<1>6. CASE PollDeadline(p)
  BY <1>6, StopGood, PollsOn DEF PollDeadline
<1>7. CASE Join(p)
  BY <1>7, JoinGood
<1> QED
  BY <1>1, <1>2, <1>3, <1>4, <1>5, <1>6, <1>7 DEF GitStep, Supervise

\* A subprocess starts, or is taken for its outcome.
LEMMA CallGood ==
  ASSUME NEW p \in Caller, NEW stage \in Stages, Spawn(p, stage) \/ CallAtOnce(p, stage)
  PROVE  \E g : Good(g) /\ git' = [git EXCEPT ![p] = g] /\ g.pc # "idle"
<1>1. CASE Spawn(p, stage)
  <2>1. PICK c \in Children[stage] :
          git' = [git EXCEPT ![p] =
            [Quiet EXCEPT !.pc = "limits", !.stage = stage, !.child = c, !.leader = "running",
                          !.ended = {}, !.left = IF stage = "read" THEN Wanted ELSE 0]]
    BY <1>1 DEF Spawn
  <2> DEFINE r == [Quiet EXCEPT !.pc = "limits", !.stage = stage, !.child = c,
                                !.leader = "running", !.ended = {},
                                !.left = IF stage = "read" THEN Wanted ELSE 0]
  <2>2. /\ Same(Quiet, r, {"pc", "stage", "child", "leader", "ended", "left"})
        /\ r.pc = "limits" /\ r.stage = stage /\ r.leader = "running" /\ r.ended = {}
        /\ r.left = IF stage = "read" THEN Wanted ELSE 0
    BY QuietGood DEF Same, Quiet, Good, GitType, GitFields
  <2>3. Quiet.drained = [s \in Streams |-> 0]
    BY DEF Quiet
  <2> HIDE DEF r
  <2>4. GitType(r)
    BY <2>2, QuietGood, GitConstants DEF Same, Good, GitType, GitFields, GitPcs, Streams
  <2>5. Dead(r) /\ Kept(r)
    BY <2>2 DEF Dead, Kept
  <2>6. Metered(r)
    BY <2>2, <2>3, <2>4, GitConstants DEF Same, GitFields, Metered, Watched, Streams
  <2> QED
    BY <2>1, <2>2, <2>4, <2>5, <2>6 DEF Good, r
<1>2. CASE CallAtOnce(p, stage)
  <2>1. PICK v \in {"ok", "failed"} :
          git' = [git EXCEPT ![p] = [Quiet EXCEPT !.pc = "done", !.stage = stage, !.verdict = v]]
    BY <1>2 DEF CallAtOnce, Put
  <2> DEFINE r == [Quiet EXCEPT !.pc = "done", !.stage = stage, !.verdict = v]
  <2>2. /\ Same(Quiet, r, {"pc", "stage", "verdict"})
        /\ r.pc = "done" /\ r.stage = stage
    BY QuietGood DEF Same, Quiet, Good, GitType, GitFields
  <2>3. /\ Quiet.drained = [s \in Streams |-> 0] /\ Quiet.ended = Streams /\ Quiet.left = 0
        /\ Quiet.grown = 0 /\ Quiet.leader = "gone" /\ Quiet.helper = FALSE
    BY DEF Quiet
  <2> HIDE DEF r
  <2>4. GitType(r)
    BY <2>2, QuietGood DEF Same, Good, GitType, GitFields, GitPcs, Streams
  <2>5. Dead(r)
    BY <2>2, <2>3 DEF Same, GitFields, Dead, Open, Running
  <2>6. Metered(r) /\ Kept(r)
    BY <2>2, <2>3, <2>4, GitConstants
       DEF Same, GitFields, Metered, Kept, Watched, Streams
  <2> QED
    BY <2>1, <2>2, <2>4, <2>5, <2>6 DEF Good, r
<1> QED
  BY <1>1, <1>2

-----------------------------------------------------------------------------
\* Calls of prepare and update

\* Where a call is once the sources of its lock are granted, and at all.
Granted == {"root", "file", "tree", "locals", "local", "remotes", "acquire", "remote", "assemble",
            "same", "plan", "commit"}
Working == Granted \cup {"checkout", "lock"}

ProcFields == {"pc", "calls", "head", "rev", "grants", "todo", "dep", "polls", "plan", "result"}
SameCall(x, r, F) == DOMAIN r = DOMAIN x /\ \A f \in ProcFields \ F : r[f] = x[f]

\* The subprocesses still to run.
CallLists == {<<>>, <<"resolve">>, <<"init", "fetch", "read">>, <<"fetch", "read">>, <<"read">>}

\* Where a call x with its subprocess g can be: resolve is the first of its
\* subprocesses, and none runs that is not asked for.
Placed(x, g, op) ==
  /\ DOMAIN x = ProcFields /\ x.pc \in Working \cup {"idle", "end", "sweep"}
  /\ x.calls \in CallLists
  /\ x.pc \in {"idle", "end", "sweep"} => x.calls = <<>>
  /\ x.calls = <<"resolve">> => x.pc = "checkout"
  /\ x.pc = "checkout" => x.calls \in {<<>>, <<"resolve">>}
  /\ g.pc # "idle" => x.calls # <<>>
  /\ x.pc # "end" => x.result \in {"none", "swept"}
  /\ x.pc = "sweep" => op = "prune"
  /\ x.pc \in Working => op \in {"prepare", "update"}

\* What the call was based on, what it may use and what it is to install.
Based(x, op, h) ==
  op = "update" /\ x.pc \in Working => x.head \in 1..Len(h) /\ x.grants = h[x.head].grants
Covered(x) == x.pc \in Granted => Sources(x.rev) \subseteq x.grants
Planned(x, op) ==
  x.pc = "commit" =>
    x.plan = [expected |-> x.head, rev |-> x.rev, grants |-> x.grants, by |-> op]

\* An update was there when the selector named its revision, and the head had
\* then moved on from the one it replaces at most as far as it has now.
Resolved(x, g, op, h, sn) ==
  op = "update" /\ x.pc \in Working /\ ~(x.calls = <<"resolve">> /\ g.pc = "idle") =>
    \E i \in x.head..Len(h) : <<i, x.rev>> \in sn
Linear(x, op, sn) ==
  op = "update" /\ x.result \in {"nochange", "committed"} => <<x.head, x.rev>> \in sn

\* All of it.
Sound(x, g, op, h, sn) ==
  /\ Placed(x, g, op) /\ Based(x, op, h) /\ Covered(x) /\ Planned(x, op)
  /\ Resolved(x, g, op, h, sn) /\ Linear(x, op, sn)

\* The history only grows, and so does what a call remembers.
Grows(h, k) ==
  /\ Len(h) \in Nat /\ Len(k) \in Nat /\ Len(h) <= Len(k)
  /\ \A i \in 1..Len(h) : k[i] = h[i]
LEMMA Later ==
  ASSUME NEW x, NEW g, NEW op, NEW h, NEW k, NEW sn, NEW tn,
         Sound(x, g, op, h, sn), Grows(h, k), sn \subseteq tn
  PROVE  Sound(x, g, op, k, tn)
<1>1. Placed(x, g, op) /\ Covered(x) /\ Planned(x, op)
  BY DEF Sound
<1>2. Based(x, op, k)
  BY DEF Sound, Based, Grows
<1>3. Resolved(x, g, op, k, tn)
  <2> SUFFICES ASSUME op = "update", x.pc \in Working, ~(x.calls = <<"resolve">> /\ g.pc = "idle")
               PROVE  \E i \in x.head..Len(k) : <<i, x.rev>> \in tn
    BY DEF Resolved
  <2>1. PICK i \in x.head..Len(h) : <<i, x.rev>> \in sn
    BY DEF Sound, Resolved
  <2>2. x.head \in Nat
    BY DEF Sound, Based
  <2>3. i \in x.head..Len(k)
    BY <2>1, <2>2 DEF Grows
  <2> QED
    BY <2>1, <2>3
<1>4. Linear(x, op, tn)
  BY DEF Sound, Linear
<1> QED
  BY <1>1, <1>2, <1>3, <1>4 DEF Sound

\* A step from one place to the next that keeps the head, the revision and the
\* grants.
LEMMA Along ==
  ASSUME NEW x, NEW g, NEW op, NEW h, NEW sn, NEW r, Sound(x, g, op, h, sn), g.pc = "idle",
         x.pc \in Working, x.calls = <<>>,
         SameCall(x, r, {"pc", "calls", "todo", "dep", "polls"}),
         r.pc \in Working \ {"checkout"}, r.pc = "commit" => x.pc = "commit",
         r.calls \in {<<>>, <<"read">>, <<"init", "fetch", "read">>},
         r.pc \in Granted => Sources(x.rev) \subseteq x.grants
  PROVE  Sound(r, g, op, h, sn)
<1>0. <<"read">> # <<"resolve">> /\ <<"init", "fetch", "read">> # <<"resolve">>
        /\ <<>> # <<"resolve">>
  OBVIOUS
<1>1. Placed(r, g, op)
  BY <1>0 DEF Sound, Placed, SameCall, ProcFields, Working, Granted, CallLists
<1>2. Based(r, op, h) /\ Covered(r) /\ Planned(r, op)
  BY DEF Sound, Based, Covered, Planned, SameCall, ProcFields
<1>3. Resolved(r, g, op, h, sn) /\ Linear(r, op, sn)
  BY <1>0 DEF Sound, Resolved, Linear, SameCall, ProcFields
<1> QED
  BY <1>1, <1>2, <1>3 DEF Sound

\* A call ends; one that claims to have brought the namespace up to date has.
LEMMA Ending ==
  ASSUME NEW x, NEW g, NEW op, NEW h, NEW sn, NEW r, NEW e, Sound(x, e, op, h, sn), g.pc = "idle",
         SameCall(x, r, {"pc", "calls", "result"}), r.pc = "end", r.calls = <<>>,
         op = "update" /\ r.result \in {"nochange", "committed"} => <<x.head, x.rev>> \in sn
  PROVE  Sound(r, g, op, h, sn)
<1>1. Placed(r, g, op)
  BY DEF Sound, Placed, SameCall, ProcFields, Working, Granted, CallLists
<1>2. Based(r, op, h) /\ Covered(r) /\ Planned(r, op)
  BY DEF Sound, Based, Covered, Planned, Working, Granted
<1>3. Resolved(r, g, op, h, sn) /\ Linear(r, op, sn)
  BY DEF Resolved, Linear, SameCall, ProcFields, Working, Granted
<1> QED
  BY <1>1, <1>2, <1>3 DEF Sound

\* The inductive invariant: calls and subprocesses are in order, and the history
\* is one that prepares and updates make.
Inv ==
  /\ \E S : git \in [Caller -> S]
  /\ \E S : proc \in [Caller -> S]
  /\ Legal(gens)
  /\ \A p \in Caller : Good(G(p)) /\ Sound(P(p), G(p), jobs[p].op, gens, seen[p])

\* What process p is after a step.
After(p) == Sound(proc'[p], git'[p], jobs[p].op, gens', seen'[p])

LEMMA Remembers ==
  ASSUME NEW p \in Caller, Remember
  PROVE  /\ seen[p] \subseteq seen'[p]
         /\ jobs[p].op = "update" /\ proc'[p].pc # "idle" /\ proc[p].pc # "end" =>
              <<Len(gens), Selected>> \in seen'[p]
  BY DEF Remember

LEMMA GensSeq ==
  ASSUME Legal(gens)
  PROVE  /\ gens \in Seq({gens[i] : i \in DOMAIN gens}) /\ Len(gens) \in Nat
         /\ DOMAIN gens = 1..Len(gens)
<1>1. gens \in Seq({gens[i] : i \in DOMAIN gens})
  BY DEF Legal
<1> QED
  BY <1>1

\* A process that does nothing is as it was, if the history only grows.
LEMMA Standing == ASSUME Inv, UNCHANGED gens PROVE Grows(gens, gens')
  BY GensSeq DEF Inv, Grows
LEMMA Beside ==
  ASSUME Inv, NEW p \in Caller, Remember, Grows(gens, gens')
  PROVE  Sound(P(p), G(p), jobs[p].op, gens', seen'[p])
<1>1. seen[p] \subseteq seen'[p]
  BY Remembers
<1> QED
  BY <1>1, Later DEF Inv
LEMMA Waiting ==
  ASSUME Inv, NEW p \in Caller, Remember, UNCHANGED gens
  PROVE  Sound(P(p), G(p), jobs[p].op, gens', seen'[p])
  BY Standing, Beside

\* The steps that end a call, and those that lead from one place to the next.
LEMMA EndGrows ==
  ASSUME Inv, NEW p \in Caller, Remember, Grows(gens, gens'), git'[p].pc = "idle",
         NEW result, End(p, result),
         jobs[p].op = "update" /\ result \in {"nochange", "committed"} =>
           <<P(p).head, P(p).rev>> \in seen'[p]
  PROVE  After(p)
<1> DEFINE x == P(p)
           r == [x EXCEPT !.pc = "end", !.calls = <<>>, !.result = result]
<1>1. Sound(x, G(p), jobs[p].op, gens', seen'[p])
  BY Beside
<1>2. proc'[p] = r
  BY DEF Inv, End, Go
<1>3. /\ SameCall(x, r, {"pc", "calls", "result"})
      /\ r.pc = "end" /\ r.calls = <<>> /\ r.result = result
  BY <1>1 DEF Sound, Placed, SameCall, ProcFields
<1> HIDE DEF r, x
<1>4. jobs[p].op = "update" /\ r.result \in {"nochange", "committed"} =>
        <<x.head, x.rev>> \in seen'[p]
  BY <1>3 DEF x
<1>5. Sound(r, git'[p], jobs[p].op, gens', seen'[p])
  BY <1>1, <1>3, <1>4, Ending
<1> QED
  BY <1>2, <1>5 DEF After
LEMMA EndStep ==
  ASSUME Inv, NEW p \in Caller, Remember, UNCHANGED gens, git'[p].pc = "idle",
         NEW result, End(p, result),
         jobs[p].op = "update" /\ result \in {"nochange", "committed"} =>
           <<P(p).head, P(p).rev>> \in seen'[p]
  PROVE  After(p)
  BY Standing, EndGrows

LEMMA AlongStep ==
  ASSUME Inv, NEW p \in Caller, Remember, UNCHANGED <<gens, git>>, NEW r, Go(p, r),
         P(p).pc \in Working, P(p).calls = <<>>,
         SameCall(P(p), r, {"pc", "calls", "todo", "dep", "polls"}),
         r.pc \in Working \ {"checkout"}, r.pc # "commit",
         r.calls \in {<<>>, <<"read">>, <<"init", "fetch", "read">>},
         r.pc \in Granted => P(p).pc \in Granted \/ Sources(P(p).rev) \subseteq P(p).grants
  PROVE  After(p)
<1>1. Sound(P(p), G(p), jobs[p].op, gens', seen'[p])
  BY Waiting
<1>2. proc'[p] = r /\ git'[p] = G(p)
  BY DEF Inv, Go, G
<1>3. G(p).pc = "idle" /\ (P(p).pc \in Granted => Sources(P(p).rev) \subseteq P(p).grants)
  BY <1>1 DEF Sound, Placed, Covered
<1>4. Sound(r, G(p), jobs[p].op, gens', seen'[p])
  BY <1>1, <1>3, Along
<1> QED
  BY <1>2, <1>4 DEF After

\* A publication, which may have to be tried again.
LEMMA PublishStep ==
  ASSUME Inv, NEW p \in Caller, Remember, NEW new, NEW next, Publish(p, new, next),
         P(p).pc \in Granted \ {"commit"}, P(p).calls = <<>>,
         SameCall(P(p), next, {"pc", "todo", "polls"}), next.pc \in Granted \ {"commit"}
  PROVE  After(p)
<1>1. UNCHANGED <<gens, git>>
  BY DEF Publish, Quietly
<1>2. Sound(P(p), G(p), jobs[p].op, gens', seen'[p])
  BY <1>1, Waiting
<1>3. G(p).pc = "idle" /\ DOMAIN P(p) = ProcFields
  BY <1>2 DEF Sound, Placed
<1>4. CASE Go(p, next)
  <2>1. next.calls = <<>> /\ SameCall(P(p), next, {"pc", "calls", "todo", "dep", "polls"})
    BY DEF SameCall, ProcFields
  <2> QED
    BY <1>1, <1>4, <2>1, AlongStep DEF Working, Granted
<1>5. CASE End(p, "busy")
  BY <1>1, <1>3, <1>5, EndStep DEF G
<1>6. CASE Go(p, [P(p) EXCEPT !.polls = @ + 1])
  <2> DEFINE r == [P(p) EXCEPT !.polls = @ + 1]
  <2>1. SameCall(P(p), r, {"pc", "calls", "todo", "dep", "polls"}) /\ r.pc = P(p).pc
          /\ r.calls = <<>>
    BY <1>3 DEF SameCall, ProcFields
  <2> HIDE DEF r
  <2>2. Go(p, r)
    BY <1>6 DEF r
  <2> QED
    BY <1>1, <2>1, <2>2, AlongStep DEF Working, Granted
<1> QED
  BY <1>4, <1>5, <1>6 DEF Publish

\* The checkout is acquired and read.
LEMMA CheckoutStep ==
  ASSUME Inv, NEW p \in Caller, Remember, Checkout(p)
  PROVE  After(p)
<1>1. Sound(P(p), G(p), jobs[p].op, gens, seen[p]) /\ DOMAIN P(p) = ProcFields
  BY DEF Inv, Sound, Placed
<1>2. UNCHANGED <<gens, git>> /\ P(p).calls = <<>> /\ git'[p].pc = "idle"
  BY <1>1 DEF Checkout, Here, Quietly, storeVars, Sound, Placed, G
<1>3. CASE Go(p, [P(p) EXCEPT !.pc = "lock", !.calls = <<"init", "fetch", "read">>])
        /\ P(p).pc = "checkout"
  <2> DEFINE r == [P(p) EXCEPT !.pc = "lock", !.calls = <<"init", "fetch", "read">>]
  <2>1. /\ SameCall(P(p), r, {"pc", "calls", "todo", "dep", "polls"})
        /\ r.pc = "lock" /\ r.calls = <<"init", "fetch", "read">>
    BY <1>1, <1>2, <1>3 DEF SameCall, ProcFields
  <2> HIDE DEF r
  <2>2. Go(p, r)
    BY <1>1, <1>2, <1>3 DEF r
  <2> QED
    BY <1>1, <1>2, <1>3, <2>1, <2>2, AlongStep DEF Working, Granted
<1> QED
  BY <1>3 DEF Checkout, Here


\* The sources of the lock are granted before anything else is done with it.
LEMMA CheckLockStep ==
  ASSUME Inv, NEW p \in Caller, Remember, CheckLock(p)
  PROVE  After(p)
<1>1. Sound(P(p), G(p), jobs[p].op, gens, seen[p]) /\ DOMAIN P(p) = ProcFields
  BY DEF Inv, Sound, Placed
<1>2. UNCHANGED <<gens, git>> /\ P(p).calls = <<>> /\ P(p).pc = "lock" /\ git'[p].pc = "idle"
  BY <1>1 DEF CheckLock, Here, Quietly, storeVars, Sound, Placed, G
<1>3. CASE End(p, "refused")
  BY <1>2, <1>3, EndStep
<1>4. CASE Preflight(p) /\ Go(p, [P(p) EXCEPT !.pc = "root"])
  <2> DEFINE r == [P(p) EXCEPT !.pc = "root"]
  <2>1. SameCall(P(p), r, {"pc", "calls", "todo", "dep", "polls"}) /\ r.pc = "root"
          /\ r.calls = <<>>
    BY <1>1, <1>2 DEF SameCall, ProcFields
  <2> HIDE DEF r
  <2>2. Go(p, r)
    BY <1>4 DEF r
  <2>3. Sources(P(p).rev) \subseteq P(p).grants
    BY <1>4 DEF Preflight, Sources
  <2> QED
    BY <1>2, <2>1, <2>2, <2>3, AlongStep DEF Working, Granted
<1> QED
  BY <1>3, <1>4 DEF CheckLock


\* The root is published, then its tree.
LEMMA RootStep ==
  ASSUME Inv, NEW p \in Caller, Remember, PublishRoot(p)
  PROVE  After(p)
<1>1. Sound(P(p), G(p), jobs[p].op, gens, seen[p]) /\ DOMAIN P(p) = ProcFields
  BY DEF Inv, Sound, Placed
<1> DEFINE next == [P(p) EXCEPT !.pc = "file", !.polls = 0]
<1>3. SameCall(P(p), next, {"pc", "todo", "polls"}) /\ next.pc = "file"
  BY <1>1 DEF SameCall, ProcFields
<1>4. P(p).pc = "root" /\ P(p).calls = <<>> /\ \E new : Publish(p, new, next)
  BY DEF PublishRoot, Here
<1> HIDE DEF next
<1> QED
  BY <1>3, <1>4, PublishStep DEF Granted


\* Likewise.
LEMMA FileStep ==
  ASSUME Inv, NEW p \in Caller, Remember, PublishFile(p)
  PROVE  After(p)
<1>1. Sound(P(p), G(p), jobs[p].op, gens, seen[p]) /\ DOMAIN P(p) = ProcFields
  BY DEF Inv, Sound, Placed
<1> DEFINE next == [P(p) EXCEPT !.pc = "tree", !.polls = 0]
<1>3. SameCall(P(p), next, {"pc", "todo", "polls"}) /\ next.pc = "tree"
  BY <1>1 DEF SameCall, ProcFields
<1>4. P(p).pc = "file" /\ P(p).calls = <<>> /\ \E new : Publish(p, new, next)
  BY DEF PublishFile, Here
<1> HIDE DEF next
<1> QED
  BY <1>3, <1>4, PublishStep DEF Granted


\* Likewise.
LEMMA TreeStep ==
  ASSUME Inv, NEW p \in Caller, Remember, PublishTree(p)
  PROVE  After(p)
<1>1. Sound(P(p), G(p), jobs[p].op, gens, seen[p]) /\ DOMAIN P(p) = ProcFields
  BY DEF Inv, Sound, Placed
<1> DEFINE next == [P(p) EXCEPT !.pc = "locals", !.polls = 0, !.todo = LockOf[P(p).rev].local]
<1>3. SameCall(P(p), next, {"pc", "todo", "polls"}) /\ next.pc = "locals"
  BY <1>1 DEF SameCall, ProcFields
<1>4. P(p).pc = "tree" /\ P(p).calls = <<>> /\ \E new : Publish(p, new, next)
  BY DEF PublishTree, Here
<1> HIDE DEF next
<1> QED
  BY <1>3, <1>4, PublishStep DEF Granted


\* A pack of the same checkout is published.
LEMMA LocalStep ==
  ASSUME Inv, NEW p \in Caller, Remember, PublishLocal(p)
  PROVE  After(p)
<1>1. Sound(P(p), G(p), jobs[p].op, gens, seen[p]) /\ DOMAIN P(p) = ProcFields
  BY DEF Inv, Sound, Placed
<1>2. PICK k \in P(p).todo :
        Publish(p, {Pack(k)}, [P(p) EXCEPT !.pc = "locals", !.polls = 0, !.todo = @ \ {k}])
  BY DEF PublishLocal
<1> DEFINE next == [P(p) EXCEPT !.pc = "locals", !.polls = 0, !.todo = @ \ {k}]
<1>3. SameCall(P(p), next, {"pc", "todo", "polls"}) /\ next.pc = "locals"
  BY <1>1 DEF SameCall, ProcFields
<1>4. P(p).pc = "local" /\ P(p).calls = <<>> /\ \E new : Publish(p, new, next)
  BY <1>2 DEF PublishLocal, Here
<1> HIDE DEF next
<1> QED
  BY <1>3, <1>4, PublishStep DEF Granted


\* A remote pack is published.
LEMMA RemoteStep ==
  ASSUME Inv, NEW p \in Caller, Remember, PublishRemote(p)
  PROVE  After(p)
<1>1. Sound(P(p), G(p), jobs[p].op, gens, seen[p]) /\ DOMAIN P(p) = ProcFields
  BY DEF Inv, Sound, Placed
<1> DEFINE next == [P(p) EXCEPT !.pc = "remotes", !.polls = 0, !.todo = @ \ {P(p).dep}]
<1>3. SameCall(P(p), next, {"pc", "todo", "polls"}) /\ next.pc = "remotes"
  BY <1>1 DEF SameCall, ProcFields
<1>4. P(p).pc = "remote" /\ P(p).calls = <<>> /\ \E new : Publish(p, new, next)
  BY DEF PublishRemote, Here
<1> HIDE DEF next
<1> QED
  BY <1>3, <1>4, PublishStep DEF Granted


\* The packs of the checkout are read one by one.
LEMMA ReadLocalStep ==
  ASSUME Inv, NEW p \in Caller, Remember, ReadLocal(p)
  PROVE  After(p)
<1>1. Sound(P(p), G(p), jobs[p].op, gens, seen[p]) /\ DOMAIN P(p) = ProcFields
  BY DEF Inv, Sound, Placed
<1>2. UNCHANGED <<gens, git>> /\ P(p).calls = <<>> /\ git'[p].pc = "idle"
  BY <1>1 DEF ReadLocal, Here, Quietly, storeVars, Sound, Placed, G
<1>3. CASE Go(p, [P(p) EXCEPT !.pc = "remotes", !.todo = LockOf[P(p).rev].remote])
        /\ P(p).pc = "locals"
  <2> DEFINE r == [P(p) EXCEPT !.pc = "remotes", !.todo = LockOf[P(p).rev].remote]
  <2>1. /\ SameCall(P(p), r, {"pc", "calls", "todo", "dep", "polls"})
        /\ r.pc = "remotes" /\ r.calls = <<>>
    BY <1>1, <1>2, <1>3 DEF SameCall, ProcFields
  <2> HIDE DEF r
  <2>2. Go(p, r)
    BY <1>1, <1>2, <1>3 DEF r
  <2> QED
    BY <1>1, <1>2, <1>3, <2>1, <2>2, AlongStep DEF Working, Granted
<1>4. CASE Go(p, [P(p) EXCEPT !.pc = "local", !.calls = <<"read">>]) /\ P(p).pc = "locals"
  <2> DEFINE r == [P(p) EXCEPT !.pc = "local", !.calls = <<"read">>]
  <2>1. /\ SameCall(P(p), r, {"pc", "calls", "todo", "dep", "polls"})
        /\ r.pc = "local" /\ r.calls = <<"read">>
    BY <1>1, <1>2, <1>4 DEF SameCall, ProcFields
  <2> HIDE DEF r
  <2>2. Go(p, r)
    BY <1>1, <1>2, <1>4 DEF r
  <2> QED
    BY <1>1, <1>2, <1>4, <2>1, <2>2, AlongStep DEF Working, Granted
<1> QED
  BY <1>3, <1>4 DEF ReadLocal, Here


\* The next remote pack is looked up.
LEMMA NextRemoteStep ==
  ASSUME Inv, NEW p \in Caller, Remember, NextRemote(p)
  PROVE  After(p)
<1>1. Sound(P(p), G(p), jobs[p].op, gens, seen[p]) /\ DOMAIN P(p) = ProcFields
  BY DEF Inv, Sound, Placed
<1>2. UNCHANGED <<gens, git>> /\ P(p).calls = <<>> /\ P(p).pc = "remotes" /\ git'[p].pc = "idle"
  BY <1>1 DEF NextRemote, Here, Quietly, storeVars, Sound, Placed, G
<1>3. CASE Go(p, [P(p) EXCEPT !.pc = "assemble"])
  <2> DEFINE r == [P(p) EXCEPT !.pc = "assemble"]
  <2>1. /\ SameCall(P(p), r, {"pc", "calls", "todo", "dep", "polls"})
        /\ r.pc = "assemble" /\ r.calls = <<>>
    BY <1>1, <1>2, <1>3 DEF SameCall, ProcFields
  <2> HIDE DEF r
  <2>2. Go(p, r)
    BY <1>1, <1>2, <1>3 DEF r
  <2> QED
    BY <1>1, <1>2, <1>3, <2>1, <2>2, AlongStep DEF Working, Granted
<1>4. CASE End(p, "panic")
  BY <1>2, <1>4, EndStep
<1>5. ASSUME NEW k, Go(p, [P(p) EXCEPT !.todo = @ \ {k}]) PROVE After(p)
  <2> DEFINE r == [P(p) EXCEPT !.todo = @ \ {k}]
  <2>1. /\ SameCall(P(p), r, {"pc", "calls", "todo", "dep", "polls"})
        /\ r.pc = "remotes" /\ r.calls = <<>>
    BY <1>1, <1>2, <1>5 DEF SameCall, ProcFields
  <2> HIDE DEF r
  <2>2. Go(p, r)
    BY <1>1, <1>2, <1>5 DEF r
  <2> QED
    BY <1>1, <1>2, <1>5, <2>1, <2>2, AlongStep DEF Working, Granted
<1>6. ASSUME NEW k, Go(p, [P(p) EXCEPT !.pc = "acquire", !.dep = k]) PROVE After(p)
  <2> DEFINE r == [P(p) EXCEPT !.pc = "acquire", !.dep = k]
  <2>1. /\ SameCall(P(p), r, {"pc", "calls", "todo", "dep", "polls"})
        /\ r.pc = "acquire" /\ r.calls = <<>>
    BY <1>1, <1>2, <1>6 DEF SameCall, ProcFields
  <2> HIDE DEF r
  <2>2. Go(p, r)
    BY <1>1, <1>2, <1>6 DEF r
  <2> QED
    BY <1>1, <1>2, <1>6, <2>1, <2>2, AlongStep DEF Working, Granted
<1> QED
  BY <1>3, <1>4, <1>5, <1>6 DEF NextRemote


\* A remote pack is acquired, unless somebody else has published it.
LEMMA AcquireStep ==
  ASSUME Inv, NEW p \in Caller, Remember, AcquireRemote(p)
  PROVE  After(p)
<1>1. Sound(P(p), G(p), jobs[p].op, gens, seen[p]) /\ DOMAIN P(p) = ProcFields
  BY DEF Inv, Sound, Placed
<1>2. UNCHANGED <<gens, git>> /\ P(p).calls = <<>> /\ git'[p].pc = "idle"
  BY <1>1 DEF AcquireRemote, Here, Quietly, storeVars, Sound, Placed, G
<1>3. CASE Go(p, [P(p) EXCEPT !.pc = "remotes"]) /\ P(p).pc = "acquire"
  <2> DEFINE r == [P(p) EXCEPT !.pc = "remotes"]
  <2>1. /\ SameCall(P(p), r, {"pc", "calls", "todo", "dep", "polls"})
        /\ r.pc = "remotes" /\ r.calls = <<>>
    BY <1>1, <1>2, <1>3 DEF SameCall, ProcFields
  <2> HIDE DEF r
  <2>2. Go(p, r)
    BY <1>1, <1>2, <1>3 DEF r
  <2> QED
    BY <1>1, <1>2, <1>3, <2>1, <2>2, AlongStep DEF Working, Granted
<1>4. CASE Go(p, [P(p) EXCEPT !.pc = "remote", !.calls = <<"init", "fetch", "read">>])
        /\ P(p).pc = "acquire"
  <2> DEFINE r == [P(p) EXCEPT !.pc = "remote", !.calls = <<"init", "fetch", "read">>]
  <2>1. /\ SameCall(P(p), r, {"pc", "calls", "todo", "dep", "polls"})
        /\ r.pc = "remote" /\ r.calls = <<"init", "fetch", "read">>
    BY <1>1, <1>2, <1>4 DEF SameCall, ProcFields
  <2> HIDE DEF r
  <2>2. Go(p, r)
    BY <1>1, <1>2, <1>4 DEF r
  <2> QED
    BY <1>1, <1>2, <1>4, <2>1, <2>2, AlongStep DEF Working, Granted
<1> QED
  BY <1>3, <1>4 DEF AcquireRemote, Here


\* The packs are loaded; prepare reads the head.
LEMMA AssembleStep ==
  ASSUME Inv, NEW p \in Caller, Remember, Assemble(p)
  PROVE  After(p)
<1>1. Sound(P(p), G(p), jobs[p].op, gens, seen[p]) /\ DOMAIN P(p) = ProcFields
  BY DEF Inv, Sound, Placed
<1>2. UNCHANGED <<gens, git>> /\ P(p).calls = <<>> /\ P(p).pc = "assemble" /\ git'[p].pc = "idle"
  BY <1>1 DEF Assemble, Here, Quietly, storeVars, Sound, Placed, G
<1>3. CASE End(p, "failed")
  BY <1>2, <1>3, EndStep
<1>4. CASE Go(p, [P(p) EXCEPT !.pc = "same"])
  <2> DEFINE r == [P(p) EXCEPT !.pc = "same"]
  <2>1. /\ SameCall(P(p), r, {"pc", "calls", "todo", "dep", "polls"})
        /\ r.pc = "same" /\ r.calls = <<>>
    BY <1>1, <1>2, <1>4 DEF SameCall, ProcFields
  <2> HIDE DEF r
  <2>2. Go(p, r)
    BY <1>1, <1>2, <1>4 DEF r
  <2> QED
    BY <1>1, <1>2, <1>4, <2>1, <2>2, AlongStep DEF Working, Granted
<1>5. CASE Go(p, [P(p) EXCEPT !.pc = "plan"])
  <2> DEFINE r == [P(p) EXCEPT !.pc = "plan"]
  <2>1. /\ SameCall(P(p), r, {"pc", "calls", "todo", "dep", "polls"})
        /\ r.pc = "plan" /\ r.calls = <<>>
    BY <1>1, <1>2, <1>5 DEF SameCall, ProcFields
  <2> HIDE DEF r
  <2>2. Go(p, r)
    BY <1>1, <1>2, <1>5 DEF r
  <2> QED
    BY <1>1, <1>2, <1>5, <2>1, <2>2, AlongStep DEF Working, Granted
<1>6. CASE jobs[p].op = "prepare" /\ Go(p, [P(p) EXCEPT !.pc = "plan", !.head = HeadNo])
  <2> DEFINE r == [P(p) EXCEPT !.pc = "plan", !.head = HeadNo]
  <2>1. SameCall(P(p), r, {"pc", "head"}) /\ r.pc = "plan"
    BY <1>1 DEF SameCall, ProcFields
  <2>2. proc'[p] = r /\ git'[p] = G(p)
    BY <1>2, <1>6 DEF Go, Inv, G
  <2> HIDE DEF r
  <2>3. r.calls = <<>> /\ r.result = P(p).result /\ r.rev = P(p).rev /\ r.grants = P(p).grants
    BY <1>2, <2>1 DEF SameCall, ProcFields
  <2>4. Placed(r, G(p), jobs[p].op)
    BY <1>1, <1>2, <1>6, <2>1, <2>3 DEF Sound, Placed, SameCall, Working, Granted
  <2>5. Covered(r)
    BY <1>1, <1>2, <2>1, <2>3 DEF Sound, Covered, Granted
  <2>6. /\ Based(r, jobs[p].op, gens') /\ Planned(r, jobs[p].op)
        /\ Resolved(r, G(p), jobs[p].op, gens', seen'[p]) /\ Linear(r, jobs[p].op, seen'[p])
    BY <1>6, <2>1 DEF Based, Planned, Resolved, Linear
  <2> QED
    BY <2>2, <2>4, <2>5, <2>6 DEF After, Sound
<1> QED
  BY <1>3, <1>4, <1>5, <1>6 DEF Assemble


\* An update with nothing to do has looked at the head again.
LEMMA NoChangeStep ==
  ASSUME Inv, NEW p \in Caller, Remember, NoChange(p)
  PROVE  After(p)
<1>1. Sound(P(p), G(p), jobs[p].op, gens, seen[p]) /\ DOMAIN P(p) = ProcFields
  BY DEF Inv, Sound, Placed
<1>2. UNCHANGED <<gens, git>> /\ P(p).calls = <<>> /\ P(p).pc = "same" /\ git'[p].pc = "idle"
  BY <1>1 DEF NoChange, Here, Quietly, storeVars, Sound, Placed, G
<1>3. CASE End(p, "stale")
  BY <1>2, <1>3, EndStep
<1>4. CASE ensure_head(p) /\ End(p, "nochange")
  <2> SUFFICES ASSUME jobs[p].op = "update" PROVE <<P(p).head, P(p).rev>> \in seen'[p]
    BY <1>2, <1>4, EndStep
  <2>1. PICK i \in P(p).head..Len(gens) : <<i, P(p).rev>> \in seen[p]
    BY <1>1, <1>2 DEF Sound, Resolved, Working, Granted
  <2>2. i = P(p).head
    BY <1>4, <2>1, GensSeq DEF ensure_head, HeadNo, Inv
  <2> QED
    BY <2>1, <2>2, Remembers
<1> QED
  BY <1>3, <1>4 DEF NoChange


\* The plan holds what the call has found.
LEMMA PrepareStep ==
  ASSUME Inv, NEW p \in Caller, Remember, Prepare(p)
  PROVE  After(p)
<1>1. Sound(P(p), G(p), jobs[p].op, gens, seen[p]) /\ DOMAIN P(p) = ProcFields
  BY DEF Inv, Sound, Placed
<1>2. UNCHANGED <<gens, git>> /\ P(p).calls = <<>> /\ P(p).pc = "plan" /\ git'[p].pc = "idle"
  BY <1>1 DEF Prepare, Here, Quietly, Sound, Placed, G
<1>3. ASSUME NEW res \in {"busy", "stale"}, End(p, res) PROVE After(p)
  BY <1>2, <1>3, EndStep
<1>4. CASE Go(p, [P(p) EXCEPT !.polls = @ + 1])
  <2> DEFINE r == [P(p) EXCEPT !.polls = @ + 1]
  <2>1. /\ SameCall(P(p), r, {"pc", "calls", "todo", "dep", "polls"})
        /\ r.pc = "plan" /\ r.calls = <<>>
    BY <1>1, <1>2, <1>4 DEF SameCall, ProcFields
  <2> HIDE DEF r
  <2>2. Go(p, r)
    BY <1>1, <1>2, <1>4 DEF r
  <2> QED
    BY <1>1, <1>2, <1>4, <2>1, <2>2, AlongStep DEF Working, Granted
<1> DEFINE pl == [expected |-> P(p).head, rev |-> P(p).rev, grants |-> P(p).grants,
                  by |-> jobs[p].op]
<1>5. CASE Go(p, [P(p) EXCEPT !.pc = "commit", !.plan = pl, !.polls = 0])
  <2> DEFINE r == [P(p) EXCEPT !.pc = "commit", !.plan = pl, !.polls = 0]
  <2>1. SameCall(P(p), r, {"pc", "plan", "polls"}) /\ r.pc = "commit" /\ r.plan = pl
    BY <1>1 DEF SameCall, ProcFields
  <2>2. proc'[p] = r /\ git'[p] = G(p)
    BY <1>2, <1>5 DEF Go, Inv, G
  <2> HIDE DEF r
  <2>3. /\ r.calls = <<>> /\ r.result = P(p).result /\ r.rev = P(p).rev /\ r.grants = P(p).grants
        /\ r.head = P(p).head
    BY <1>2, <2>1 DEF SameCall, ProcFields
  <2>4. Placed(r, G(p), jobs[p].op)
    BY <1>1, <1>2, <2>1, <2>3 DEF Sound, Placed, SameCall, Working, Granted
  <2>5. Covered(r) /\ Based(r, jobs[p].op, gens')
    BY <1>1, <1>2, <2>1, <2>3 DEF Sound, Covered, Based, Granted, Working
  <2>6. Planned(r, jobs[p].op)
    BY <2>1, <2>3 DEF Planned
  <2>7. Sound(P(p), G(p), jobs[p].op, gens', seen'[p])
    BY <1>2, Waiting
  <2>8. Resolved(r, G(p), jobs[p].op, gens', seen'[p]) /\ Linear(r, jobs[p].op, seen'[p])
    BY <1>2, <2>1, <2>3, <2>7 DEF Sound, Resolved, Linear, Granted, Working
  <2> QED
    BY <2>2, <2>4, <2>5, <2>6, <2>8 DEF After, Sound
<1> QED
  BY <1>3, <1>4, <1>5 DEF Prepare


\* An initial prepare starts with the grants it was given.
LEMMA BeginPrepareStep ==
  ASSUME Inv, NEW p \in Caller, Remember, BeginPrepare(p)
  PROVE  After(p)
<1>1. Sound(P(p), G(p), jobs[p].op, gens, seen[p]) /\ DOMAIN P(p) = ProcFields
  BY DEF Inv, Sound, Placed
<1> DEFINE r == [P(p) EXCEPT !.pc = "checkout", !.calls = <<"resolve">>, !.grants = jobs[p].grants]
<1>2. /\ UNCHANGED <<gens, git>> /\ P(p).pc = "idle" /\ jobs[p].op = "prepare"
      /\ proc'[p] = r /\ git'[p] = G(p)
  BY DEF BeginPrepare, Quietly, storeVars, Go, Inv, G
<1>3. SameCall(P(p), r, {"pc", "calls", "grants"}) /\ r.pc = "checkout" /\ r.calls = <<"resolve">>
  BY <1>1 DEF SameCall, ProcFields
<1> HIDE DEF r
<1>4. r.result = P(p).result
  BY <1>3 DEF SameCall, ProcFields
<1>5. Placed(r, G(p), jobs[p].op)
  BY <1>1, <1>2, <1>3, <1>4 DEF Sound, Placed, SameCall, Working, Granted, CallLists
<1>6. /\ Based(r, jobs[p].op, gens') /\ Planned(r, jobs[p].op) /\ Covered(r)
      /\ Resolved(r, G(p), jobs[p].op, gens', seen'[p]) /\ Linear(r, jobs[p].op, seen'[p])
  BY <1>2, <1>3 DEF Based, Planned, Covered, Resolved, Linear, Granted
<1> QED
  BY <1>2, <1>5, <1>6 DEF After, Sound


\* An update starts from the head, with the grants the head carries.
LEMMA BeginUpdateStep ==
  ASSUME Inv, NEW p \in Caller, Remember, BeginUpdate(p)
  PROVE  After(p)
<1>1. Sound(P(p), G(p), jobs[p].op, gens, seen[p]) /\ DOMAIN P(p) = ProcFields
  BY DEF Inv, Sound, Placed
<1>2. /\ UNCHANGED <<gens, git>> /\ P(p).pc = "idle" /\ jobs[p].op = "update" /\ git'[p] = G(p)
      /\ G(p).pc = "idle"
  BY <1>1 DEF BeginUpdate, Quietly, storeVars, Inv, G, Sound, Placed
<1>3. CASE End(p, "refused")
  BY <1>2, <1>3, EndStep
<1> DEFINE r == [P(p) EXCEPT !.pc = "checkout", !.calls = <<"resolve">>, !.head = HeadNo,
                             !.grants = gens[HeadNo].grants]
<1>4. CASE HeadNo # 0 /\ Go(p, r)
  <2>1. /\ SameCall(P(p), r, {"pc", "calls", "head", "grants"}) /\ r.pc = "checkout"
        /\ r.calls = <<"resolve">> /\ r.head = HeadNo /\ r.grants = gens[HeadNo].grants
    BY <1>1 DEF SameCall, ProcFields
  <2>2. proc'[p] = r
    BY <1>4 DEF Go, Inv
  <2> HIDE DEF r
  <2>3. r.result = P(p).result
    BY <2>1 DEF SameCall, ProcFields
  <2>4. Placed(r, G(p), jobs[p].op)
    BY <1>1, <1>2, <2>1, <2>3 DEF Sound, Placed, SameCall, Working, Granted, CallLists
  <2>5. HeadNo \in 1..Len(gens)
    BY <1>4, GensSeq DEF Inv, HeadNo
  <2>6. /\ Based(r, jobs[p].op, gens') /\ Planned(r, jobs[p].op) /\ Covered(r)
        /\ Resolved(r, G(p), jobs[p].op, gens', seen'[p])
    BY <1>2, <2>1, <2>5 DEF Based, Planned, Covered, Resolved, Granted
  <2>7. Linear(r, jobs[p].op, seen'[p])
    BY <1>1, <1>2, <2>3 DEF Sound, Placed, Linear
  <2> QED
    BY <1>2, <2>2, <2>4, <2>6, <2>7 DEF After, Sound
<1> QED
  BY <1>3, <1>4 DEF BeginUpdate


\* A subprocess of the call starts; ls-remote answers with the selected commit.
LEMMA CallStep ==
  ASSUME Inv, NEW p \in Caller, Remember, Call(p)
  PROVE  After(p) /\ Good(git'[p]) /\ \E g : git' = [git EXCEPT ![p] = g]
<1>1. Sound(P(p), G(p), jobs[p].op, gens, seen[p]) /\ DOMAIN P(p) = ProcFields
  BY DEF Inv, Sound, Placed
<1>2. /\ P(p).calls \in CallLists \ {<<>>} /\ P(p).pc \in Working /\ UNCHANGED gens
      /\ G(p).pc = "idle"
  BY <1>1 DEF Call, storeVars, Sound, Placed
<1>3. Head(P(p).calls) \in Stages /\ (Head(P(p).calls) = "resolve" <=> P(p).calls = <<"resolve">>)
  <2>1. Head(<<"resolve">>) = "resolve" /\ Head(<<"read">>) = "read"
        /\ Head(<<"fetch", "read">>) = "fetch" /\ Head(<<"init", "fetch", "read">>) = "init"
    OBVIOUS
  <2> QED
    BY <1>2, <2>1 DEF CallLists, Stages
<1>4. PICK g : Good(g) /\ git' = [git EXCEPT ![p] = g] /\ g.pc # "idle"
  BY <1>3, CallGood DEF Call
<1>5. git'[p] = g
  BY <1>4 DEF Inv
<1>6. Sound(P(p), G(p), jobs[p].op, gens', seen'[p])
  BY <1>2, Waiting
<1>7. CASE P(p).calls # <<"resolve">>
  <2>1. proc'[p] = P(p)
    BY <1>3, <1>7 DEF Call, P
  <2>2. Sound(P(p), g, jobs[p].op, gens', seen'[p])
    BY <1>2, <1>6, <1>7 DEF Sound, Placed, Resolved
  <2> QED
    BY <1>4, <1>5, <2>1, <2>2 DEF After
<1>8. CASE P(p).calls = <<"resolve">>
  <2> DEFINE r == [P(p) EXCEPT !.rev = Selected]
  <2>1. SameCall(P(p), r, {"rev"}) /\ r.rev = Selected
    BY <1>1 DEF SameCall, ProcFields
  <2>2. proc'[p] = r
    BY <1>3, <1>8 DEF Call, Go, Inv
  <2> HIDE DEF r
  <2>3. /\ r.pc = P(p).pc /\ r.calls = P(p).calls /\ r.head = P(p).head /\ r.grants = P(p).grants
        /\ r.plan = P(p).plan /\ r.result = P(p).result
    BY <2>1 DEF SameCall, ProcFields
  <2>4. P(p).pc = "checkout"
    BY <1>1, <1>8 DEF Sound, Placed
  <2>5. Placed(r, g, jobs[p].op)
    BY <1>6, <1>8, <2>1, <2>3 DEF Sound, Placed, SameCall
  <2>6. Based(r, jobs[p].op, gens') /\ Covered(r) /\ Planned(r, jobs[p].op)
    BY <1>6, <2>3, <2>4 DEF Sound, Based, Covered, Planned, Granted
  <2>7. Linear(r, jobs[p].op, seen'[p])
    BY <1>6, <2>3, <2>4 DEF Sound, Placed, Linear
  <2>8. Resolved(r, g, jobs[p].op, gens', seen'[p])
    <3> SUFFICES ASSUME jobs[p].op = "update"
                 PROVE  \E i \in r.head..Len(gens') : <<i, r.rev>> \in seen'[p]
      BY DEF Resolved
    <3>1. <<Len(gens), Selected>> \in seen'[p]
      BY <2>2, <2>3, <2>4, Remembers DEF P
    <3>2. Len(gens) \in r.head..Len(gens')
      BY <1>1, <1>2, <2>3, <2>4, GensSeq DEF Sound, Based, Working, Inv
    <3> QED
      BY <2>1, <3>1, <3>2
  <2> QED
    BY <1>4, <1>5, <2>2, <2>5, <2>6, <2>7, <2>8 DEF After, Sound
<1> QED
  BY <1>7, <1>8

\* A subprocess has returned.
LEMMA ReturnStep ==
  ASSUME Inv, NEW p \in Caller, Remember, CallReturns(p)
  PROVE  After(p) /\ Good(git'[p]) /\ \E g : git' = [git EXCEPT ![p] = g]
<1>1. Sound(P(p), G(p), jobs[p].op, gens, seen[p]) /\ DOMAIN P(p) = ProcFields
  BY DEF Inv, Sound, Placed
<1>2. /\ P(p).calls \in CallLists \ {<<>>} /\ P(p).pc \in Working /\ UNCHANGED gens
      /\ G(p).pc = "done" /\ git' = [git EXCEPT ![p] = Quiet] /\ git'[p] = Quiet
  BY <1>1 DEF CallReturns, Returned, storeVars, Sound, Placed, Inv
<1>3. Good(Quiet) /\ Quiet.pc = "idle"
  BY QuietGood DEF Quiet
<1>4. Sound(P(p), G(p), jobs[p].op, gens', seen'[p])
  BY <1>2, Waiting
<1>5. CASE End(p, "failed")
  BY <1>2, <1>3, <1>5, EndStep
<1>6. CASE Go(p, [P(p) EXCEPT !.calls = Tail(@)])
  <2> DEFINE r == [P(p) EXCEPT !.calls = Tail(@)]
  <2>1. SameCall(P(p), r, {"calls"}) /\ r.calls = Tail(P(p).calls)
    BY <1>1 DEF SameCall, ProcFields
  <2>2. proc'[p] = r
    BY <1>6 DEF Go, Inv
  <2> HIDE DEF r
  <2>3. /\ r.pc = P(p).pc /\ r.rev = P(p).rev /\ r.head = P(p).head /\ r.grants = P(p).grants
        /\ r.plan = P(p).plan /\ r.result = P(p).result
    BY <2>1 DEF SameCall, ProcFields
  <2>4. r.calls \in CallLists \ {<<"resolve">>} /\ (P(p).calls = <<"resolve">> => r.calls = <<>>)
    <3>1. /\ Tail(<<"resolve">>) = <<>> /\ Tail(<<"read">>) = <<>>
          /\ Tail(<<"fetch", "read">>) = <<"read">>
          /\ Tail(<<"init", "fetch", "read">>) = <<"fetch", "read">>
          /\ <<>> # <<"resolve">> /\ <<"read">> # <<"resolve">>
            /\ <<"fetch", "read">> # <<"resolve">>
      OBVIOUS
    <3> QED
      BY <1>2, <2>1, <3>1 DEF CallLists
  <2>5. Placed(r, Quiet, jobs[p].op)
    BY <1>2, <1>3, <1>4, <2>1, <2>3, <2>4 DEF Sound, Placed, SameCall, Working, Granted
  <2>6. Based(r, jobs[p].op, gens') /\ Covered(r) /\ Planned(r, jobs[p].op)
    BY <1>4, <2>3 DEF Sound, Based, Covered, Planned
  <2>7. Linear(r, jobs[p].op, seen'[p]) /\ Resolved(r, Quiet, jobs[p].op, gens', seen'[p])
    BY <1>2, <1>4, <2>3 DEF Sound, Linear, Resolved
  <2> QED
    BY <1>2, <1>3, <2>2, <2>5, <2>6, <2>7 DEF After, Sound
<1> QED
  BY <1>2, <1>3, <1>5, <1>6 DEF CallReturns

-----------------------------------------------------------------------------
\* The history

LEMMA Appended ==
  ASSUME Legal(gens), NEW new, gens' = Append(gens, new),
         DOMAIN new = {"rev", "grants", "on", "by"}, new.by \in {"prepare", "update"},
         Sources(new.rev) \subseteq new.grants,
         new.by = "update" => Len(gens) > 0 /\ new.grants = gens[Len(gens)].grants
  PROVE  Legal(gens') /\ Grows(gens, gens')
<1> DEFINE n == Len(gens)
           S == {gens[i] : i \in DOMAIN gens}
<1>1. gens \in Seq(S) /\ n \in Nat /\ DOMAIN gens = 1..n
  BY GensSeq
<1>2. gens' \in Seq(S \cup {new}) /\ Len(gens') = n + 1 /\ DOMAIN gens' = 1..(n + 1)
      /\ gens'[n + 1] = new /\ \A i \in 1..n : gens'[i] = gens[i]
  <2>1. gens \in Seq(S \cup {new})
    BY <1>1
  <2> HIDE DEF S
  <2> QED
    BY <1>1, <2>1
<1>3. Grows(gens, gens')
  BY <1>1, <1>2 DEF Grows
<1>4. S \cup {new} \subseteq {gens'[i] : i \in DOMAIN gens'}
  BY <1>1, <1>2
<1> HIDE DEF S
<1>5. gens' \in Seq({gens'[i] : i \in DOMAIN gens'})
  <2> DEFINE T == {gens'[i] : i \in DOMAIN gens'}
  <2>1. S \cup {new} \subseteq T
    BY <1>4
  <2> HIDE DEF T
  <2>2. gens' \in Seq(T)
    BY <1>2, <2>1
  <2> QED
    BY <2>2 DEF T
<1>6. ASSUME NEW i \in DOMAIN gens'
      PROVE  LET g == gens'[i] IN
             /\ DOMAIN g = {"rev", "grants", "on", "by"} /\ g.by \in {"prepare", "update"}
             /\ Sources(g.rev) \subseteq g.grants
             /\ g.by = "update" => i > 1 /\ g.grants = gens'[i - 1].grants
  <2>1. CASE i \in 1..n
    <3>1. gens'[i] = gens[i] /\ i \in DOMAIN gens /\ (i > 1 => gens'[i - 1] = gens[i - 1])
      BY <1>1, <1>2, <2>1
    <3> QED
      BY <3>1 DEF Legal
  <2>2. CASE i = n + 1
    <3>1. gens'[i] = new /\ i - 1 = n /\ (n > 0 => n \in 1..n /\ i > 1)
      <4> HIDE DEF n
      <4> QED
        BY <1>1, <1>2, <2>2
    <3>2. n > 0 => gens'[n] = gens[n]
      BY <1>2, <3>1
    <3> QED
      BY <3>1, <3>2
  <2> QED
    BY <1>1, <1>2, <2>1, <2>2
<1> QED
  BY <1>3, <1>5, <1>6 DEF Legal

\* A commit installs what its plan says, at the head the plan was made for.
LEMMA CommitStep ==
  ASSUME Inv, NEW p \in Caller, Remember, Commit(p)
  PROVE  After(p) /\ Legal(gens') /\ Grows(gens, gens')
<1>1. Sound(P(p), G(p), jobs[p].op, gens, seen[p]) /\ DOMAIN P(p) = ProcFields /\ Legal(gens)
  BY DEF Inv, Sound, Placed
<1>2. /\ UNCHANGED git /\ P(p).calls = <<>> /\ P(p).pc = "commit" /\ git'[p].pc = "idle"
      /\ P(p).pc \in Working /\ P(p).pc \in Granted
  BY <1>1 DEF Commit, Here, Quietly, Sound, Placed, G, Working, Granted
<1>3. ASSUME UNCHANGED gens, NEW res \in {"stale", "busy"}, End(p, res)
      PROVE  After(p) /\ Legal(gens') /\ Grows(gens, gens')
  BY <1>1, <1>2, <1>3, EndStep, Standing
<1>4. CASE /\ MayCommit(P(p).plan) /\ gens' = Append(gens, Generation(P(p).plan))
           /\ End(p, "committed")
  <2> DEFINE new == Generation(P(p).plan)
             op == jobs[p].op
  <2>1. P(p).plan = [expected |-> P(p).head, rev |-> P(p).rev, grants |-> P(p).grants, by |-> op]
    BY <1>1, <1>2 DEF Sound, Planned
  <2>2. /\ DOMAIN new = {"rev", "grants", "on", "by"} /\ new.rev = P(p).rev
        /\ new.grants = P(p).grants /\ new.by = op /\ P(p).head = Len(gens)
    BY <1>4, <2>1 DEF Generation, MayCommit, HeadNo
  <2>3. op \in {"prepare", "update"} /\ Sources(P(p).rev) \subseteq P(p).grants
    BY <1>1, <1>2 DEF Sound, Placed, Covered
  <2>4. op = "update" => Len(gens) > 0 /\ P(p).grants = gens[Len(gens)].grants
    BY <1>1, <1>2, <2>2, GensSeq DEF Sound, Based
  <2> HIDE DEF new
  <2>5. gens' = Append(gens, new)
    BY <1>4 DEF new
  <2>6. Legal(gens') /\ Grows(gens, gens')
    BY <1>1, <2>2, <2>3, <2>4, <2>5, Appended
  <2>7. op = "update" => <<P(p).head, P(p).rev>> \in seen'[p]
    <3> SUFFICES ASSUME op = "update" PROVE <<P(p).head, P(p).rev>> \in seen'[p]
      OBVIOUS
    <3>1. PICK i \in P(p).head..Len(gens) : <<i, P(p).rev>> \in seen[p]
      BY <1>1, <1>2 DEF Sound, Resolved, Working, Granted
    <3>2. i = P(p).head
      BY <1>1, <2>2, <3>1, GensSeq
    <3> QED
      BY <3>1, <3>2, Remembers
  <2> QED
    BY <1>2, <1>4, <2>6, <2>7, EndGrows
<1> QED
  BY <1>3, <1>4 DEF Commit

\* Disabling and enabling keep the root and its grants.
LEMMA ToggleStep ==
  ASSUME Inv, NEW p \in Caller, Remember, Toggle(p)
  PROVE  After(p) /\ Legal(gens') /\ Grows(gens, gens')
<1>1. Sound(P(p), G(p), jobs[p].op, gens, seen[p]) /\ DOMAIN P(p) = ProcFields /\ Legal(gens)
  BY DEF Inv, Sound, Placed
<1> DEFINE old == gens[HeadNo]
           new == [old EXCEPT !.on = ~@]
<1>2. /\ P(p).pc = "idle" /\ jobs[p].op = "toggle" /\ UNCHANGED git /\ git'[p].pc = "idle"
      /\ End(p, "committed") /\ HeadNo > 0 /\ gens' = Append(gens, new)
  BY <1>1 DEF Toggle, Quietly, Sound, Placed, G
<1>3. HeadNo = Len(gens) /\ HeadNo \in DOMAIN gens
  BY <1>1, <1>2, GensSeq DEF HeadNo
<1>4. /\ DOMAIN old = {"rev", "grants", "on", "by"} /\ old.by \in {"prepare", "update"}
      /\ Sources(old.rev) \subseteq old.grants
  BY <1>1, <1>3 DEF Legal
<1> HIDE DEF old
<1>5. /\ DOMAIN new = {"rev", "grants", "on", "by"} /\ new.rev = old.rev
      /\ new.grants = old.grants /\ new.by = old.by
  BY <1>4
<1> HIDE DEF new
<1>6. Legal(gens') /\ Grows(gens, gens')
  BY <1>1, <1>2, <1>3, <1>4, <1>5, Appended DEF old
<1> QED
  BY <1>2, <1>6, EndGrows

\* A prune has no part in it.
LEMMA PruneStep ==
  ASSUME Inv, NEW p \in Caller, Remember, Prune(p) \/ Sweep(p)
  PROVE  After(p)
<1>1. Sound(P(p), G(p), jobs[p].op, gens, seen[p]) /\ DOMAIN P(p) = ProcFields
  BY DEF Inv, Sound, Placed
<1>2. /\ UNCHANGED <<gens, git>> /\ git'[p] = G(p) /\ git'[p].pc = "idle" /\ P(p).calls = <<>>
      /\ jobs[p].op = "prune" /\ P(p).pc \in {"idle", "sweep"}
  BY <1>1 DEF Prune, Sweep, Quietly, Sound, Placed, G, Here
<1>3. ASSUME NEW res \in {"refused", "swept"}, End(p, res) PROVE After(p)
  BY <1>2, <1>3, EndStep
<1>4. ASSUME NEW r, Go(p, r), DOMAIN r = ProcFields, r.pc \in {"idle", "sweep"}, r.calls = <<>>,
             r.result \in {"none", "swept"}
      PROVE  After(p)
  <2>1. proc'[p] = r
    BY <1>4 DEF Go, Inv
  <2>2. Placed(r, G(p), jobs[p].op)
    BY <1>2, <1>4 DEF Placed, Working, Granted, CallLists
  <2>3. /\ Based(r, jobs[p].op, gens') /\ Covered(r) /\ Planned(r, jobs[p].op)
        /\ Resolved(r, G(p), jobs[p].op, gens', seen'[p]) /\ Linear(r, jobs[p].op, seen'[p])
    BY <1>2, <1>4 DEF Based, Covered, Planned, Resolved, Linear, Granted
  <2> QED
    BY <1>2, <2>1, <2>2, <2>3 DEF After, Sound
<1>5. CASE Go(p, [P(p) EXCEPT !.pc = "sweep"])
  <2> DEFINE r == [P(p) EXCEPT !.pc = "sweep"]
  <2>1. DOMAIN r = ProcFields /\ r.pc = "sweep" /\ r.calls = <<>> /\ r.result = P(p).result
    BY <1>1, <1>2 DEF ProcFields
  <2>2. P(p).result \in {"none", "swept"}
    BY <1>1, <1>2 DEF Sound, Placed
  <2> HIDE DEF r
  <2>3. Go(p, r)
    BY <1>5 DEF r
  <2> QED
    BY <1>4, <2>1, <2>2, <2>3
<1>6. CASE Go(p, [Idle EXCEPT !.result = "swept"])
  <2> DEFINE r == [Idle EXCEPT !.result = "swept"]
  <2>1. DOMAIN r = ProcFields /\ r.pc = "idle" /\ r.calls = <<>> /\ r.result = "swept"
    BY DEF ProcFields, Idle
  <2> HIDE DEF r
  <2>2. Go(p, r)
    BY <1>6 DEF r
  <2> QED
    BY <1>4, <2>1, <2>2
<1> QED
  BY <1>3, <1>5, <1>6 DEF Prune, Sweep

-----------------------------------------------------------------------------
\* The whole system

LEMMA Initially == Init => Inv
<1> SUFFICES ASSUME Init PROVE Inv
  OBVIOUS
<1>1. PICK s \in Scenarios : gens = s.gens
  BY DEF Init
<1>2. Legal(gens)
  BY <1>1, ScenarioHistories
<1>3. proc = [p \in Caller |-> Idle] /\ git = [p \in Caller |-> Quiet]
  BY DEF Init, GitInit
<1>4. (\E S : git \in [Caller -> S]) /\ \E S : proc \in [Caller -> S]
  <2>1. git \in [Caller -> {Quiet}] /\ proc \in [Caller -> {Idle}]
    BY <1>3
  <2> QED
    BY <2>1
<1>5. ASSUME NEW p \in Caller PROVE Sound(P(p), G(p), jobs[p].op, gens, seen[p])
  <2>1. P(p) = Idle /\ G(p) = Quiet
    BY <1>3 DEF P, G
  <2>2. /\ DOMAIN Idle = ProcFields /\ Idle.pc = "idle" /\ Idle.calls = <<>> /\ Idle.result = "none"
        /\ Quiet.pc = "idle"
    BY DEF Idle, ProcFields, Quiet
  <2>3. Placed(Idle, Quiet, jobs[p].op)
    BY <2>2 DEF Placed, Working, Granted, CallLists
  <2>4. /\ Based(Idle, jobs[p].op, gens) /\ Covered(Idle) /\ Planned(Idle, jobs[p].op)
        /\ Resolved(Idle, Quiet, jobs[p].op, gens, seen[p]) /\ Linear(Idle, jobs[p].op, seen[p])
    BY <2>2 DEF Based, Covered, Planned, Resolved, Linear, Working, Granted
  <2> QED
    BY <2>1, <2>3, <2>4 DEF Sound
<1> QED
  BY <1>2, <1>3, <1>4, <1>5, QuietGood DEF Inv, G

\* A step of process p touches its call and its subprocess and no other's.
Touches(p) ==
  /\ (\E r : Go(p, r)) \/ UNCHANGED proc
  /\ UNCHANGED git \/ Call(p) \/ CallReturns(p)
  /\ UNCHANGED gens \/ Commit(p) \/ Toggle(p)
  /\ UNCHANGED jobs
LEMMA Touched == ASSUME NEW p \in Caller, Own(p) PROVE Touches(p)
<1>1. CASE BeginPrepare(p) \/ BeginUpdate(p) \/ Call(p) \/ CallReturns(p) \/ Checkout(p)
        \/ CheckLock(p)
  BY <1>1 DEF BeginPrepare, BeginUpdate, Call, CallReturns, Checkout, CheckLock, End, Quietly,
              storeVars, Touches
<1>2. CASE \/ PublishRoot(p) \/ PublishFile(p) \/ PublishTree(p) \/ ReadLocal(p) \/ PublishLocal(p)
           \/ NextRemote(p) \/ AcquireRemote(p) \/ PublishRemote(p)
  <2>1. ASSUME NEW new, NEW next, Publish(p, new, next) PROVE Touches(p)
    BY <2>1 DEF Publish, End, Quietly, Touches
  <2> QED
    BY <1>2, <2>1 DEF PublishRoot, PublishFile, PublishTree, ReadLocal, PublishLocal, NextRemote,
                      AcquireRemote, PublishRemote, End, Quietly, storeVars, Touches
<1>3. CASE Assemble(p) \/ NoChange(p) \/ Prepare(p) \/ Commit(p) \/ Toggle(p) \/ Prune(p)
        \/ Sweep(p)
  BY <1>3 DEF Assemble, NoChange, Prepare, Commit, Toggle, Prune, Sweep, End, Quietly, storeVars,
              Touches
<1> QED
  BY <1>1, <1>2, <1>3 DEF Own

\* What it makes of its own.
LEMMA OwnStep ==
  ASSUME Inv, NEW p \in Caller, Remember, Own(p)
  PROVE  After(p) /\ Good(git'[p]) /\ Legal(gens') /\ Grows(gens, gens')
<1>1. After(p)
  BY BeginPrepareStep, BeginUpdateStep, CallStep, ReturnStep, CheckoutStep, CheckLockStep, RootStep,
     FileStep, TreeStep, ReadLocalStep, LocalStep, NextRemoteStep, AcquireStep, RemoteStep,
     AssembleStep, NoChangeStep, PrepareStep, CommitStep, ToggleStep, PruneStep DEF Own
<1>2. Good(git'[p])
  BY Touched, CallStep, ReturnStep DEF Touches, Inv, G
<1>3. Legal(gens') /\ Grows(gens, gens')
  BY Touched, CommitStep, ToggleStep, Standing DEF Touches, Inv
<1> QED
  BY <1>1, <1>2, <1>3

LEMMA Step == Inv /\ [Next]_vars => Inv'
<1> SUFFICES ASSUME Inv, [Next]_vars PROVE Inv'
  OBVIOUS
<1> USE DEF P, G
<1>1. CASE UNCHANGED vars
  BY <1>1 DEF Inv, vars
<1>2. ASSUME NEW p \in Caller, Own(p), Remember PROVE Inv'
  <2>1. Touches(p) /\ After(p) /\ Good(git'[p]) /\ Legal(gens') /\ Grows(gens, gens')
    BY <1>2, Touched, OwnStep
  <2>2. PICK S, T : git \in [Caller -> S] /\ proc \in [Caller -> T]
    BY DEF Inv
  <2>3. (\E g : git' = [git EXCEPT ![p] = g]) /\ \E r : proc' = [proc EXCEPT ![p] = r]
    <3>1. [git EXCEPT ![p] = git[p]] = git /\ [proc EXCEPT ![p] = proc[p]] = proc
      BY <2>2
    <3> QED
      BY <1>2, <2>1, <3>1, CallStep, ReturnStep DEF Touches, Go
  <2>4. PICK g, r : git' = [git EXCEPT ![p] = g] /\ proc' = [proc EXCEPT ![p] = r]
    BY <2>3
  <2>5. git' \in [Caller -> S \cup {g}] /\ proc' \in [Caller -> T \cup {r}]
    BY <2>2, <2>4
  <2>6. ASSUME NEW q \in Caller
        PROVE  Good(git'[q]) /\ Sound(proc'[q], git'[q], jobs'[q].op, gens', seen'[q])
    <3>1. CASE q = p
      BY <2>1, <3>1 DEF Touches, After
    <3>2. CASE q # p
      <4>1. git'[q] = git[q] /\ proc'[q] = proc[q]
        BY <2>2, <2>4, <3>2
      <4>2. Sound(proc[q], git[q], jobs[q].op, gens', seen'[q])
        BY <1>2, <2>1, Beside
      <4> QED
        BY <2>1, <4>1, <4>2 DEF Inv, Touches
    <3> QED
      BY <3>1, <3>2
  <2> QED
    BY <2>1, <2>5, <2>6 DEF Inv
<1>3. ASSUME NEW p \in Caller, GitStep(p), UNCHANGED storeVars, UNCHANGED <<proc, jobs>>, Remember
      PROVE  Inv'
  <2>1. PICK g : Good(g) /\ Put(p, g) /\ G(p).pc \notin {"idle", "done"} /\ g.pc # "idle"
    BY <1>3, GitGood DEF Inv, Moves
  <2>2. PICK S : git \in [Caller -> S]
    BY DEF Inv
  <2>3. git' = [git EXCEPT ![p] = g] /\ git' \in [Caller -> S \cup {g}]
    BY <2>1, <2>2 DEF Put
  <2>4. ASSUME NEW q \in Caller
        PROVE  Good(git'[q]) /\ Sound(proc'[q], git'[q], jobs'[q].op, gens', seen'[q])
    <3>1. Sound(proc[q], git[q], jobs[q].op, gens', seen'[q])
      BY <1>3, Waiting DEF storeVars
    <3>2. CASE q = p
      <4>1. git'[q] = g
        BY <2>2, <2>3, <3>2
      <4>2. Sound(proc[q], g, jobs[q].op, gens', seen'[q])
        BY <2>1, <3>1, <3>2 DEF Sound, Placed, Resolved
      <4> QED
        BY <1>3, <2>1, <4>1, <4>2
    <3>3. CASE q # p
      BY <1>3, <2>2, <2>3, <3>1, <3>3 DEF Inv
    <3> QED
      BY <3>2, <3>3
  <2> QED
    BY <1>3, <2>3, <2>4 DEF Inv, storeVars
<1>4. ASSUME Move, Remember PROVE Inv'
  <2>1. UNCHANGED <<gens, proc, git, jobs>>
    BY <1>4 DEF Move, Quietly
  <2>2. ASSUME NEW q \in Caller PROVE Sound(proc[q], git[q], jobs[q].op, gens', seen'[q])
    BY <1>4, <2>1, Waiting
  <2> QED
    BY <2>1, <2>2 DEF Inv
<1> QED
  BY <1>1, <1>2, <1>3, <1>4 DEF Next

\* When a call returns, no process of its group is left, and one that succeeds stayed
\* within its budgets and read all it asked for: for any scripts, any limits and
\* any number of callers (supervise, kill_and_reap, spawn_drain).
THEOREM CallsSafe == Spec => []CallsAreConfined
<1>1. Inv => CallsAreConfined
  BY DEF Inv, Good, Dead, Kept, CallsAreConfined, Returned, Succeeded
<1> QED
  BY <1>1, Initially, Step, PTL DEF Spec

\* However the branch and the head move during an update, it is as good as
\* instantaneous (tracked_update, ensure_head, commit_v1).
THEOREM LinearSafe == Spec => []UpdatesLinearize
<1>1. Inv => UpdatesLinearize
  BY DEF Inv, Sound, Linear, UpdatesLinearize
<1> QED
  BY <1>1, Initially, Step, PTL DEF Spec

\* A history that prepares and updates make is covered by the last consent.
LEMMA ConsentKept ==
  ASSUME Legal(gens), NEW n \in DOMAIN gens
  PROVE  gens[n].grants = Consent(n)
<1> DEFINE asked == {i \in 1..n : gens[i].by = "prepare"}
<1>1. DOMAIN gens = 1..Len(gens) /\ Len(gens) \in Nat /\ n \in 1..Len(gens)
  BY GensSeq
<1>2. ASSUME NEW i \in 1..n
      PROVE  /\ gens[i].by \in {"prepare", "update"}
             /\ gens[i].by = "update" => i > 1 /\ gens[i].grants = gens[i - 1].grants
  <2>1. i \in DOMAIN gens
    BY <1>1
  <2> QED
    BY <2>1 DEF Legal
<1>3. 1 \in asked
  <2>1. 1 \in 1..n
    BY <1>1
  <2> QED
    BY <1>2, <2>1
<1>4. \E m \in asked : \A j \in asked : j <= m
  <2> DEFINE C == {n - i : i \in asked}
  <2>1. C \in SUBSET Nat /\ C # {}
    BY <1>1, <1>3
  <2>2. PICK c \in C : \A d \in C : c <= d
    BY <2>1, Least
  <2>3. PICK m \in asked : c = n - m
    OBVIOUS
  <2>4. ASSUME NEW j \in asked PROVE j <= m
    <3>1. n - m <= n - j
      BY <2>2, <2>3
    <3> QED
      BY <1>1, <3>1
  <2> QED
    BY <2>4
<1> DEFINE m == CHOOSE i \in asked : \A j \in asked : j <= i
<1>5. m \in asked /\ (\A j \in asked : j <= m) /\ Consent(n) = gens[m].grants
  BY <1>4 DEF Consent
<1> HIDE DEF m
<1>6. ASSUME gens[n].grants # gens[m].grants PROVE FALSE
  <2> DEFINE C == {i \in m..n : gens[i].grants # gens[m].grants}
  <2>1. C \in SUBSET Nat /\ n \in C
    BY <1>1, <1>5, <1>6
  <2>2. PICK k \in C : \A j \in C : k <= j
    BY <2>1, Least
  <2>3. k \in 1..n /\ k > m /\ k - 1 \in m..n /\ k - 1 < k
    BY <1>1, <1>5
  <2>4. gens[k].by = "update"
    BY <1>2, <1>5, <2>3
  <2>5. gens[k].grants = gens[k - 1].grants /\ k - 1 \notin C
    BY <1>2, <2>2, <2>3, <2>4
  <2> QED
    BY <2>3, <2>5
<1> QED
  BY <1>5, <1>6

\* What was not granted never becomes part of the namespace: for any branch,
\* locks and number of updates, each generation is locked to sources that the
\* last initial prepare granted (preflight_graph_grants, PersistedAuthorities).
THEOREM GrantsSafe == Spec => []GrantsNeverWiden
<1>1. Inv => GrantsNeverWiden
  <2> SUFFICES ASSUME Inv, NEW n \in DOMAIN gens PROVE Sources(gens[n].rev) \subseteq Consent(n)
    BY DEF GrantsNeverWiden
  <2>1. gens[n].grants = Consent(n)
    BY ConsentKept DEF Inv
  <2> QED
    BY <2>1 DEF Inv, Legal
<1> QED
  BY <1>1, Initially, Step, PTL DEF Spec
=============================================================================
