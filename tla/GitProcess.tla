---------------------------- MODULE GitProcess ----------------------------
(***************************************************************************)
(* One supervised Git subprocess per caller: GitRunner and supervise of    *)
(* git_acquisition/process.rs.  The child is a process group: the Git      *)
(* command, which leads it, and a transport helper it may fork, which      *)
(* shares its pipes.  Two threads of the caller drain stdout and stderr;   *)
(* for cat-file a worker thread speaks the batch protocol over stdin and   *)
(* stdout instead.  The calling thread polls the limits, the exit status   *)
(* and the clock, kills the group, joins the threads and judges.           *)
(*                                                                         *)
(* Output is counted in chunks and scratch growth in units.  What a child  *)
(* does is a script: how much it writes and grows, whether it forks, how   *)
(* it ends; nothing obliges it to make progress.  An unruly script writes  *)
(* or grows too much, answers badly, fails, or leaves its helper behind.   *)
(***************************************************************************)
EXTENDS Naturals

CONSTANTS Caller,        \* who runs Git
          OutputLimit,   \* MAX_CONTROL_OUTPUT_BYTES, in chunks
          TransferLimit, \* GitAcquisitionConfig::transfer_limit, in units
          PipeRoom,      \* how many chunks a pipe holds
          Wanted,        \* how many objects one reading of a pack asks for
          Children       \* per stage: the scripts a child may follow

VARIABLES git,    \* per caller: its Git subprocess
          unruly  \* how many unruly children may still come

-----------------------------------------------------------------------------
\* GitCommandStage, and the streams each stage drains under a limit.
Stages == {"resolve", "init", "fetch", "read"}
Streams == {"out", "err"}
Watched(stage) == IF stage = "read" THEN {"err"} ELSE Streams

\* The issues a call ends with: GitAcquisitionIssue.
Issues == {"timeout", "output", "transfer", "failed", "malformed"}

\* A script: chunks written, units of growth, a fork, a bad answer, the status.
Script == [out : Nat, err : Nat, grows : Nat, forks : BOOLEAN, bad : BOOLEAN,
           exit : {"ok", "failed", "xfsz", "never"}]
Orderly(c) ==
  /\ c.out <= OutputLimit /\ c.err <= OutputLimit /\ c.grows <= TransferLimit
  /\ ~c.bad /\ c.exit = "ok"

ASSUME GitConstants ==
  /\ OutputLimit \in Nat /\ TransferLimit \in Nat /\ PipeRoom \in Nat \ {0}
  /\ Wanted \in Nat \ {0} /\ Children \in [Stages -> SUBSET Script]

Quiet == [pc |-> "idle", stage |-> "none", child |-> "none", leader |-> "gone",
          helper |-> FALSE, pipe |-> [s \in Streams |-> 0], drained |-> [s \in Streams |-> 0],
          ended |-> Streams, over |-> {}, grown |-> 0, late |-> FALSE, left |-> 0,
          wait |-> "none", verdict |-> "none"]

GitInit == git = [p \in Caller |-> Quiet]

G(p) == git[p]
Put(p, r) == git' = [git EXCEPT ![p] = r] /\ UNCHANGED unruly
Running(g) == g.leader = "running"
\* Somebody still has the write end of the pipes.
Open(g) == Running(g) \/ g.helper

\* Command::spawn with process_group(0), and the threads beside it.
Spawn(p, stage) ==
  \E c \in Children[stage] :
    /\ ~Orderly(c) => unruly > 0
    /\ unruly' = IF Orderly(c) THEN unruly ELSE unruly - 1
    /\ git' = [git EXCEPT ![p] =
         [Quiet EXCEPT !.pc = "limits", !.stage = stage, !.child = c, !.leader = "running",
                       !.ended = {}, !.left = IF stage = "read" THEN Wanted ELSE 0]]

-----------------------------------------------------------------------------
\* The process group.  A full pipe blocks its writer.
ChildWrites(p, s) ==
  LET g == G(p) IN
  /\ Open(g) /\ g.child[s] > 0 /\ g.pipe[s] < PipeRoom
  /\ ~(g.stage = "read" /\ s = "out")
  /\ Put(p, [g EXCEPT !.child[s] = @ - 1, !.pipe[s] = @ + 1])

\* cat-file answers the outstanding request of the worker.
ChildAnswers(p) ==
  LET g == G(p) IN
  /\ Running(g) /\ g.stage = "read" /\ g.left > 0 /\ g.pipe["out"] = 0
  /\ g.child.out > 0
  /\ Put(p, [g EXCEPT !.child.out = @ - 1, !.pipe["out"] = 1])

\* Files of the fetched pack; the kernel stops one file at RLIMIT_FSIZE.
ChildGrows(p) ==
  LET g == G(p) IN
  /\ Open(g) /\ g.child.grows > 0
  /\ Put(p, [g EXCEPT !.child.grows = @ - 1, !.grown = @ + 1])

\* A helper cannot leave the group: install_process_group_confinement.
ChildForks(p) ==
  LET g == G(p) IN
  /\ Running(g) /\ g.child.forks
  /\ Put(p, [g EXCEPT !.child.forks = FALSE, !.helper = TRUE])

\* A leader exits that has done its part or left it to its helper, that nobody
\* listens to any more, or that fails.
ChildExits(p) ==
  LET g == G(p)
      finished == g.child.out = 0 /\ g.child.err = 0 /\ g.child.grows = 0
      unheard == g.stage = "read" /\ "out" \in g.ended
  IN
  /\ Running(g) /\ g.child.exit # "never"
  /\ \/ ~g.child.forks /\ (finished \/ g.helper)
     \/ unheard
     \/ g.child.exit = "failed"
  /\ Put(p, [g EXCEPT !.leader = "zombie"])

HelperExits(p) ==
  G(p).helper /\ Put(p, [G(p) EXCEPT !.helper = FALSE])

\* The wall clock passes the deadline of supervise.
Deadline(p) ==
  /\ G(p).pc \in {"limits", "exit", "deadline"} /\ ~G(p).late
  /\ Put(p, [G(p) EXCEPT !.late = TRUE])

-----------------------------------------------------------------------------
\* spawn_drain: a thread reads until nobody can write any more; past the limit
\* it keeps reading, retains nothing and raises its bit.
Drain(p, s) ==
  LET g == G(p) IN
  /\ s \notin g.ended /\ s \in Watched(g.stage)
  /\ IF g.pipe[s] > 0
     THEN Put(p, [g EXCEPT !.pipe[s] = @ - 1, !.drained[s] = @ + 1,
                           !.over = IF g.drained[s] + 1 > OutputLimit THEN @ \cup {s} ELSE @])
     ELSE ~Open(g) /\ Put(p, [g EXCEPT !.ended = @ \cup {s}])

\* read_pack_stream on its own thread: it asks for the commit, the trees and
\* the blobs one by one, and closes both pipes with its first error or its last
\* object.
WorkerReads(p) ==
  LET g == G(p) IN
  /\ g.stage = "read" /\ "out" \notin g.ended
  /\ IF g.pipe["out"] > 0
     THEN IF g.child.bad
          THEN Put(p, [g EXCEPT !.pipe["out"] = 0, !.ended = @ \cup {"out"}])
          ELSE Put(p, [g EXCEPT !.pipe["out"] = 0, !.left = @ - 1,
                                !.ended = IF g.left = 1 THEN @ \cup {"out"} ELSE @])
     ELSE ~Open(g) /\ Put(p, [g EXCEPT !.ended = @ \cup {"out"}])

-----------------------------------------------------------------------------
\* kill_process_group with SIGKILL, and the wait that reaps the leader.
KillGroup(g) == [g EXCEPT !.leader = "gone", !.helper = FALSE]

\* supervise ends with an issue: kill_and_reap.
Stop(p, issue) == Put(p, [KillGroup(G(p)) EXCEPT !.pc = "join", !.wait = issue])

\* The first part of an iteration: check_output_limit, then scratch_usage, which
\* itself gives up at the deadline.
PollLimits(p) ==
  LET g == G(p) IN
  /\ g.pc = "limits"
  /\ IF g.over # {} THEN Stop(p, "output")
     ELSE IF g.stage = "fetch" /\ g.late THEN Stop(p, "timeout")
     ELSE IF g.stage = "fetch" /\ g.grown > TransferLimit THEN Stop(p, "transfer")
     ELSE Put(p, [g EXCEPT !.pc = "exit"])

\* The final measurement after the exit, with the whole group dead.
Measured(g) ==
  CASE g.stage # "fetch" -> g.child.exit
    [] g.stage = "fetch" /\ g.late -> "timeout"
    [] g.stage = "fetch" /\ ~g.late /\ g.grown > TransferLimit -> "transfer"
    [] g.stage = "fetch" /\ ~g.late /\ g.grown <= TransferLimit ->
         IF g.child.exit # "ok" /\ (g.child.exit = "xfsz" \/ g.grown >= TransferLimit)
         THEN "transfer" ELSE g.child.exit

\* process_exited; then helpers are stopped from retaining pipes or changing
\* the scratch directory after supervision.
PollExit(p) ==
  LET g == G(p) IN
  /\ g.pc = "exit"
  /\ IF g.leader = "zombie"
     THEN Put(p, [KillGroup(g) EXCEPT !.pc = "join", !.wait = Measured(g)])
     ELSE Put(p, [g EXCEPT !.pc = "deadline"])

\* The clock, and the pause before the next iteration.
\* Mutant: the clock is read only where the scratch directory is measured.
PollDeadlineNot(p) == G(p).pc = "deadline" /\ Put(p, [G(p) EXCEPT !.pc = "limits"])
PollDeadline(p) ==
  /\ G(p).pc = "deadline"
  /\ IF G(p).late THEN Stop(p, "timeout") ELSE Put(p, [G(p) EXCEPT !.pc = "limits"])

\* The threads are joined; then the verdict of supervise counts, the limits once
\* more, the worker's error and the exit status, in this order.
\* Mutant: nobody looks at the limits after the joins.
JudgeWithoutLimits(g) ==
  IF g.wait \in Issues \ {"failed"} THEN g.wait
  ELSE IF g.stage = "read" /\ g.left > 0 THEN "malformed"
  ELSE IF g.wait = "ok" THEN "ok" ELSE "failed"
Judge(g) ==
  IF g.wait \in Issues \ {"failed"} THEN g.wait
  ELSE IF g.over # {} THEN "output"
  ELSE IF g.stage = "read" /\ g.left > 0 THEN "malformed"
  ELSE IF g.wait = "ok" THEN "ok" ELSE "failed"

Join(p) ==
  LET g == G(p) IN
  /\ g.pc = "join" /\ g.ended = Streams
  /\ Put(p, [g EXCEPT !.pc = "done", !.verdict = Judge(g)])

\* A call that has returned, with its verdict; the caller goes on.
Returned(p) == G(p).pc = "done"
Succeeded(p) == G(p).verdict = "ok"

\* What callers may rely on, in place of the steps: a call returns, with success
\* or an issue, and leaves nothing running (CallsAreConfined and CallsReturn).
CallAtOnce(p, stage) ==
  \E verdict \in {"ok", "failed"} :
    Put(p, [Quiet EXCEPT !.pc = "done", !.stage = stage, !.verdict = verdict])

-----------------------------------------------------------------------------
\* What the outside world does, and what the threads of the caller do.
ChildStep(p) ==
  \/ \E s \in Streams : ChildWrites(p, s)
  \/ ChildAnswers(p) \/ ChildGrows(p) \/ ChildForks(p) \/ ChildExits(p) \/ HelperExits(p)
ThreadStep(p) ==
  \/ \E s \in Streams : Drain(p, s)
  \/ WorkerReads(p)
Supervise(p) == PollLimits(p) \/ PollExit(p) \/ PollDeadline(p) \/ Join(p)
GitStep(p) == ChildStep(p) \/ Deadline(p) \/ ThreadStep(p) \/ Supervise(p)

\* The comments on supervise: when a call returns, no process of its group is
\* left to hold a pipe or to change the scratch directory, and a call that
\* succeeds stayed within its budgets to the last chunk and read all it asked for.
CallsAreConfined ==
  \A p \in Caller : Returned(p) =>
    /\ ~Open(G(p))
    /\ Succeeded(p) =>
         /\ \A s \in Watched(G(p).stage) : G(p).drained[s] <= OutputLimit
         /\ G(p).stage = "fetch" => G(p).grown <= TransferLimit
         /\ G(p).left = 0
=============================================================================
