---------------------------- MODULE MCTrackedRoot ----------------------------
(***************************************************************************)
(* Two processes, a branch that goes from c1 to c2 and back, and Git       *)
(* children that behave, or one that does not.                             *)
(***************************************************************************)
EXTENDS TrackedRoot, TLC

CONSTANTS p1, p2

BranchDef == <<"c1", "c2", "c1">>
UrlDef == [lib |-> "hub", ext |-> "elsewhere"]
LockDef == [c1 |-> [state |-> "good", remote |-> {"lib"}, local |-> {}],
            c2 |-> [state |-> "good", remote |-> {"lib", "ext"}, local |-> {"sub"}]]

Plain(out) == [out |-> out, err |-> 0, grows |-> 0, forks |-> FALSE, bad |-> FALSE, exit |-> "ok"]
ChildrenDef ==
  [resolve |-> {Plain(1), [Plain(1) EXCEPT !.err = 2], [Plain(1) EXCEPT !.exit = "failed"],
                [Plain(0) EXCEPT !.exit = "never"]},
   init |-> {Plain(0)},
   fetch |-> {[Plain(0) EXCEPT !.grows = 1, !.forks = TRUE],
              [Plain(0) EXCEPT !.grows = 2, !.forks = TRUE, !.err = 2],
              [Plain(0) EXCEPT !.exit = "never", !.forks = TRUE]},
   read |-> {Plain(1), [Plain(1) EXCEPT !.bad = TRUE], [Plain(0) EXCEPT !.err = 2]}]

All == {"hub", "elsewhere", "sub"}
First == [rev |-> "c1", grants |-> All, on |-> TRUE, by |-> "prepare"]
Shy == [First EXCEPT !.grants = {"hub"}]

Nothing == Job("none", {}, {}, FALSE)
Update == Job("update", {}, {"lib", "ext"}, FALSE)
Track(grants) == Job("prepare", grants, {"lib", "ext"}, FALSE)
Toggling == Job("toggle", {}, {}, FALSE)
Pruning == Job("prune", {}, {}, FALSE)
\* No scratch directory: every pack is expected in the store.
Bare == Job("update", {}, {}, FALSE)
Stepwise == [Update EXCEPT !.stepwise = TRUE]

S(a, b, history, stored, n) ==
  [jobs |-> p1 :> a @@ p2 :> b, gens |-> history, stored |-> stored, unruly |-> n]
Races ==
  {S(Update, b, <<g>>, k, 0) : g \in {First, Shy}, k \in {{}, {"ext"}},
                               b \in {Update, Track(All), Track({"hub"}), Toggling, Pruning}}
ScenariosDef ==
  Races \cup {S(Stepwise, Nothing, <<First>>, {}, 1), S(Track(All), Pruning, <<>>, {}, 0),
              S(Bare, Pruning, <<First>>, {"ext"}, 0)}
=============================================================================
