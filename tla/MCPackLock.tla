----------------------------- MODULE MCPackLock -----------------------------
(* A root pack, a local pack and a git pack; two processes; a user.        *)
EXTENDS PackLock

M(pkg, declares, roots, deps, comps) ==
  [pkg |-> pkg, declares |-> declares, roots |-> roots, deps |-> deps, comps |-> comps]
Dep(s, pkg) == [src |-> s, pkg |-> pkg]

MCSource == {"root", "git", "local"}
MCOrder == <<"root", "git", "local">>
MCNames == <<"data", "extra", "malm-pack.kdl">>

\* The root's first manifest depends on both, the edited ones on the local
\* pack, twice, or on a package that is not there.  The local pack narrows its
\* capture, then captures all of it, with a component, then depends on itself.
MCManifests ==
  [root  |-> << M("r", {}, {}, <<Dep("git", "g"), Dep("local", "l")>>, FALSE),
                M("r", {}, {}, <<Dep("local", "l"), Dep("local", "l")>>, FALSE),
                M("r", {}, {}, <<Dep("local", "x")>>, FALSE) >>,
   git   |-> << M("g", {"data"}, {}, <<>>, FALSE) >>,
   local |-> << M("l", {}, {"data"}, <<>>, FALSE),
                M("l", {"data"}, {}, <<>>, TRUE),
                M("l", {}, {}, <<Dep("local", "l")>>, FALSE) >>]

MCFirst == [s \in {"root", "local"} |->
              [n \in Name |-> IF s = "root" /\ n = "extra" THEN Absent ELSE 1]]
MCDescriptors == [s \in {"root", "local"} |-> 2]
MCGitPack == [s \in Git |-> PackOf(s, [n \in Name |-> 1])]
MCInputs == {[granted |-> MCSource, scratch |-> TRUE, profile |-> TRUE],
             [granted |-> MCSource, scratch |-> FALSE, profile |-> FALSE]}

\* Locks a user may bring: of another git tree, and of older local data.
Other(s, v) == [t \in Source |-> PackOf(t, [n \in Name |->
                  IF t = s /\ n = "data" THEN v ELSE 1])]
LockFor(got) == [root |-> NodeId(Root, got[Root]), nodes |-> {LockedPack(s, got) : s \in Source}]
MCUserLocks == {LockFor(Other("git", 9)), LockFor(Other("local", 9))}
Symmetric == Permutations(Proc)
MCFaults == {[edits |-> 2, kills |-> 0, cuts |-> 0],
             [edits |-> 1, kills |-> 1, cuts |-> 0],
             [edits |-> 1, kills |-> 0, cuts |-> 1]}
=============================================================================
