------------------------------ MODULE MCCommit ------------------------------
\* Instances of Commit for TLC.
EXTENDS Commit

Op(k, s) == [kind |-> k, seen |-> s, in |-> 0, namesake |-> FALSE]

\* In the directory of operation d; below a missing one, with a namesake above.
In(d, k) == [kind |-> k, seen |-> "none", in |-> d, namesake |-> FALSE]
Missing == 9
Mistakable(d, k) == [In(d, k) EXCEPT !.namesake = TRUE]

\* A replacement, a creation and a removal share the phased schedule.
PhasedPlans ==
  {<<Op("file", "prior"), Op("file", "none"), Op("remove", "prior")>>,
   <<Op("file", "none"), Op("file", "prior")>>,
   <<Op("remove", "none"), Op("assert-exact", "prior"), Op("assert-absent", "none")>>}

\* A directory, symlink or tree before a file: the serial and phased schedules.
CanonicalPlans ==
  {<<Op("dir", "none"), Op("file", "prior")>>,
   <<Op("tree", "prior"), Op("link", "none"), Op("remove", "prior")>>}

\* Targets in a directory of the plan, and below one that is missing.
NestedPlans ==
  {<<Op("dir", "none"), In(1, "file"), In(1, "link")>>,
   <<Op("dir", "none"), In(1, "assert-absent"), In(1, "file"), Op("file", "prior")>>,
   <<In(Missing, "remove"), In(Missing, "assert-absent"), Op("file", "prior")>>}
MistakenPlans ==
  {<<Op("dir", "none"), Mistakable(1, "link")>>,
   <<Op("link", "none"), Mistakable(Missing, "remove")>>,
   <<Op("link", "none"), Mistakable(Missing, "assert-absent")>>}

\* Targets of every kind, for edits by somebody else.
EditedPlans ==
  {<<Op("link", "prior"), Op("file", "prior")>>,
   <<Op("file", "none"), Op("remove", "prior")>>,
   <<Op("dir", "none"), Op("assert-absent", "none"), Op("assert-exact", "prior")>>,
   <<Op("dir", "none"), In(1, "file")>>, <<Op("dir", "none"), In(1, "link")>>}

With(plans, k, c, i, e) ==
  [plan : plans, kills : {k}, cuts : {c}, ioErrs : {i}, edits : {e}]

\* Losses of power, and a failed system call.
Cuts == With(PhasedPlans \cup CanonicalPlans \cup NestedPlans \cup MistakenPlans, 0, 2, 1, 0)

\* Deaths of the process, with a failed system call or with edits.
Deaths ==
  With(PhasedPlans, 2, 0, 1, 0) \cup With(CanonicalPlans \cup NestedPlans \cup MistakenPlans, 2, 0, 0, 0)
    \cup With(EditedPlans, 1, 0, 0, 2)
=============================================================================
