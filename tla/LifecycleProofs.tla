--------------------------- MODULE LifecycleProofs ---------------------------
(***************************************************************************)
(* Ownership, ledger, approvals and what can be undone, for any            *)
(* namespaces, paths, requests and bounds.                                 *)
(*                                                                         *)
(* Exclusive ownership: derive_owned_transition compares a plan with the   *)
(* claims of the heads as they are under the lock, not as they were when   *)
(* it was prepared. That is all the argument needs: nothing is assumed of  *)
(* the plans that wait, of what is on disk or of what the user does.       *)
(*                                                                         *)
(* The ledger: what a head claims to have installed is on disk, because a  *)
(* plan that is still fresh saw what is there now (Pinned), and a commit   *)
(* writes what the generation it selects desires at every path it owns     *)
(* (AppliedAt).                                                            *)
(*                                                                         *)
(* Approvals: a generation holds nothing that the user wrote (Ours), and   *)
(* what the user changed last is still the user's (Theirs), so a draft     *)
(* that found it at its first look saw the difference; if the second look  *)
(* found the same, the plan is flagged (AllFlagged) and is still the plan  *)
(* for what is on disk.                                                    *)
(*                                                                         *)
(* Undoing: every generation is valid and a disabled one restores an       *)
(* enabled one that exists (AllProper), so the ledger decides what prepare *)
(* finds: removal and disabling ask for the removal of Goes, enabling for  *)
(* the placement of all claims, and each guard fails exactly where the     *)
(* property says.                                                          *)
(***************************************************************************)
EXTENDS Lifecycle, TLAPS

\* Heads select generations that exist, and the history is a sequence; of what,
\* does not matter.
History ==
  /\ \E S : gens \in Seq(S)
  /\ head \in [Namespaces -> Nat \cup {None}]
  /\ \A n \in Namespaces : head[n] # None => head[n] \in 1..Len(gens)

\* The inductive invariant: exclusive ownership, and that a published generation
\* stays what it was.
IInv == History /\ ExclusiveOwnership

\* conflicting_claim finds exactly the overlaps that exclusive ownership forbids.
LEMMA NoConflict ==
  ASSUME NEW n, NEW p, ~ConflictingClaim(n, p),
         NEW m \in Namespaces, m # n, NEW q \in Claims(Selected(m))
  PROVE  p # q /\ ~IsAncestor(p, q) /\ ~IsAncestor(q, p)
  BY DEF ConflictingClaim, Overlaps

\* A namespace without a head, and a disabled one, own nothing.
LEMMA NoHeadNoClaims == Claims(Gen(None)) = {}
  BY DEF Claims, Effective, Gen, NoGeneration

\* At the start nobody has a head.
LEMMA Initially == Init => IInv
<1> SUFFICES ASSUME Init PROVE IInv
  OBVIOUS
<1>1. gens \in Seq({})
  BY DEF Init
<1>2. History
  BY <1>1 DEF Init, History
<1>3. \A n \in Namespaces : Claims(Selected(n)) = {}
  BY NoHeadNoClaims DEF Init, Selected
<1> QED
  BY <1>2, <1>3 DEF IInv, ExclusiveOwnership

\* A step that leaves heads and generations alone leaves the claims alone.
LEMMA SameLedger ==
  ASSUME IInv, UNCHANGED <<head, gens>>
  PROVE  IInv'
<1>1. History'
  BY DEF IInv, History
<1>2. \A n \in Namespaces : Claims(Selected(n))' = Claims(Selected(n))
  BY DEF Claims, Effective, Present, Selected, Gen
<1> QED
  BY <1>1, <1>2 DEF IInv, ExclusiveOwnership

\* The step of commit_v1 that selects a generation or removes a head.
LEMMA CommitStep ==
  ASSUME IInv, NEW pl, Commit(pl)
  PROVE  IInv'
<1> DEFINE new == [ns |-> pl.ns, prev |-> pl.expected, life |-> pl.life,
                   desired |-> pl.desired, restore |-> pl.restore, points |-> pl.points]
<1>1. PICK S : gens \in Seq(S)
  BY DEF IInv, History
<1>2. \/ head' = [head EXCEPT ![pl.ns] = None] /\ gens' = gens
      \/ head' = [head EXCEPT ![pl.ns] = Len(gens) + 1] /\ gens' = Append(gens, new)
  BY DEF Commit
<1>3. /\ gens' = gens \/ gens' \in Seq(S \cup {new})
      /\ Len(gens) \in Nat /\ Len(gens') \in {Len(gens), Len(gens) + 1}
      /\ \A i \in 1..Len(gens) : gens'[i] = gens[i]
  BY <1>1, <1>2
<1>4. History'
  <2>1. \E R : gens' \in Seq(R)
    BY <1>1, <1>3
  <2>2. head' \in [Namespaces -> Nat \cup {None}]
    BY <1>2, <1>3 DEF IInv, History
  <2>3. \A n \in Namespaces : head'[n] # None => head'[n] \in 1..Len(gens')
    BY <1>1, <1>2, <1>3 DEF IInv, History
  <2> QED
    BY <2>1, <2>2, <2>3 DEF History
<1>5. \A m \in Namespaces : m # pl.ns => Claims(Selected(m))' = Claims(Selected(m))
  <2> SUFFICES ASSUME NEW m \in Namespaces, m # pl.ns
               PROVE  Claims(Selected(m))' = Claims(Selected(m))
    OBVIOUS
  <2>1. head'[m] = head[m]
    BY <1>2 DEF IInv, History
  <2>2. Gen(head[m])' = Gen(head[m])
    BY <2>1, <1>3 DEF IInv, History, Gen, NoGeneration, Empty
  <2> QED
    BY <2>1, <2>2 DEF Claims, Effective, Present, Selected
<1>6. pl.ns \in Namespaces => Claims(Selected(pl.ns))' \subseteq Claims(pl)
  <2> SUFFICES ASSUME pl.ns \in Namespaces
               PROVE  Claims(Selected(pl.ns))' \subseteq Claims(pl)
    OBVIOUS
  <2>1. CASE head' = [head EXCEPT ![pl.ns] = None]
    <3>1. head'[pl.ns] = None
      BY <2>1 DEF IInv, History
    <3> QED
      BY <3>1 DEF Claims, Effective, Selected, Gen, NoGeneration
  <2>2. CASE head' = [head EXCEPT ![pl.ns] = Len(gens) + 1] /\ gens' = Append(gens, new)
    <3>1. head'[pl.ns] = Len(gens) + 1 /\ head'[pl.ns] # None
      BY <2>2, <1>3, NoneIsNoGeneration DEF IInv, History
    <3>2. gens'[head'[pl.ns]] = new
      BY <2>2, <3>1, <1>1
    <3>3. Selected(pl.ns)' = new
      BY <3>1, <3>2 DEF Selected, Gen
    <3> QED
      BY <3>3 DEF Claims, Effective, Present
  <2> QED
    BY <1>2, <2>1, <2>2
<1>7. \A p \in Claims(pl) : ~ConflictingClaim(pl.ns, p)
  BY DEF Commit, Admitted
<1>8. ASSUME pl.ns \in Namespaces, NEW p \in Claims(Selected(pl.ns))',
             NEW m \in Namespaces, m # pl.ns, NEW q \in Claims(Selected(m))'
      PROVE  p # q /\ ~IsAncestor(p, q) /\ ~IsAncestor(q, p)
  <2>1. ~ConflictingClaim(pl.ns, p)
    BY <1>6, <1>7, <1>8
  <2>2. q \in Claims(Selected(m))
    BY <1>5, <1>8
  <2> QED
    BY <2>1, <2>2, <1>8, NoConflict
<1>9. ExclusiveOwnership'
  <2> SUFFICES ASSUME NEW n \in Namespaces, NEW m \in Namespaces, n # m,
                      NEW p \in Claims(Selected(n))', NEW q \in Claims(Selected(m))'
               PROVE  p # q /\ ~IsAncestor(p, q) /\ ~IsAncestor(q, p)
    BY DEF ExclusiveOwnership, IsAncestor
  <2>1. CASE n = pl.ns
    BY <2>1, <1>8
  <2>2. CASE m = pl.ns
    BY <2>2, <1>8
  <2>3. CASE n # pl.ns /\ m # pl.ns
    BY <2>3, <1>5 DEF IInv, ExclusiveOwnership
  <2> QED
    BY <2>1, <2>2, <2>3
<1> QED
  BY <1>4, <1>9 DEF IInv

\* Every command begins with a draft.
LEMMA CommandBegins ==
  ASSUME NEW n \in Namespaces,
         \/ \E r \in Requests[n] : Reconcile(n, r)
         \/ Disable(n) \/ Enable(n) \/ RemoveNamespace(n)
         \/ \E g \in DOMAIN gens : Checkout(n, g) \/ AddRestorePoint(n, g) \/ DropRestorePoint(n, g)
  PROVE  \E d : Begin(d)
  BY DEF Reconcile, Disable, Enable, RemoveNamespace, Checkout, AddRestorePoint, DropRestorePoint

\* Every step keeps the invariant; all but a commit leave the ledger alone.
LEMMA Step == IInv /\ [Next]_vars => IInv'
<1> SUFFICES ASSUME IInv, [Next]_vars PROVE IInv'
  OBVIOUS
<1>1. CASE \E pl \in plans : Commit(pl)
  BY <1>1, CommitStep
<1>2. CASE \E pl \in plans : Discard(pl)
  BY <1>2, SameLedger DEF Discard
<1>3. CASE \E p \in Paths, s \in UserStates : UserEdit(p, s)
  BY <1>3, SameLedger DEF UserEdit
<1>4. CASE \E d : Begin(d)
  BY <1>4, SameLedger DEF Begin
<1>5. CASE Publish \/ Abandon
  BY <1>5, SameLedger DEF Publish, Abandon
<1>6. CASE UNCHANGED vars
  BY <1>6, SameLedger DEF vars
<1> QED
  BY <1>1, <1>2, <1>3, <1>4, <1>5, <1>6, CommandBegins DEF Next

\* No target of one namespace is, contains or lies in a target of another, for any
\* namespaces, paths and requests and any number of commits, waiting plans and edits
\* (OwnershipProjectionV1, derive_owned_transition).
THEOREM ExclusiveSafe == Spec => []ExclusiveOwnership
<1>1. Init => IInv
  BY Initially
<1>2. IInv /\ [Next]_vars => IInv'
  BY Step
<1>3. IInv => ExclusiveOwnership
  BY DEF IInv
<1> QED
  BY <1>1, <1>2, <1>3, PTL DEF Spec

-----------------------------------------------------------------------------
\* The ledger and what is on disk

\* What a waiting plan saw at its targets is still there: whatever changes an
\* entry or a file makes the plans that saw it stale.
Pinned ==
  /\ draft # None => draft.sel.ns \in Namespaces
  /\ \A pl \in plans : /\ pl.ns \in Namespaces
                       /\ \A o \in pl.ops : o.path \in Paths => o.seen = live[o.path]

\* Every path has a state.
LiveType == \E S : live \in [Paths -> S]

\* The inductive invariant of the ledger.
LedgerInv == IInv /\ LiveType /\ Pinned /\ LedgerMatchesLive

\* A commit selects what its plan says, and leaves the other heads alone.
LEMMA CommitSelects ==
  ASSUME History, NEW pl, pl.ns \in Namespaces, Commit(pl)
  PROVE  /\ \A m \in Namespaces : m # pl.ns => Selected(m)' = Selected(m)
         /\ Claims(Selected(pl.ns))' = Claims(pl)
         /\ \A p \in Claims(pl) : Selected(pl.ns)'.desired[p] = pl.desired[p]
<1> DEFINE new == [ns |-> pl.ns, prev |-> pl.expected, life |-> pl.life,
                   desired |-> pl.desired, restore |-> pl.restore, points |-> pl.points]
<1>1. PICK S : gens \in Seq(S)
  BY DEF History
<1>2. ASSUME NEW m \in Namespaces, m # pl.ns PROVE Selected(m)' = Selected(m)
  <2>1. head'[m] = head[m]
    BY <1>2 DEF Commit, History
  <2>2. \A i \in 1..Len(gens) : gens'[i] = gens[i]
    BY <1>1 DEF Commit
  <2> QED
    BY <1>2, <2>1, <2>2 DEF Selected, Gen, History, NoGeneration, Empty
<1>3. CASE pl.trans = "removal"
  <2>1. head'[pl.ns] = None
    BY <1>3 DEF Commit, History
  <2>2. pl.life = "disabled"
    BY <1>3 DEF Commit, Admitted, TransitionValid
  <2>3. Claims(Selected(pl.ns))' = {} /\ Claims(pl) = {}
    BY <2>1, <2>2 DEF Claims, Effective, Selected, Gen, NoGeneration
  <2> QED
    BY <1>2, <2>3
<1>4. CASE pl.trans # "removal"
  <2>1. head' = [head EXCEPT ![pl.ns] = Len(gens) + 1] /\ gens' = Append(gens, new)
    BY <1>4 DEF Commit
  <2>2. head'[pl.ns] = Len(gens) + 1 /\ head'[pl.ns] # None
    BY <1>1, <2>1, NoneIsNoGeneration DEF History
  <2>3. gens'[head'[pl.ns]] = new
    BY <1>1, <2>1, <2>2
  <2>4. Selected(pl.ns)' = new
    BY <2>2, <2>3 DEF Selected, Gen
  <2>5. Claims(Selected(pl.ns))' = Claims(pl)
    BY <2>4 DEF Claims, Effective, Present
  <2> QED
    BY <1>2, <2>4, <2>5
<1> QED
  BY <1>3, <1>4

\* A present target after a transition is claimed by it, and only those are.
LEMMA AfterClaimed ==
  ASSUME NEW prev, NEW next, NEW p
  PROVE  /\ Present(After(prev, next, p)) =>
              p \in Claims(next) /\ After(prev, next, p) = next.desired[p]
         /\ p \in Claims(next) => Present(After(prev, next, p))
<1>1. \A s : ~Present(Tombstone(s))
  BY DEF Present, Tombstone, State
<1> QED
  BY <1>1 DEF After, Claims, Effective

\* The same for what is there before it.
LEMMA BeforeClaimed ==
  ASSUME NEW prev, NEW next, NEW p
  PROVE  /\ Present(Before(prev, next, p)) =>
              p \in Claims(prev) /\ Before(prev, next, p) = prev.desired[p]
         /\ p \in Claims(prev) => Present(Before(prev, next, p))
<1>1. \A s : ~Present(Tombstone(s))
  BY DEF Present, Tombstone, State
<1> QED
  BY <1>1 DEF Before, Claims, Effective

\* A directory is present.
LEMMA DirectoryPresent == Present(Directory)
  BY Contents DEF Present, Directory, State

\* The mutations of a transition, one by one.
LEMMA Mutations ==
  ASSUME NEW prev, NEW next, NEW p
  PROVE  LET m == Mutation(prev, next, p) IN
         /\ m \in {"place", "assert"} => p \in Claims(next)
         /\ m = "remove" => p \notin Claims(next)
         /\ m = "none" => \/ p \notin Claims(prev) /\ p \notin Claims(next)
                          \/ /\ p \in Claims(prev) /\ p \notin Claims(next)
                             /\ prev.desired[p] = Directory
         /\ p \in Claims(prev) \cup Claims(next) => p \in Slots(prev, next)
<1>1. p \in Claims(prev) \cup Claims(next) => p \in Slots(prev, next)
  BY DEF Claims, Slots
<1>2. CASE Releases(prev, next, p)
  <2>1. Before(prev, next, p) # After(prev, next, p) /\ ~Present(After(prev, next, p))
    BY <1>2, DirectoryPresent DEF Releases
  <2>2. Mutation(prev, next, p) = "none"
    BY <1>2, <2>1 DEF Mutation
  <2> QED
    BY <1>1, <1>2, <2>2, AfterClaimed, BeforeClaimed, DirectoryPresent DEF Releases
<1>3. CASE ~Releases(prev, next, p) /\ Before(prev, next, p) = After(prev, next, p)
  <2>1. Mutation(prev, next, p) = IF Present(After(prev, next, p)) THEN "assert" ELSE "none"
    BY <1>3 DEF Mutation
  <2> QED
    BY <1>1, <1>3, <2>1, AfterClaimed, BeforeClaimed
<1>4. CASE ~Releases(prev, next, p) /\ Before(prev, next, p) # After(prev, next, p)
  <2>1. Mutation(prev, next, p) = IF Present(After(prev, next, p)) THEN "place" ELSE "remove"
    BY <1>4 DEF Mutation
  <2> QED
    BY <1>1, <2>1, AfterClaimed
<1> QED
  BY <1>2, <1>3, <1>4

\* What a commit does at one path, by what its transition demands there.
LEMMA AppliedAt ==
  ASSUME LedgerInv, NEW pl \in plans, Commit(pl), NEW p \in Paths \ edited'
  PROVE  /\ p \in Claims(pl) => live'[p] = pl.desired[p]
         /\ p \notin Claims(pl) /\ p \in Claims(Selected(pl.ns)) =>
              live'[p] \in {Nothing, Directory}
         /\ p \notin Claims(pl) /\ p \notin Claims(Selected(pl.ns)) => live'[p] = live[p]
<1> DEFINE n == pl.ns
           prev == Selected(n)
           m == Mutation(prev, pl, p)
<1>0. n \in Namespaces
  BY DEF LedgerInv, Pinned
<1>1. prev = Gen(pl.expected)
  BY DEF Commit, Admitted, HeadExpected, Selected
<1>2. ManifestValid(prev, pl, pl.ops)
  BY <1>1 DEF Commit, Admitted
<1>3. live' = Applied(pl) /\ edited' = edited \ Changed(pl)
  BY DEF Commit
<1>4. live'[p] = IF \E o \in pl.ops : o.path = p /\ o.op = "place" THEN After(prev, pl, p)
                 ELSE IF p \in Changed(pl) THEN Nothing ELSE live[p]
  BY <1>1, <1>3 DEF Applied
<1>5. \A o \in pl.ops : o.path = p /\ o.op # "absent" =>
        p \in Required(prev, pl) /\ Matches(prev, pl, pl.ops, o)
  BY <1>2 DEF ManifestValid
<1>6. \A o \in pl.ops : o.path = p =>
        /\ o.op = "place" => m \in {"place", "assert"}
        /\ o.op = "remove" => m = "remove" /\ p \in Claims(prev)
        /\ o.op = "assert" => m \in {"place", "assert"} /\ o.want = After(prev, pl, p)
        /\ o.op \in {"place", "remove", "assert", "absent"}
  <2> SUFFICES ASSUME NEW o \in pl.ops, o.path = p, o.op # "absent"
               PROVE  /\ o.op = "place" => m \in {"place", "assert"}
                      /\ o.op = "remove" => m = "remove" /\ p \in Claims(prev)
                      /\ o.op = "assert" => m \in {"place", "assert"} /\ o.want = After(prev, pl, p)
                      /\ o.op \in {"place", "remove", "assert"}
    OBVIOUS
  <2>1. Matches(prev, pl, pl.ops, o)
    BY <1>5
  <2>2. Effective(prev, p) => p \in Claims(prev)
    BY DEF Claims, Effective
  <2> QED
    BY <2>1, <2>2 DEF Matches
<1> HIDE DEF m
<1>m. /\ m \in {"place", "assert"} => p \in Claims(pl)
      /\ m = "remove" => p \notin Claims(pl)
      /\ m = "none" => \/ p \notin Claims(prev) /\ p \notin Claims(pl)
                       \/ /\ p \in Claims(prev) /\ p \notin Claims(pl)
                          /\ prev.desired[p] = Directory
      /\ p \in Claims(prev) \cup Claims(pl) => p \in Slots(prev, pl)
  BY Mutations DEF m
<1>7. CASE \E o \in pl.ops : o.path = p /\ o.op = "place"
  <2>1. p \in Claims(pl)
    BY <1>6, <1>7, <1>m
  <2>2. After(prev, pl, p) = pl.desired[p]
    BY <2>1, AfterClaimed
  <2> QED
    BY <1>4, <1>7, <2>1, <2>2
<1>8. CASE (~\E o \in pl.ops : o.path = p /\ o.op = "place") /\ p \in Changed(pl)
  <2>1. \E o \in pl.ops : o.path = p /\ o.op = "remove"
    BY <1>8 DEF Changed
  <2>2. p \notin Claims(pl) /\ p \in Claims(prev)
    BY <2>1, <1>6, <1>m
  <2> QED
    BY <1>4, <1>8, <2>2
<1>9. CASE p \notin Changed(pl)
  <2>1. live'[p] = live[p] /\ p \notin edited
    BY <1>3, <1>4, <1>9 DEF Changed
  <2>2. p \in Claims(prev) => live[p] = prev.desired[p]
    BY <2>1, <1>0 DEF LedgerInv, LedgerMatchesLive, Owns
  <2>3. \A o \in pl.ops : o.path = p => o.seen = live[p]
    BY DEF LedgerInv, Pinned
  <2>4. CASE p \in Required(prev, pl)
    <3>1. PICK o \in pl.ops : o.path = p /\ o.op # "absent"
      BY <2>4, <1>2 DEF ManifestValid
    <3>2. o.op = "assert"
      <4>1. o.op # "place"
        BY <3>1, <1>9 DEF Changed
      <4>2. o.op # "remove"
        <5> SUFFICES ASSUME o.op = "remove" PROVE FALSE
          OBVIOUS
        <5>1. p \in Claims(prev) /\ ~Present(o.seen)
          BY <3>1, <1>6, <1>9 DEF Changed
        <5>2. o.seen = prev.desired[p]
          BY <5>1, <3>1, <2>2, <2>3
        <5> QED
          BY <5>1, <5>2 DEF Claims, Effective
      <4> QED
        BY <4>1, <4>2, <3>1, <1>6
    <3>3. p \in Claims(pl) /\ o.want = After(prev, pl, p)
      BY <3>1, <3>2, <1>6, <1>m
    <3>4. live[p] = o.want
      BY <3>1, <3>2 DEF Commit, TargetsAccepted
    <3> QED
      BY <2>1, <3>3, <3>4, AfterClaimed
  <2>5. CASE p \notin Required(prev, pl)
    <3>1. p \notin Slots(prev, pl) \/ m = "none"
      BY <2>5 DEF Required, m
    <3> QED
      BY <3>1, <1>m, <2>1, <2>2
  <2> QED
    BY <2>4, <2>5
<1> QED
  BY <1>7, <1>8, <1>9

\* A commit leaves the ledger true.
LEMMA LedgerCommit ==
  ASSUME LedgerInv, NEW pl \in plans, Commit(pl)
  PROVE  LedgerMatchesLive'
<1> DEFINE n == pl.ns
<1>0. n \in Namespaces /\ History
  BY DEF LedgerInv, Pinned, IInv
<1>1. /\ \A m \in Namespaces : m # n => Selected(m)' = Selected(m)
      /\ Claims(Selected(n))' = Claims(pl)
      /\ \A p \in Claims(pl) : Selected(n)'.desired[p] = pl.desired[p]
  BY <1>0, CommitSelects
<1>2. \A m \in Namespaces, p \in Paths :
        Owns(m, p)' <=> IF m = n THEN p \in Claims(pl) ELSE Owns(m, p)
  <2> SUFFICES ASSUME NEW m \in Namespaces, NEW p \in Paths
               PROVE  Owns(m, p)' <=> IF m = n THEN p \in Claims(pl) ELSE Owns(m, p)
    OBVIOUS
  <2>1. CASE m = n
    BY <2>1, <1>1 DEF Owns
  <2>2. CASE m # n
    <3>1. Selected(m)' = Selected(m)
      BY <2>2, <1>1
    <3>2. Claims(Selected(m))' = Claims(Selected(m))
      BY <3>1 DEF Claims, Effective, Present
    <3> QED
      BY <2>2, <3>2 DEF Owns
  <2> QED
    BY <2>1, <2>2
<1>3. ExclusiveOwnership'
  BY CommitStep DEF LedgerInv, IInv
<1>4. ExclusiveOwnership
  BY DEF LedgerInv, IInv
<1> SUFFICES ASSUME NEW p \in Paths \ edited'
             PROVE  IF {m \in Namespaces : Owns(m, p)'} = {} THEN live'[p] \in {Nothing, Directory}
                    ELSE \A m \in {k \in Namespaces : Owns(k, p)'} :
                      live'[p] = Selected(m)'.desired[p]
  BY DEF LedgerMatchesLive, Nothing, Directory, State
<1>5. /\ p \in Claims(pl) => live'[p] = pl.desired[p]
      /\ p \notin Claims(pl) /\ p \in Claims(Selected(n)) => live'[p] \in {Nothing, Directory}
      /\ p \notin Claims(pl) /\ p \notin Claims(Selected(n)) => live'[p] = live[p]
  BY AppliedAt
<1>6. CASE p \in Claims(pl)
  <2>1. \A m \in Namespaces : Owns(m, p)' => m = n
    BY <1>0, <1>2, <1>3, <1>6 DEF ExclusiveOwnership, Owns
  <2> QED
    BY <1>0, <1>1, <1>2, <1>5, <1>6, <2>1
<1>7. CASE p \notin Claims(pl) /\ p \in Claims(Selected(n))
  <2>1. \A m \in Namespaces : Owns(m, p) => m = n
    BY <1>0, <1>4, <1>7 DEF ExclusiveOwnership, Owns
  <2> QED
    BY <1>2, <1>5, <1>7, <2>1
<1>8. CASE p \notin Claims(pl) /\ p \notin Claims(Selected(n))
  <2>1. \A m \in Namespaces : /\ Owns(m, p)' <=> Owns(m, p)
                              /\ Owns(m, p) => m # n
    BY <1>2, <1>8 DEF Owns
  <2>2. p \notin edited
    <3>1. p \notin Changed(pl)
      <4> SUFFICES ASSUME p \in Changed(pl) PROVE FALSE
        OBVIOUS
      <4>1. PICK o \in pl.ops : o.path = p /\ o.op \in {"place", "remove"}
        BY DEF Changed
      <4>2. ManifestValid(Selected(n), pl, pl.ops)
        BY DEF Commit, Admitted, HeadExpected, Selected
      <4>3. Matches(Selected(n), pl, pl.ops, o)
        BY <4>1, <4>2 DEF ManifestValid
      <4>4. Mutation(Selected(n), pl, p) \in {"place", "assert"} \/ Effective(Selected(n), p)
        BY <4>1, <4>3 DEF Matches
      <4> QED
        BY <4>4, <1>8, Mutations DEF Claims, Effective
    <3> QED
      BY <3>1 DEF Commit
  <2>3. IF {m \in Namespaces : Owns(m, p)} = {} THEN live[p] \in {Nothing, Directory}
        ELSE \A m \in {k \in Namespaces : Owns(k, p)} : live[p] = Selected(m).desired[p]
    BY <2>2 DEF LedgerInv, LedgerMatchesLive
  <2> QED
    BY <1>1, <1>5, <1>8, <2>1, <2>3
<1> QED
  BY <1>6, <1>7, <1>8

-----------------------------------------------------------------------------
\* Plans

\* A configuration holds no content of the user, and what it restores exists.
Clean(g) ==
  /\ \A p \in DOMAIN g.desired : g.desired[p].val # UserVal
  /\ g.restore # None => g.restore \in DOMAIN gens

\* And what it replaces.
CleanStep(g) == Clean(g) /\ (g.expected # None => g.expected \in DOMAIN gens)

\* That holds of every generation, of the draft and of every plan that waits.
Ours ==
  /\ \A i \in DOMAIN gens : Clean(gens[i])
  /\ draft # None => CleanStep(draft.sel)
  /\ \A pl \in plans : CleanStep(pl)

\* What a draft is made from.
Chosen(n, sel) == sel.ns = n /\ sel.expected = head[n] /\ (Ours => Clean(sel))

\* A snapshot made of two has contents of these two.
LEMMA ReconciledContents ==
  ASSUME NEW d, NEW e, \A p \in DOMAIN d : d[p].val # UserVal, \A p \in DOMAIN e :
    e[p].val # UserVal
  PROVE  \A p \in DOMAIN ReconcileDesired(d, e) : ReconcileDesired(d, e)[p].val # UserVal
  BY Contents DEF ReconcileDesired, Tombstone, State

\* The selected generation is clean; a namespace without one has nothing.
LEMMA SelectedClean ==
  ASSUME History, Ours, NEW n \in Namespaces
  PROVE  /\ \A p \in DOMAIN Selected(n).desired : Selected(n).desired[p].val # UserVal
         /\ head[n] # None => Clean(Selected(n)) /\ head[n] \in DOMAIN gens
<1>1. PICK S : gens \in Seq(S)
  BY DEF History
<1>2. head[n] # None => head[n] \in DOMAIN gens
  BY <1>1 DEF History
<1> QED
  BY <1>2 DEF Selected, Gen, NoGeneration, Empty, Ours, Clean

\* The commands that begin a preparation, and what they select.
LEMMA Prepared ==
  ASSUME History, NEW n \in Namespaces,
         \/ \E r \in Requests[n] : Reconcile(n, r)
         \/ Disable(n) \/ Enable(n) \/ RemoveNamespace(n)
         \/ \E g \in DOMAIN gens : Checkout(n, g) \/ AddRestorePoint(n, g) \/ DropRestorePoint(n, g)
  PROVE  \E sel, adopt, stock : Chosen(n, sel) /\ Begin(Drafted(sel, adopt, stock))
<1>1. ASSUME NEW trans, NEW source, NEW life, NEW desired, NEW restore, NEW points,
             NEW adopt, NEW stock,
             Ours => /\ \A p \in DOMAIN desired : desired[p].val # UserVal
                     /\ restore # None => restore \in DOMAIN gens,
             Begin(Drafted(Select(n, trans, source, life, desired, restore, points), adopt, stock))
      PROVE  \E sel, a, t : Chosen(n, sel) /\ Begin(Drafted(sel, a, t))
  <2>1. Chosen(n, Select(n, trans, source, life, desired, restore, points))
    BY <1>1 DEF Select, Chosen, Clean
  <2> QED
    BY <1>1, <2>1
<1>2. ASSUME Ours
      PROVE  /\ \A p \in DOMAIN Selected(n).desired : Selected(n).desired[p].val # UserVal
             /\ head[n] # None => Clean(Selected(n)) /\ head[n] \in DOMAIN gens
  BY <1>2, SelectedClean
<1>3. ASSUME NEW r \in Requests[n], Reconcile(n, r)
      PROVE  \E sel, a, t : Chosen(n, sel) /\ Begin(Drafted(sel, a, t))
  <2> DEFINE d == RequestedSnapshot(Selected(n), r.targets)
  <2>1. ASSUME Ours PROVE \A p \in DOMAIN d : d[p].val # UserVal
    <3> DEFINE made == Synthesized(Selected(n), r.targets)
               declared == [p \in DOMAIN r.targets \cup made |->
                              IF p \in made THEN Directory ELSE r.targets[p]]
    <3>1. \A p \in DOMAIN declared : declared[p].val # UserVal
      BY Contents DEF Directory, State
    <3> QED
      BY <2>1, <3>1, <1>2, ReconciledContents DEF RequestedSnapshot
  <2> HIDE DEF d
  <2> QED
    BY <1>1, <1>3, <2>1 DEF Reconcile, ReconcileDraft, d
<1>4. ASSUME NEW g \in DOMAIN gens, Checkout(n, g)
      PROVE  \E sel, a, t : Chosen(n, sel) /\ Begin(Drafted(sel, a, t))
  <2> DEFINE d == CheckoutSnapshot(Selected(n), gens[g])
  <2>1. ASSUME Ours PROVE \A p \in DOMAIN d : d[p].val # UserVal
    BY <2>1, <1>2, ReconciledContents DEF CheckoutSnapshot, Empty, Ours, Clean
  <2>2. Ours => (gens[g].restore # None => gens[g].restore \in DOMAIN gens)
    BY DEF Ours, Clean
  <2> HIDE DEF d
  <2> QED
    BY <1>1, <1>4, <2>1, <2>2 DEF Checkout, CheckoutDraft, d
<1>5. ASSUME NEW g \in DOMAIN gens, AddRestorePoint(n, g) \/ DropRestorePoint(n, g)
      PROVE  \E sel, a, t : Chosen(n, sel) /\ Begin(Drafted(sel, a, t))
  <2>1. head[n] # None /\ \E points : Begin(AuthorityDraft(n, points))
    BY <1>5 DEF AddRestorePoint, DropRestorePoint
  <2> QED
    BY <1>1, <1>2, <2>1 DEF AuthorityDraft, Clean
<1>6. CASE Disable(n)
  BY <1>1, <1>2, <1>6 DEF Disable, DisableDraft, Empty
<1>7. CASE Enable(n)
  <2>1. Ours => \A p \in DOMAIN gens[Selected(n).restore].desired :
                  gens[Selected(n).restore].desired[p].val # UserVal
    BY <1>2, <1>7 DEF Enable, Ours, Clean
  <2> QED
    BY <1>1, <1>7, <2>1 DEF Enable, EnableDraft
<1>8. CASE RemoveNamespace(n)
  BY <1>1, <1>8 DEF RemoveNamespace, RemovalDraft, Empty
<1> QED
  BY <1>3, <1>4, <1>5, <1>6, <1>7, <1>8

\* The file at a target is not what the previous generation deployed there, and
\* the operation removes it or replaces it by a file.
Modified(prior, o, found) ==
  /\ o.op \in {"place", "remove"} /\ found.kind = "file" /\ Present(found)
  /\ prior.desired[o.path].kind = "file"
  /\ o.op = "place" => o.want.kind = "file"
  /\ found.val # prior.desired[o.path].val

\* The first look finds such a file at an owned target.
DraftFlagged(d) ==
  LET prior == Gen(d.sel.expected) IN
  \A o \in d.ops : Effective(prior, o.path) /\ Modified(prior, o, o.read) => o.path \in d.drifted

\* If the second finds the same, there is an approval-required finding; and so there
\* is for any file where the previous generation deployed nothing.
Flagged(prior, o, approve) ==
  /\ o.op \in {"place", "remove"} /\ o.seen.kind = "file" /\ Present(o.seen)
  /\ o.read = o.seen
  /\ Effective(prior, o.path) => Modified(prior, o, o.seen)
  => o.path \in approve

\* What prepare_inner makes of a selection.
LEMMA DraftMade ==
  ASSUME NEW sel, NEW adopt, NEW stock
  PROVE  LET d == Drafted(sel, adopt, stock) IN d.sel = sel /\ DraftFlagged(d)
<1> DEFINE prev == Gen(sel.expected)
           d == Drafted(sel, adopt, stock)
<1>1. d.sel = sel
  BY DEF Drafted
<1>2. PICK asked :
        /\ d.ops = {Reconciled(x) : x \in asked}
        /\ d.drifted = {x.path : x \in {y \in asked : Drifted(prev, y)}}
        /\ \A x \in asked : \E op, p, want : x = Operation(op, p, want)
  <2> DEFINE absents == IF sel.trans # "checkout" THEN {}
                        ELSE {p \in DOMAIN sel.desired : /\ ~Present(sel.desired[p])
                                                         /\ p \notin Required(prev, sel)
                                                         /\ ~Effective(prev, p)}
             asked == Asked(prev, sel) \cup {Operation("absent", p, sel.desired[p]) :
               p \in absents}
  <2>1. d.ops = {Reconciled(x) : x \in asked}
    BY DEF Drafted
  <2>2. d.drifted = {x.path : x \in {y \in asked : Drifted(prev, y)}}
    BY DEF Drafted
  <2>3. \A x \in asked : \E op, p, want : x = Operation(op, p, want)
    BY DEF Asked
  <2> QED
    BY <2>1, <2>2, <2>3
<1> HIDE DEF d
<1>3. ASSUME NEW o \in d.ops, Effective(prev, o.path), Modified(prev, o, o.read)
      PROVE  o.path \in d.drifted
  <2>1. PICK x \in asked : o = Reconciled(x)
    BY <1>2, <1>3
  <2>2. PICK op, p, want : x = Operation(op, p, want)
    BY <1>2
  <2>3. x = [op |-> op, path |-> p, want |-> want, read |-> live[p]]
    BY <2>2 DEF Operation
  <2>4. /\ o.path = p /\ o.want = want /\ o.read = live[p]
        /\ o.op \in {"place", "remove"} =>
             \/ o.op = op
             \/ /\ o.op = "place" /\ op = "assert"
                /\ ~Present(live[p]) \/ (want.kind = "file" /\ ReadFile(x) \notin {None, want.val})
    BY <2>1, <2>3 DEF Reconciled
  <2>5. ReadFile(x) = live[p].val /\ live[p].val # None
    BY <1>3, <2>3, <2>4 DEF ReadFile, Modified, Present
  <2>6. Drifted(prev, x)
    BY <1>3, <2>3, <2>4, <2>5 DEF Drifted, Modified, Present
  <2> QED
    BY <1>2, <2>3, <2>4, <2>6
<1> QED
  BY <1>1, <1>3 DEF DraftFlagged, d

\* And of a draft.
LEMMA PlanMade ==
  ASSUME NEW d
  PROVE  LET pl == Plan(d) IN
         /\ pl.ns = d.sel.ns /\ pl.expected = d.sel.expected
         /\ pl.desired = d.sel.desired /\ pl.restore = d.sel.restore
         /\ \A o \in pl.ops : o.seen = live[o.path]
         /\ DraftFlagged(d) => \A o \in pl.ops : Flagged(Gen(d.sel.expected), o, pl.approve)
<1> DEFINE prev == Gen(d.sel.expected)
           pl == Plan(d)
<1>1. /\ pl.ns = d.sel.ns /\ pl.expected = d.sel.expected /\ pl.desired = d.sel.desired
      /\ pl.restore = d.sel.restore
      /\ pl.ops = {Observed(prev, Seen(x)) : x \in d.ops}
      /\ pl.approve = Approvals(prev, d.drifted, pl.ops)
  BY DEF Plan
<1> HIDE DEF pl
<1>2. ASSUME NEW o \in pl.ops
      PROVE  o.seen = live[o.path] /\ (DraftFlagged(d) => Flagged(prev, o, pl.approve))
  <2>1. PICK x \in d.ops : o = Observed(prev, Seen(x))
    BY <1>1, <1>2
  <2>2. Seen(x) = [op |-> x.op, path |-> x.path, want |-> x.want, read |-> x.read,
                   seen |-> live[x.path]]
    BY DEF Seen
  <2>3. /\ o.path = x.path /\ o.want = x.want /\ o.read = x.read /\ o.seen = live[x.path]
        /\ o.op \in {"place", "remove"} => o.op = x.op
    BY <2>1, <2>2 DEF Observed
  <2>4. ASSUME DraftFlagged(d), o.op \in {"place", "remove"}, o.seen.kind = "file",
               Present(o.seen), o.read = o.seen,
               Effective(prev, o.path) => Modified(prev, o, o.seen)
        PROVE  o.path \in pl.approve
    <3>1. CASE ~Effective(prev, o.path)
      BY <1>1, <1>2, <2>4, <3>1 DEF Approvals
    <3>2. CASE Effective(prev, o.path)
      <4>1. Modified(prev, x, x.read)
        BY <2>3, <2>4, <3>2 DEF Modified
      <4>2. o.path \in d.drifted
        BY <2>3, <2>4, <3>2, <4>1 DEF DraftFlagged
      <4> QED
        BY <1>1, <1>2, <2>4, <4>2 DEF Approvals
    <3> QED
      BY <3>1, <3>2
  <2> QED
    BY <2>3, <2>4 DEF Flagged
<1> QED
  BY <1>1, <1>2 DEF pl

\* A change of entries or contents that leaves a plan waiting left what it saw.
LEMMA FreshSees ==
  ASSUME NEW pl, NEW entries, NEW written, Fresh(pl, entries, written), NEW o \in pl.ops
  PROVE  o.path \notin entries \cup written
  BY DEF Fresh

\* Only the paths that a commit changes change.
LEMMA CommitLeaves ==
  ASSUME NEW pl, Commit(pl), NEW p \in Paths, p \notin Changed(pl)
  PROVE  live'[p] = live[p]
  BY DEF Commit, Applied, Changed

\* Every path has a state after every step.
LEMMA LiveTypeStep ==
  ASSUME LiveType, [Next]_vars
  PROVE  LiveType'
<1>1. PICK S : live \in [Paths -> S]
  BY DEF LiveType
<1>2. ASSUME live' = live PROVE LiveType'
  BY <1>2 DEF LiveType
<1>3. ASSUME NEW pl, Commit(pl) PROVE LiveType'
  <2>1. live' \in [Paths -> {live'[p] : p \in Paths}]
    BY <1>3 DEF Commit, Applied
  <2> QED
    BY <2>1 DEF LiveType
<1>4. ASSUME NEW p \in Paths, NEW s, UserEdit(p, s) PROVE LiveType'
  <2>1. live' \in [Paths -> S \cup {s}]
    BY <1>1, <1>4 DEF UserEdit
  <2> QED
    BY <2>1 DEF LiveType
<1>5. ASSUME NEW d, Begin(d) \/ Publish \/ Abandon PROVE LiveType'
  BY <1>2, <1>5 DEF Begin, Publish, Abandon
<1> QED
  BY <1>2, <1>3, <1>4, <1>5, CommandBegins DEF Next, Discard, vars

\* What the user's edit leaves alone.
LEMMA EditLeaves ==
  ASSUME LiveType, NEW p \in Paths, NEW s, UserEdit(p, s)
  PROVE  /\ live'[p] = s /\ \A q \in Paths \ {p} : live'[q] = live[q]
         /\ \A pl \in plans' : pl \in plans /\ \A o \in pl.ops : o.path # p
<1>1. PICK S : live \in [Paths -> S]
  BY DEF LiveType
<1>2. live'[p] = s /\ \A q \in Paths \ {p} : live'[q] = live[q]
  BY <1>1 DEF UserEdit
<1>3. ASSUME NEW pl \in plans', NEW o \in pl.ops PROVE pl \in plans /\ o.path # p
  <2>1. pl \in plans /\ (Fresh(pl, {}, {p}) \/ Fresh(pl, {p}, {}))
    BY <1>3 DEF UserEdit
  <2> QED
    BY <1>3, <2>1, FreshSees
<1> QED
  BY <1>2, <1>3 DEF UserEdit

\* What a waiting plan saw stays.
LEMMA PinnedStep ==
  ASSUME History, LiveType, Pinned, [Next]_vars
  PROVE  Pinned'
<1>1. ASSUME NEW pl \in plans, Commit(pl) PROVE Pinned'
  <2>0. draft' = draft
    BY <1>1 DEF Commit
  <2> SUFFICES ASSUME NEW q \in plans'
               PROVE  /\ q.ns \in Namespaces
                      /\ \A o \in q.ops : o.path \in Paths => o.seen = live'[o.path]
    BY <2>0 DEF Pinned
  <2>1. q \in plans /\ Fresh(q, Changed(pl), {})
    BY <1>1 DEF Commit
  <2>2. ASSUME NEW o \in q.ops, o.path \in Paths PROVE o.seen = live'[o.path]
    <3>1. o.path \notin Changed(pl)
      BY <2>1, FreshSees
    <3> QED
      BY <1>1, <2>1, <2>2, <3>1, CommitLeaves DEF Pinned
  <2> QED
    BY <2>1, <2>2 DEF Pinned
<1>2. ASSUME NEW p \in Paths, NEW s, UserEdit(p, s) PROVE Pinned'
  <2>1. draft' = draft
    BY <1>2 DEF UserEdit
  <2> QED
    BY <1>2, <2>1, EditLeaves DEF Pinned
<1>3. ASSUME NEW n \in Namespaces, NEW sel, NEW adopt, NEW stock, Chosen(n, sel),
             Begin(Drafted(sel, adopt, stock))
      PROVE  Pinned'
  <2>1. draft' = Drafted(sel, adopt, stock) /\ plans' = plans /\ live' = live
    BY <1>3 DEF Begin
  <2>2. draft'.sel.ns \in Namespaces
    BY <1>3, <2>1, DraftMade DEF Chosen
  <2> QED
    BY <2>1, <2>2 DEF Pinned
<1>4. CASE Publish
  <2>1. draft # None /\ plans' = plans \cup {Plan(draft)} /\ live' = live /\ draft' = None
    BY <1>4 DEF Publish
  <2>2. Plan(draft).ns \in Namespaces /\ \A o \in Plan(draft).ops : o.seen = live[o.path]
    BY <2>1, PlanMade DEF Pinned
  <2> QED
    BY <2>1, <2>2 DEF Pinned
<1>5. ASSUME plans' \subseteq plans, live' = live, draft' = draft \/ draft' = None PROVE Pinned'
  BY <1>5 DEF Pinned
<1>6. CASE Abandon \/ \E pl \in plans : Discard(pl)
  BY <1>5, <1>6 DEF Discard, Abandon
<1>7. CASE UNCHANGED vars
  BY <1>5, <1>7 DEF vars
<1> QED
  BY <1>1, <1>2, <1>3, <1>4, <1>6, <1>7, Prepared DEF Next

\* Every step leaves the ledger true.
LEMMA LedgerStep ==
  ASSUME LedgerInv, [Next]_vars
  PROVE  LedgerInv'
<1>0. History /\ LiveType /\ Pinned /\ IInv
  BY DEF LedgerInv, IInv
<1>1. IInv' /\ LiveType' /\ Pinned'
  BY <1>0, Step, LiveTypeStep, PinnedStep
<1>2. ASSUME UNCHANGED <<head, gens>>,
             \A p \in Paths \ edited' : p \notin edited /\ live'[p] = live[p]
      PROVE  LedgerMatchesLive'
  <2>1. \A n : Selected(n)' = Selected(n)
    BY <1>2 DEF Selected, Gen
  <2>2. \A n, p : Owns(n, p)' <=> Owns(n, p)
    BY <2>1 DEF Owns, Claims, Effective, Present
  <2> QED
    BY <1>2, <2>1, <2>2 DEF LedgerInv, LedgerMatchesLive, Nothing, Directory, State
<1>3. CASE \E pl \in plans : Commit(pl)
  BY <1>1, <1>3, LedgerCommit DEF LedgerInv
<1>4. CASE \E p \in Paths, s \in UserStates : UserEdit(p, s)
  <2>1. PICK p \in Paths, s \in UserStates : UserEdit(p, s)
    BY <1>4
  <2>2. edited' = edited \cup {p} /\ UNCHANGED <<head, gens>>
    BY <2>1 DEF UserEdit
  <2> QED
    BY <1>0, <1>1, <1>2, <2>1, <2>2, EditLeaves DEF LedgerInv
<1>5. ASSUME NEW x, Begin(x) \/ Publish \/ Abandon \/ Discard(x) PROVE LedgerInv'
  BY <1>1, <1>2, <1>5 DEF Begin, Publish, Abandon, Discard, LedgerInv
<1>6. CASE UNCHANGED vars
  BY <1>1, <1>2, <1>6 DEF vars, LedgerInv
<1> QED
  BY <1>0, <1>3, <1>4, <1>5, <1>6, CommandBegins DEF Next

\* Whatever is prepared, committed late or edited, and by whichever namespaces, what
\* selected generations claim is on disk as they say, and nothing of malm's is there
\* that none claims, except where the user changed something since
\* (derive_owned_transition, required_target_mutations_v1, PinnedTarget::revalidate).
THEOREM LedgerSafe == Spec => []LedgerMatchesLive
<1>1. Init => LedgerInv
  <2> SUFFICES ASSUME Init PROVE LedgerInv
    OBVIOUS
  <2>1. IInv
    BY Initially
  <2>2. live \in [Paths -> {Nothing}] /\ plans = {} /\ draft = None
    BY DEF Init
  <2>3. \A n \in Namespaces, p \in Paths : ~Owns(n, p)
    BY NoHeadNoClaims DEF Init, Owns, Selected
  <2> QED
    BY <2>1, <2>2, <2>3 DEF LedgerInv, LiveType, Pinned, LedgerMatchesLive
<1>2. LedgerInv /\ [Next]_vars => LedgerInv'
  BY LedgerStep
<1>3. LedgerInv => LedgerMatchesLive
  BY DEF LedgerInv
<1> QED
  BY <1>1, <1>2, <1>3, PTL DEF Spec

-----------------------------------------------------------------------------
\* The user's work

\* What the user changed last is the user's.
Theirs == edited \subseteq Paths /\ \A p \in edited : live[p] \in UserStates

\* Every waiting plan has the findings it needs for the files it saw.
AllFlagged ==
  /\ draft # None => DraftFlagged(draft)
  /\ \A pl \in plans : \A o \in pl.ops : Flagged(Gen(pl.expected), o, pl.approve)

\* The inductive invariant of the approvals.
ApprovalInv == History /\ LiveType /\ Pinned /\ Ours /\ Theirs /\ AllFlagged

\* The generations are as they were, and maybe one was appended.
LEMMA CommitGens ==
  ASSUME History, NEW pl, Commit(pl)
  PROVE  /\ DOMAIN gens \subseteq DOMAIN gens'
         /\ \A i \in DOMAIN gens : gens'[i] = gens[i]
         /\ \A i \in DOMAIN gens' \ DOMAIN gens :
              gens'[i].desired = pl.desired /\ gens'[i].restore = pl.restore
<1> DEFINE new == [ns |-> pl.ns, prev |-> pl.expected, life |-> pl.life,
                   desired |-> pl.desired, restore |-> pl.restore, points |-> pl.points]
<1>1. PICK S : gens \in Seq(S)
  BY DEF History
<1>2. CASE gens' = gens
  BY <1>2
<1>3. CASE gens' = Append(gens, new)
  <2>1. /\ DOMAIN gens = 1 .. Len(gens) /\ DOMAIN gens' = 1 .. (Len(gens) + 1) /\ Len(gens) \in Nat
        /\ \A i \in 1 .. Len(gens) : gens'[i] = gens[i]
        /\ gens'[Len(gens) + 1] = new
    BY <1>1, <1>3
  <2>2. new.desired = pl.desired /\ new.restore = pl.restore
    OBVIOUS
  <2> HIDE DEF new
  <2>3. \A i \in DOMAIN gens' \ DOMAIN gens : i = Len(gens) + 1
    BY <2>1
  <2> QED
    BY <2>1, <2>2, <2>3
<1> QED
  BY <1>2, <1>3 DEF Commit

\* What is clean stays clean.
LEMMA CleanStays ==
  ASSUME DOMAIN gens \subseteq DOMAIN gens', NEW g, Clean(g)
  PROVE  /\ \A p \in DOMAIN g.desired : g.desired[p].val # UserVal
         /\ g.restore # None => g.restore \in DOMAIN gens'
  BY DEF Clean

\* A commit keeps the invariant of the approvals.
LEMMA ApprovalCommit ==
  ASSUME ApprovalInv, NEW pl \in plans, Commit(pl)
  PROVE  Ours' /\ Theirs' /\ AllFlagged'
<1>1. /\ DOMAIN gens \subseteq DOMAIN gens'
      /\ \A i \in DOMAIN gens : gens'[i] = gens[i]
      /\ \A i \in DOMAIN gens' \ DOMAIN gens :
           gens'[i].desired = pl.desired /\ gens'[i].restore = pl.restore
  BY CommitGens DEF ApprovalInv
<1>2. plans' \subseteq plans /\ edited' = edited \ Changed(pl) /\ draft' = draft
  BY DEF Commit
<1>3. Ours'
  <2>1. /\ \A q \in plans' : CleanStep(q)'
        /\ draft' # None => CleanStep(draft.sel)'
    BY <1>1, <1>2 DEF ApprovalInv, Ours, CleanStep, Clean
  <2>2. ASSUME NEW i \in DOMAIN gens' PROVE Clean(gens[i])'
    <3>1. CASE i \in DOMAIN gens
      BY <1>1, <3>1 DEF ApprovalInv, Ours, Clean
    <3>2. CASE i \notin DOMAIN gens
      <4>1. Clean(pl)
        BY DEF ApprovalInv, Ours, CleanStep
      <4> QED
        BY <1>1, <2>2, <3>2, <4>1 DEF Clean
    <3> QED
      BY <3>1, <3>2
  <2> QED
    BY <2>1, <2>2 DEF Ours
<1>4. Theirs'
  <2>1. \A p \in edited' : p \in edited /\ p \in Paths /\ live'[p] = live[p]
    BY <1>2, CommitLeaves DEF ApprovalInv, Theirs
  <2> QED
    BY <1>2, <2>1 DEF ApprovalInv, Theirs, UserStates, Nothing, Directory, State
<1>5. AllFlagged'
  <2>1. ASSUME NEW q, q.expected # None => q.expected \in DOMAIN gens
        PROVE  Gen(q.expected)' = Gen(q.expected)
    BY <1>1, <2>1 DEF Gen, NoGeneration, Empty
  <2>2. ASSUME NEW q \in plans', NEW o \in q.ops
        PROVE  Flagged(Gen(q.expected), o, q.approve)'
    <3>1. Gen(q.expected)' = Gen(q.expected)
      BY <1>2, <2>1 DEF ApprovalInv, Ours, CleanStep
    <3>2. Flagged(Gen(q.expected), o, q.approve)
      BY <1>2, <2>2 DEF ApprovalInv, AllFlagged
    <3> QED
      BY <3>1, <3>2 DEF Flagged, Modified, Effective, Present
  <2>3. ASSUME draft' # None PROVE DraftFlagged(draft)'
    <3>1. Gen(draft.sel.expected)' = Gen(draft.sel.expected)
      BY <1>2, <2>1, <2>3 DEF ApprovalInv, Ours, CleanStep
    <3>2. DraftFlagged(draft)
      BY <1>2, <2>3 DEF ApprovalInv, AllFlagged
    <3> QED
      BY <1>2, <3>1, <3>2 DEF DraftFlagged, Modified, Effective, Present
  <2> QED
    BY <2>2, <2>3 DEF AllFlagged
<1> QED
  BY <1>3, <1>4, <1>5

\* Every step does.
LEMMA ApprovalStep ==
  ASSUME ApprovalInv, [Next]_vars, IInv, IInv'
  PROVE  ApprovalInv'
<1>0. History /\ LiveType /\ Pinned /\ Ours /\ Theirs /\ AllFlagged
  BY DEF ApprovalInv
<1>1. History' /\ LiveType' /\ Pinned'
  BY <1>0, LiveTypeStep, PinnedStep DEF IInv
<1>2. ASSUME UNCHANGED <<head, gens>>, plans' \subseteq plans, draft' = draft \/ draft' = None
      PROVE  Ours' /\ AllFlagged'
  BY <1>0, <1>2 DEF Ours, CleanStep, Clean, AllFlagged, DraftFlagged, Flagged, Modified,
                    Effective, Present, Gen, NoGeneration, Empty
<1>3. ASSUME live' = live, edited' = edited PROVE Theirs'
  BY <1>0, <1>3 DEF Theirs, UserStates, Nothing, Directory, State
<1>4. CASE \E pl \in plans : Commit(pl)
  BY <1>1, <1>4, ApprovalCommit DEF ApprovalInv
<1>5. CASE \E p \in Paths, s \in UserStates : UserEdit(p, s)
  <2>1. PICK p \in Paths, s \in UserStates : UserEdit(p, s)
    BY <1>5
  <2>2. edited' = edited \cup {p} /\ UNCHANGED <<head, gens, draft>> /\ plans' \subseteq plans
    BY <2>1 DEF UserEdit
  <2>3. Theirs'
    <3>1. live'[p] = s /\ \A q \in Paths \ {p} : live'[q] = live[q]
      BY <1>0, <2>1, EditLeaves
    <3> QED
      BY <1>0, <2>2, <3>1 DEF Theirs, UserStates, Nothing, Directory, State
  <2> QED
    BY <1>1, <1>2, <2>2, <2>3 DEF ApprovalInv
<1>6. ASSUME NEW n \in Namespaces, NEW sel, NEW adopt, NEW stock, Chosen(n, sel),
             Begin(Drafted(sel, adopt, stock))
      PROVE  ApprovalInv'
  <2> DEFINE d == Drafted(sel, adopt, stock)
  <2>1. draft' = d /\ UNCHANGED <<live, head, gens, plans, edited>>
    BY <1>6 DEF Begin
  <2>2. d.sel = sel /\ DraftFlagged(d)
    BY DraftMade
  <2>3. CleanStep(d.sel)
    BY <1>0, <1>6, <2>2, SelectedClean DEF Chosen, CleanStep
  <2> HIDE DEF d
  <2>4. Ours'
    BY <1>0, <2>1, <2>3 DEF Ours, CleanStep, Clean
  <2>5. AllFlagged'
    <3>1. DraftFlagged(draft)'
      BY <2>1, <2>2 DEF DraftFlagged, Modified, Effective, Present, Gen, NoGeneration, Empty
    <3> QED
      BY <1>0, <2>1, <3>1 DEF AllFlagged, Flagged, Modified, Effective, Present, Gen,
                              NoGeneration, Empty
  <2> QED
    BY <1>1, <1>3, <2>1, <2>4, <2>5 DEF ApprovalInv
<1>7. CASE Publish
  <2> DEFINE pl == Plan(draft)
  <2>1. /\ draft # None /\ draft' = None /\ plans' = plans \cup {pl}
        /\ UNCHANGED <<live, head, gens, edited>>
    BY <1>7 DEF Publish
  <2>2. CleanStep(draft.sel) /\ DraftFlagged(draft)
    BY <1>0, <2>1 DEF Ours, AllFlagged
  <2>3. /\ CleanStep(pl)
        /\ \A o \in pl.ops : Flagged(Gen(pl.expected), o, pl.approve)
    BY <2>2, PlanMade DEF CleanStep, Clean
  <2> HIDE DEF pl
  <2>4. Ours'
    BY <1>0, <2>1, <2>3 DEF Ours, CleanStep, Clean
  <2>5. AllFlagged'
    BY <1>0, <2>1, <2>3 DEF AllFlagged, Flagged, Modified, Effective, Present, Gen,
                            NoGeneration, Empty
  <2> QED
    BY <1>1, <1>3, <2>1, <2>4, <2>5 DEF ApprovalInv
<1>8. CASE Abandon \/ \E pl \in plans : Discard(pl)
  BY <1>1, <1>2, <1>3, <1>8 DEF Discard, Abandon, ApprovalInv
<1>9. CASE UNCHANGED vars
  BY <1>1, <1>2, <1>3, <1>9 DEF vars, ApprovalInv
<1> QED
  BY <1>0, <1>4, <1>5, <1>6, <1>7, <1>8, <1>9, Prepared DEF Next

\* A commit that replaces or removes a file of the user has its finding, if both
\* looks of the preparation found that file and the code examines it.
LEMMA Approved ==
  ASSUME ApprovalInv, NEW pl \in plans, Commit(pl), NEW o \in Unapproved(pl), o.read = o.seen
  PROVE  Unexamined(pl, o)
<1> DEFINE prior == Gen(pl.expected)
           p == o.path
<1>1. /\ o \in pl.ops /\ o.op \in {"place", "remove"} /\ p \in edited
      /\ live[p].kind = "file" /\ p \notin pl.approve
  BY DEF Unapproved
<1>2. p \in Paths /\ live[p] = State("file", UserVal)
  BY <1>1 DEF ApprovalInv, Theirs, UserStates, Nothing, Directory, State
<1>3. o.seen = live[p] /\ Present(o.seen) /\ o.seen.val = UserVal /\ o.seen.kind = "file"
  BY <1>1, <1>2, Contents DEF ApprovalInv, Pinned, State, Present
<1>4. o.op = "place" => Effective(pl, p) /\ o.want = pl.desired[p]
  <2>1. Matches(prior, pl, pl.ops, o)
    BY <1>1 DEF Commit, Admitted, ManifestValid
  <2>2. o.op = "place" => Mutation(prior, pl, p) \in {"place", "assert"}
    BY <2>1 DEF Matches
  <2>3. o.op = "place" => p \in Claims(pl)
    BY <2>2, Mutations
  <2>4. o.want = After(prior, pl, p)
    BY <2>1 DEF Matches
  <2> QED
    BY <2>3, <2>4, AfterClaimed DEF Claims
<1>5. Effective(prior, p) => prior.desired[p].val # UserVal
  <2>1. CASE pl.expected = None
    BY <2>1 DEF Gen, NoGeneration, Effective
  <2>2. CASE pl.expected # None
    BY <2>2 DEF ApprovalInv, Ours, CleanStep, Clean, Gen, Effective
  <2> QED
    BY <2>1, <2>2
<1>6. Flagged(prior, o, pl.approve)
  BY <1>1 DEF ApprovalInv, AllFlagged
<1>7. Effective(prior, p) /\ ~Modified(prior, o, o.seen)
  BY <1>1, <1>3, <1>6 DEF Flagged
<1> QED
  BY <1>1, <1>3, <1>4, <1>5, <1>7 DEF Modified, Unexamined

\* A file the user wrote is replaced or removed only by a plan with an
\* approval-required finding for it if the user wrote it before the preparation of
\* that plan began or after its second look, whatever was committed since, and if it
\* is at the target of a managed file that stays one or goes, or at a target where
\* malm had deployed nothing (append_mandatory_findings, PinnedTarget::revalidate).
THEOREM EditsSafe == Spec => EditsNeedApproval
<1> DEFINE Held ==
      \A pl \in plans :
        (\E o \in Unapproved(pl) : o.read = o.seen /\ ~Unexamined(pl, o)) => ~Commit(pl)
<1>1. Init => IInv /\ ApprovalInv
  <2> SUFFICES ASSUME Init PROVE IInv /\ ApprovalInv
    OBVIOUS
  <2>1. IInv
    BY Initially
  <2>2. /\ live \in [Paths -> {Nothing}] /\ plans = {} /\ draft = None /\ edited = {}
        /\ DOMAIN gens = {}
    BY DEF Init
  <2> QED
    BY <2>1, <2>2 DEF IInv, ApprovalInv, LiveType, Pinned, Ours, Theirs, AllFlagged
<1>2. IInv /\ ApprovalInv /\ [Next]_vars => (IInv /\ ApprovalInv)'
  BY Step, ApprovalStep
<1>3. ApprovalInv => Held
  BY Approved
<1> QED
  BY <1>1, <1>2, <1>3, PTL DEF Spec, EditsNeedApproval

-----------------------------------------------------------------------------
\* What can be undone

\* A target's state; there is one kind of directory.
IsState(s) == s = State(s.kind, s.val) /\ (s.kind = "dir" /\ Present(s) => s = Directory)

\* A generation, or a plan for one: a valid snapshot, and restore points that
\* exist and are the namespace's; a disabled one has no targets and restores an
\* enabled one.
Proper(g) ==
  /\ DOMAIN g.desired \subseteq Paths
  /\ \A p \in DOMAIN g.desired : IsState(g.desired[p])
  /\ SnapshotValid(g.desired)
  /\ g.life \in {"enabled", "disabled"}
  /\ \A x \in g.points : x \in DOMAIN gens /\ gens[x].ns = g.ns
  /\ g.life = "disabled" => /\ g.desired = Empty
                            /\ g.restore \in g.points /\ gens[g.restore].life = "enabled"

\* What a command selects: what Proper says, as far as it is not left to the checks
\* of the plan.
Sketched(s) ==
  /\ DOMAIN s.desired \subseteq Paths
  /\ \A p \in DOMAIN s.desired : IsState(s.desired[p])
  /\ s.life \in {"enabled", "disabled"}
  /\ (s.life = "enabled" => s.restore = None) => s.points \subseteq DOMAIN gens
  /\ s.life = "disabled" => /\ s.desired = Empty
                            /\ s.restore \in DOMAIN gens /\ gens[s.restore].life = "enabled"

AllProper ==
  /\ \A i \in DOMAIN gens : Proper(gens[i])
  /\ draft # None /\ draft.sel.trans # "removal" => Sketched(draft.sel)
  /\ \A pl \in plans : pl.trans # "removal" => Proper(pl)
  /\ \A n \in Namespaces : head[n] # None => gens[head[n]].ns = n

\* The inductive invariant.
WedgeInv == LedgerInv /\ AllProper

\* prepare_inner keeps what was selected.
LEMMA PlanFields ==
  ASSUME NEW d
  PROVE  LET pl == Plan(d) IN
         /\ pl.ns = d.sel.ns /\ pl.expected = d.sel.expected /\ pl.trans = d.sel.trans
         /\ pl.source = d.sel.source /\ pl.life = d.sel.life /\ pl.desired = d.sel.desired
         /\ pl.restore = d.sel.restore /\ pl.points = d.sel.points
  BY DEF Plan

\* A tombstone is a state, and so are the states of two snapshots that become one.
LEMMA ReconciledStates ==
  ASSUME NEW d, NEW e,
         DOMAIN d \subseteq Paths, \A p \in DOMAIN d : IsState(d[p]),
         DOMAIN e \subseteq Paths, \A p \in DOMAIN e : IsState(e[p])
  PROVE  /\ DOMAIN ReconcileDesired(d, e) \subseteq Paths
         /\ \A p \in DOMAIN ReconcileDesired(d, e) : IsState(ReconcileDesired(d, e)[p])
<1>1. \A s : IsState(Tombstone(s))
  BY DEF IsState, Tombstone, State, Present
<1> QED
  BY <1>1 DEF ReconcileDesired

\* The generations that exist have numbers.
LEMMA NoneNoIndex ==
  ASSUME History
  PROVE  None \notin DOMAIN gens /\ \A n \in Namespaces : head[n] # None => head[n] \in DOMAIN gens
<1>1. PICK S : gens \in Seq(S)
  BY DEF History
<1>2. DOMAIN gens = 1 .. Len(gens)
  BY <1>1
<1> QED
  BY <1>2, NoneIsNoGeneration DEF History

\* The selected generation is proper; a namespace without one has no targets.
LEMMA SelectedProper ==
  ASSUME History, AllProper, NEW n \in Namespaces
  PROVE  /\ DOMAIN Selected(n).desired \subseteq Paths
         /\ \A p \in DOMAIN Selected(n).desired : IsState(Selected(n).desired[p])
         /\ head[n] # None => /\ head[n] \in DOMAIN gens /\ Selected(n) = gens[head[n]]
                              /\ Proper(Selected(n)) /\ Selected(n).ns = n
<1>1. CASE head[n] = None
  BY <1>1 DEF Selected, Gen, NoGeneration, Empty
<1>2. CASE head[n] # None
  <2>1. head[n] \in DOMAIN gens /\ Selected(n) = gens[head[n]]
    BY <1>2, NoneNoIndex DEF Selected, Gen
  <2> QED
    BY <1>2, <2>1 DEF AllProper, Proper
<1> QED
  BY <1>1, <1>2

\* Every command begins with a proper selection.
LEMMA BegunProper ==
  ASSUME History, AllProper, NEW n \in Namespaces,
         \/ \E r \in Requests[n] : Reconcile(n, r)
         \/ Disable(n) \/ Enable(n) \/ RemoveNamespace(n)
         \/ \E g \in DOMAIN gens : Checkout(n, g) \/ AddRestorePoint(n, g) \/ DropRestorePoint(n, g)
  PROVE  \E d : Begin(d) /\ (d.sel.trans # "removal" => Sketched(d.sel))
<1> DEFINE sn == Selected(n)
<1>0. /\ DOMAIN sn.desired \subseteq Paths
      /\ \A p \in DOMAIN sn.desired : IsState(sn.desired[p])
      /\ head[n] # None => head[n] \in DOMAIN gens /\ sn = gens[head[n]] /\ Proper(sn) /\ sn.ns = n
  BY SelectedProper
<1> HIDE DEF sn
<1>1. ASSUME NEW trans, NEW source, NEW life, NEW desired, NEW restore, NEW points,
             NEW adopt, NEW stock,
             Begin(Drafted(Select(n, trans, source, life, desired, restore, points), adopt, stock)),
             trans # "removal",
             DOMAIN desired \subseteq Paths, \A p \in DOMAIN desired : IsState(desired[p]),
             life \in {"enabled", "disabled"},
             (life = "enabled" => restore = None) => points \subseteq DOMAIN gens,
             life = "disabled" => /\ desired = Empty
                                  /\ restore \in DOMAIN gens /\ gens[restore].life = "enabled"
      PROVE  \E d : Begin(d) /\ (d.sel.trans # "removal" => Sketched(d.sel))
  <2> DEFINE sel == Select(n, trans, source, life, desired, restore, points)
             d == Drafted(sel, adopt, stock)
  <2>1. /\ sel.ns = n /\ sel.trans = trans /\ sel.life = life /\ sel.desired = desired
        /\ sel.restore = restore /\ sel.points = points
    BY DEF Select
  <2>2. Begin(d)
    BY <1>1
  <2> HIDE DEF sel
  <2>3. d.sel = sel
    BY DraftMade
  <2>4. Sketched(sel)
    BY <1>1, <2>1 DEF Sketched
  <2> HIDE DEF d
  <2> QED
    BY <2>2, <2>3, <2>4
<1>2. ASSUME NEW r \in Requests[n], Reconcile(n, r)
      PROVE  \E d : Begin(d) /\ (d.sel.trans # "removal" => Sketched(d.sel))
  <2> DEFINE d == RequestedSnapshot(sn, r.targets)
             made == Synthesized(sn, r.targets)
             declared == [p \in DOMAIN r.targets \cup made |->
                            IF p \in made THEN Directory ELSE r.targets[p]]
             points == IF head[n] = None THEN {} ELSE sn.points
  <2>1. made \subseteq Paths
    BY <1>0 DEF Synthesized, Ancestors, Claims
  <2>2. IsState(Directory)
    BY DEF IsState, Directory, State
  <2>3. \A p \in DOMAIN r.targets : p \in Paths /\ IsState(r.targets[p])
    BY Declarations DEF IsState
  <2> HIDE DEF made
  <2>4. DOMAIN declared \subseteq Paths /\ \A p \in DOMAIN declared : IsState(declared[p])
    BY <2>1, <2>2, <2>3
  <2>5. d = ReconcileDesired(sn.desired, declared)
    BY DEF RequestedSnapshot, made
  <2> HIDE DEF d, declared
  <2>6. DOMAIN d \subseteq Paths /\ \A p \in DOMAIN d : IsState(d[p])
    BY <1>0, <2>4, <2>5, ReconciledStates
  <2>7. points \subseteq DOMAIN gens
    BY <1>0 DEF Proper
  <2> HIDE DEF points
  <2>8. \E stock : Begin(Drafted(Select(n, "reconcile", None, "enabled", d, None, points),
                                r.replace, stock))
    BY <1>2 DEF Reconcile, ReconcileDraft, d, points, sn
  <2> QED
    BY <1>1, <2>6, <2>7, <2>8
<1>3. ASSUME NEW g \in DOMAIN gens, Checkout(n, g)
      PROVE  \E d : Begin(d) /\ (d.sel.trans # "removal" => Sketched(d.sel))
  <2> DEFINE d == CheckoutSnapshot(sn, gens[g])
             points == sn.points \cup ({gens[g].restore} \ {None})
  <2>1. Proper(gens[g]) /\ head[n] # None
    BY <1>3 DEF AllProper, Checkout, Retained
  <2>2. DOMAIN d \subseteq Paths /\ \A p \in DOMAIN d : IsState(d[p])
    BY <1>0, <2>1, ReconciledStates DEF CheckoutSnapshot, Empty, Proper
  <2>3. (gens[g].life = "enabled" => gens[g].restore = None) => points \subseteq DOMAIN gens
    BY <1>0, <2>1 DEF Proper
  <2>4. gens[g].life = "disabled" =>
          /\ d = Empty
          /\ gens[g].restore \in DOMAIN gens /\ gens[gens[g].restore].life = "enabled"
    BY <2>1 DEF CheckoutSnapshot, Proper
  <2> HIDE DEF d, points
  <2>5. Begin(Drafted(Select(n, "checkout", g, gens[g].life, d, gens[g].restore, points), {}, {}))
    BY <1>3 DEF Checkout, CheckoutDraft, d, points, sn
  <2>6. gens[g].life \in {"enabled", "disabled"}
    BY <2>1 DEF Proper
  <2> QED
    BY <1>1, <2>2, <2>3, <2>4, <2>5, <2>6
<1>4. ASSUME NEW points, points \subseteq DOMAIN gens, head[n] # None,
             Begin(AuthorityDraft(n, points))
      PROVE  \E d : Begin(d) /\ (d.sel.trans # "removal" => Sketched(d.sel))
  <2>1. Begin(Drafted(Select(n, "retention", None, sn.life, sn.desired, sn.restore, points), {}, {}))
    BY <1>4 DEF AuthorityDraft, sn
  <2>2. /\ sn.life \in {"enabled", "disabled"}
        /\ sn.life = "disabled" => /\ sn.desired = Empty
                                   /\ sn.restore \in DOMAIN gens
                                   /\ gens[sn.restore].life = "enabled"
    BY <1>0, <1>4 DEF Proper
  <2> QED
    BY <1>0, <1>1, <1>4, <2>1, <2>2
<1>5. ASSUME NEW g \in DOMAIN gens, AddRestorePoint(n, g) \/ DropRestorePoint(n, g)
      PROVE  \E d : Begin(d) /\ (d.sel.trans # "removal" => Sketched(d.sel))
  <2>1. head[n] # None
    BY <1>5 DEF AddRestorePoint, DropRestorePoint
  <2>2. sn.points \cup {g} \subseteq DOMAIN gens
    BY <1>0, <2>1 DEF Proper
  <2>3. \/ Begin(AuthorityDraft(n, sn.points \cup {g}))
        \/ Begin(AuthorityDraft(n, sn.points \ {g}))
    BY <1>5 DEF AddRestorePoint, DropRestorePoint, sn
  <2> QED
    BY <1>4, <2>1, <2>2, <2>3
<1>6. CASE Disable(n)
  <2> DEFINE points == sn.points \cup {head[n]}
  <2>1. head[n] # None /\ sn.life = "enabled"
    BY <1>6 DEF Disable, sn
  <2>2. points \subseteq DOMAIN gens /\ head[n] \in DOMAIN gens /\ gens[head[n]].life = "enabled"
    BY <1>0, <2>1 DEF Proper
  <2>3. Begin(Drafted(Select(n, "disable", None, "disabled", Empty, head[n], points), {}, {}))
    BY <1>6 DEF Disable, DisableDraft, sn
  <2> HIDE DEF points
  <2> QED
    BY <1>1, <2>2, <2>3 DEF Empty
<1>7. CASE Enable(n)
  <2>1. head[n] # None /\ sn.life = "disabled"
    BY <1>7 DEF Enable, sn
  <2>2. sn.restore \in DOMAIN gens /\ sn.points \subseteq DOMAIN gens
    BY <1>0, <2>1 DEF Proper
  <2>3. Proper(gens[sn.restore])
    BY <2>2 DEF AllProper
  <2>4. Begin(Drafted(Select(n, "enable", sn.restore, "enabled", gens[sn.restore].desired, None,
                            sn.points), {}, {}))
    BY <1>7 DEF Enable, EnableDraft, sn
  <2> QED
    BY <1>1, <2>2, <2>3, <2>4 DEF Proper
<1>8. CASE RemoveNamespace(n)
  <2>1. Begin(RemovalDraft(n))
    BY <1>8 DEF RemoveNamespace
  <2>2. RemovalDraft(n).sel.trans = "removal"
    BY DraftMade DEF RemovalDraft, Select
  <2> QED
    BY <2>1, <2>2
<1> QED
  BY <1>2, <1>3, <1>5, <1>6, <1>7, <1>8

\* What is proper stays proper: generations are never changed.
LEMMA ProperStays ==
  ASSUME DOMAIN gens \subseteq DOMAIN gens', \A i \in DOMAIN gens : gens'[i] = gens[i],
         NEW g, Proper(g)
  PROVE  Proper(g)'
<1>1. /\ \A x \in g.points : x \in DOMAIN gens' /\ gens'[x].ns = g.ns
      /\ g.life = "disabled" => gens'[g.restore].life = "enabled"
  BY DEF Proper
<1> QED
  BY <1>1 DEF Proper, SnapshotValid, IsState

LEMMA SketchedStays ==
  ASSUME DOMAIN gens \subseteq DOMAIN gens', \A i \in DOMAIN gens : gens'[i] = gens[i],
         NEW s, Sketched(s)
  PROVE  Sketched(s)'
<1>1. /\ (s.life = "enabled" => s.restore = None) => s.points \subseteq DOMAIN gens'
      /\ s.life = "disabled" => s.restore \in DOMAIN gens' /\ gens'[s.restore].life = "enabled"
  BY DEF Sketched
<1> QED
  BY <1>1 DEF Sketched, IsState

\* The checks of a plan find the rest.
LEMMA PlanProper ==
  ASSUME NEW d, Sketched(d.sel), Preparable(Plan(d)), d.sel.trans # "removal"
  PROVE  Proper(Plan(d))
<1> DEFINE pl == Plan(d)
<1>1. /\ pl.ns = d.sel.ns /\ pl.trans = d.sel.trans /\ pl.life = d.sel.life
      /\ pl.desired = d.sel.desired /\ pl.restore = d.sel.restore /\ pl.points = d.sel.points
  BY PlanFields
<1>2. Preparable(pl)
  OBVIOUS
<1> HIDE DEF pl
<1>3. SnapshotValid(pl.desired) /\ TransitionValid(pl)
  BY <1>2 DEF Preparable, Admitted
<1>4. RestoreSelected(pl) /\ \A g \in pl.points : gens[g].ns = pl.ns
  BY <1>1, <1>3 DEF TransitionValid
<1>5. /\ pl.life = "enabled" => pl.restore = None
      /\ pl.life = "disabled" => pl.restore \in pl.points
  BY <1>4 DEF RestoreSelected
<1>6. Proper(pl)
  BY <1>1, <1>3, <1>4, <1>5 DEF Sketched, Proper
<1> QED
  BY <1>6 DEF pl

\* Every step keeps generations, draft and plans proper.
LEMMA ProperStep ==
  ASSUME History, Pinned, AllProper, [Next]_vars
  PROVE  AllProper'
<1>1. ASSUME NEW pl \in plans, Commit(pl) PROVE AllProper'
  <2>1. /\ DOMAIN gens \subseteq DOMAIN gens'
        /\ \A i \in DOMAIN gens : gens'[i] = gens[i]
    BY <1>1, CommitGens
  <2>2. draft' = draft /\ \A q \in plans' : q \in plans
    BY <1>1 DEF Commit
  <2>3. /\ \A q \in plans' : q.trans # "removal" => Proper(q)'
        /\ draft' # None /\ draft'.sel.trans # "removal" => Sketched(draft.sel)'
    <3>1. ASSUME NEW q \in plans', q.trans # "removal" PROVE Proper(q)'
      BY <2>1, <2>2, <3>1, ProperStays DEF AllProper
    <3>2. ASSUME draft # None, draft.sel.trans # "removal" PROVE Sketched(draft.sel)'
      <4>1. PICK s : s = draft.sel
        OBVIOUS
      <4>2. Sketched(s)'
        BY <2>1, <3>2, <4>1, SketchedStays DEF AllProper
      <4> QED
        BY <2>2, <4>1, <4>2 DEF Sketched, IsState
    <3> QED
      BY <2>2, <3>1, <3>2
  <2>4. pl.ns \in Namespaces
    BY DEF Pinned
  <2>5. CASE pl.trans = "removal"
    <3>1. gens' = gens /\ head' = [head EXCEPT ![pl.ns] = None]
      BY <1>1, <2>5 DEF Commit
    <3>2. \A i \in DOMAIN gens' : Proper(gens[i])'
      BY <2>1, <3>1, ProperStays DEF AllProper
    <3>3. \A n \in Namespaces : head'[n] # None => gens'[head'[n]].ns = n
      BY <2>4, <3>1 DEF AllProper, History
    <3> QED
      BY <2>3, <3>2, <3>3 DEF AllProper
  <2>6. CASE pl.trans # "removal"
    <3> DEFINE new == [ns |-> pl.ns, prev |-> pl.expected, life |-> pl.life,
                       desired |-> pl.desired, restore |-> pl.restore, points |-> pl.points]
    <3>1. gens' = Append(gens, new) /\ head' = [head EXCEPT ![pl.ns] = Len(gens) + 1]
      BY <1>1, <2>6 DEF Commit
    <3>2. PICK S : gens \in Seq(S)
      BY DEF History
    <3>3. Proper(pl)
      BY <2>6 DEF AllProper
    <3>4. Proper(new)
      BY <3>3 DEF Proper
    <3>5. new.ns = pl.ns
      OBVIOUS
    <3> HIDE DEF new
    <3>6. /\ DOMAIN gens = 1 .. Len(gens) /\ Len(gens) \in Nat
          /\ \A i \in DOMAIN gens' : i \in DOMAIN gens \/ i = Len(gens) + 1
          /\ gens'[Len(gens) + 1] = new
      BY <3>1, <3>2
    <3>7. Proper(new)'
      <4>1. PICK g : g = new /\ g = new'
        BY <3>4, <3>1, <1>1 DEF new, Commit
      <4> QED
        BY <2>1, <3>4, <4>1, ProperStays
    <3>8. ASSUME NEW i \in DOMAIN gens' PROVE Proper(gens[i])'
      <4>1. CASE i \in DOMAIN gens
        <5>1. Proper(gens[i])
          BY <4>1 DEF AllProper
        <5>2. PICK g : g = gens[i] /\ g = gens'[i]
          BY <2>1, <4>1
        <5>3. Proper(g)'
          BY <2>1, <5>1, <5>2, ProperStays
        <5> QED
          BY <5>2, <5>3 DEF Proper, SnapshotValid, IsState
      <4>2. CASE i = Len(gens) + 1
        BY <3>6, <3>7, <4>2 DEF Proper, SnapshotValid, IsState, new
      <4> QED
        BY <3>6, <3>8, <4>1, <4>2
    <3>9. \A n \in Namespaces : head'[n] # None => gens'[head'[n]].ns = n
      <4> SUFFICES ASSUME NEW n \in Namespaces, head'[n] # None PROVE gens'[head'[n]].ns = n
        OBVIOUS
      <4>1. CASE n = pl.ns
        BY <3>1, <3>5, <3>6, <4>1 DEF History
      <4>2. CASE n # pl.ns
        <5>1. head'[n] = head[n]
          BY <3>1, <4>2 DEF History
        <5>2. head[n] \in DOMAIN gens
          BY <5>1, NoneNoIndex
        <5> QED
          BY <2>1, <5>1, <5>2 DEF AllProper
      <4> QED
        BY <4>1, <4>2
    <3> QED
      BY <2>3, <3>8, <3>9 DEF AllProper
  <2> QED
    BY <2>5, <2>6
<1>2. ASSUME UNCHANGED <<head, gens>>, NEW d, draft' = d,
             d # None /\ d.sel.trans # "removal" => Sketched(d.sel),
             \A q \in plans' : q.trans # "removal" => Proper(q)
      PROVE  AllProper'
  BY <1>2 DEF AllProper, Sketched, Proper, SnapshotValid, IsState
<1>3. ASSUME NEW d, Begin(d), d.sel.trans # "removal" => Sketched(d.sel) PROVE AllProper'
  BY <1>2, <1>3 DEF Begin, AllProper
<1>4. CASE Publish
  <2>1. /\ UNCHANGED <<head, gens>> /\ draft # None /\ draft' = None
        /\ Preparable(Plan(draft)) /\ plans' = plans \cup {Plan(draft)}
    BY <1>4 DEF Publish
  <2>2. Plan(draft).trans # "removal" => Proper(Plan(draft))
    BY <2>1, PlanFields, PlanProper DEF AllProper
  <2>3. \A q \in plans' : q.trans # "removal" => Proper(q)
    BY <2>1, <2>2 DEF AllProper
  <2> QED
    BY <1>2, <2>1, <2>3
<1>5. CASE \/ \E pl \in plans : Discard(pl)
           \/ \E p \in Paths, s \in UserStates : UserEdit(p, s)
           \/ Abandon \/ UNCHANGED vars
  <2>1. UNCHANGED <<head, gens>> /\ plans' \subseteq plans /\ draft' \in {draft, None}
    BY <1>5 DEF Discard, UserEdit, Abandon, vars
  <2> QED
    BY <1>2, <2>1 DEF AllProper
<1> QED
  BY <1>1, <1>3, <1>4, <1>5, BegunProper DEF Next

-----------------------------------------------------------------------------
\* What a plan asks for

\* Except at a checkout, the operations are those the transition requires.
LEMMA PlanIs ==
  ASSUME NEW sel, NEW adopt, NEW stock, sel.trans # "checkout"
  PROVE  LET d == Drafted(sel, adopt, stock)
             pl == Plan(d)
             prev == Gen(sel.expected)
             asked == Asked(prev, sel)
         IN /\ d.sel = sel
            /\ pl.ops = {Observed(prev, Seen(Reconciled(o))) : o \in asked}
            /\ pl.sound => d.sound
            /\ \E held : pl.sound <=> /\ \A o \in asked : Restorable(o, held)
                                      /\ \A o \in asked :
                                           Observable(prev, adopt, Seen(Reconciled(o)))
                                      /\ Covered(pl.ops)
<1> DEFINE prev == Gen(sel.expected)
           asked == Asked(prev, sel)
           more == asked \cup {Operation("absent", p, sel.desired[p]) : p \in {}}
           held == stock \cup {o.want.val : o \in {x \in more : x.op = "place" /\ x.want.kind = "file"}}
           d == Drafted(sel, adopt, stock)
           ops == {Observed(prev, Seen(o)) : o \in d.ops}
<1>1. more = asked
  OBVIOUS
<1>2. d.sel = sel /\ d.adopt = adopt /\ d.ops = {Reconciled(o) : o \in more}
  BY DEF Drafted
<1>3. d.sound = \A o \in more : Restorable(o, held)
  BY DEF Drafted
<1> HIDE DEF d
<1>4. Plan(d).ops = ops
  BY <1>2 DEF Plan
<1>5. Plan(d).sound = (/\ d.sound
                       /\ \A o \in d.ops : Observable(prev, adopt, Seen(o))
                       /\ Covered(ops))
  BY <1>2 DEF Plan
<1> HIDE DEF held, more
<1>6. ops = {Observed(prev, Seen(Reconciled(o))) : o \in asked}
  BY <1>1, <1>2
<1>7. (\A o \in d.ops : Observable(prev, adopt, Seen(o))) <=>
        \A o \in asked : Observable(prev, adopt, Seen(Reconciled(o)))
  BY <1>1, <1>2
<1> HIDE DEF ops, asked, prev
<1>8. Plan(d).sound <=> /\ \A o \in asked : Restorable(o, held)
                        /\ \A o \in asked : Observable(prev, adopt, Seen(Reconciled(o)))
                        /\ Covered(Plan(d).ops)
  BY <1>1, <1>3, <1>4, <1>5, <1>7
<1>9. Plan(d).sound => d.sound
  BY <1>5
<1> QED
  BY <1>2, <1>4, <1>6, <1>8, <1>9 DEF d, asked, prev

\* The targets a removal of all removes: a directory with others in it stays.
Goes(gen) ==
  {p \in Claims(gen) : gen.desired[p] = Directory => ~\E c \in Claims(gen) : IsAncestor(p, c)}

\* A transition to nothing requires the removal of those, and no more.
LEMMA OffMutations ==
  ASSUME NEW prev, NEW next, next.life = "disabled", next.desired = Empty,
         \A p \in DOMAIN prev.desired : IsState(prev.desired[p])
  PROVE  /\ Required(prev, next) = Goes(prev)
         /\ \A p \in Goes(prev) : /\ Mutation(prev, next, p) = "remove"
                                  /\ After(prev, next, p) = Tombstone(prev.desired[p])
                                  /\ Present(Before(prev, next, p))
<1>1. Slots(prev, next) = DOMAIN prev.desired /\ Claims(prev) \subseteq DOMAIN prev.desired
  BY DEF Slots, Empty, Claims
<1>2. \A q : ~Effective(next, q)
  BY DEF Effective
<1>3. \A s : ~Present(Tombstone(s))
  BY DEF Present, Tombstone, State
<1>4. ASSUME NEW p \in DOMAIN prev.desired
      PROVE  After(prev, next, p) = Tombstone(prev.desired[p])
  BY DEF After, Reference, Empty
<1>5. ASSUME NEW p \in Claims(prev)
      PROVE  /\ Before(prev, next, p) = prev.desired[p] /\ Present(prev.desired[p])
             /\ Releases(prev, next, p) <=> p \notin Goes(prev)
             /\ Mutation(prev, next, p) = IF p \in Goes(prev) THEN "remove" ELSE "none"
  <2>1. Before(prev, next, p) = prev.desired[p] /\ Present(prev.desired[p])
    BY DEF Before, Claims, Effective
  <2>2. ~Present(After(prev, next, p))
    BY <1>1, <1>3, <1>4
  <2>3. \A q \in DOMAIN prev.desired : Effective(prev, q) <=> q \in Claims(prev)
    BY DEF Claims
  <2>4. Releases(prev, next, p) <=> p \notin Goes(prev)
    BY <1>1, <1>2, <2>1, <2>2, <2>3 DEF Releases, Goes
  <2> QED
    BY <2>1, <2>2, <2>4 DEF Mutation
<1>6. ASSUME NEW p \in DOMAIN prev.desired, p \notin Claims(prev)
      PROVE  Mutation(prev, next, p) = "none"
  <2>1. Before(prev, next, p) = Tombstone(prev.desired[p])
    <3>1. CASE prev.life = "enabled"
      <4>1. Before(prev, next, p) = prev.desired[p] /\ ~Present(prev.desired[p])
        BY <1>6, <3>1 DEF Before, Claims, Effective
      <4> QED
        BY <4>1 DEF IsState, Present, Tombstone
    <3>2. CASE prev.life # "enabled"
      BY <3>2 DEF Before, Reference, Empty
    <3> QED
      BY <3>1, <3>2
  <2>2. ~Releases(prev, next, p)
    BY <1>3, <2>1, DirectoryPresent DEF Releases
  <2> QED
    BY <1>3, <1>4, <2>1, <2>2 DEF Mutation
<1>7. Required(prev, next) = Goes(prev)
  BY <1>1, <1>5, <1>6 DEF Required, Goes
<1> QED
  BY <1>1, <1>4, <1>5, <1>7 DEF Goes

\* Enabling again: everything that is present is placed.
LEMMA OnMutations ==
  ASSUME NEW prev, NEW next, prev.life = "disabled", prev.desired = Empty,
         next.life = "enabled", \A p \in DOMAIN next.desired : IsState(next.desired[p])
  PROVE  /\ Required(prev, next) = Claims(next)
         /\ \A p \in Claims(next) : /\ Mutation(prev, next, p) = "place"
                                    /\ After(prev, next, p) = next.desired[p]
<1>1. Slots(prev, next) = DOMAIN next.desired /\ Claims(next) \subseteq DOMAIN next.desired
  BY DEF Slots, Empty, Claims
<1>2. \A s : ~Present(Tombstone(s))
  BY DEF Present, Tombstone, State
<1>3. ASSUME NEW p \in DOMAIN next.desired
      PROVE  /\ After(prev, next, p) = next.desired[p]
             /\ Before(prev, next, p) = Tombstone(next.desired[p])
             /\ ~Releases(prev, next, p)
  <2>1. Before(prev, next, p) = Tombstone(next.desired[p])
    BY DEF Before, Reference
  <2> QED
    BY <1>2, <2>1, DirectoryPresent DEF After, Releases
<1>4. ASSUME NEW p \in Claims(next) PROVE Mutation(prev, next, p) = "place"
  <2>1. Present(next.desired[p])
    BY DEF Claims, Effective
  <2> QED
    BY <1>1, <1>2, <1>3, <2>1 DEF Mutation
<1>5. ASSUME NEW p \in DOMAIN next.desired, p \notin Claims(next)
      PROVE  Mutation(prev, next, p) = "none"
  <2>1. ~Present(next.desired[p])
    BY <1>5 DEF Claims, Effective
  <2>2. Tombstone(next.desired[p]) = next.desired[p]
    BY <2>1 DEF IsState, Present, Tombstone
  <2> QED
    BY <1>2, <1>3, <2>1, <2>2 DEF Mutation
<1>6. Required(prev, next) = Claims(next)
  BY <1>1, <1>4, <1>5 DEF Required
<1> QED
  BY <1>1, <1>3, <1>4, <1>6

\* Where the user changed nothing, a path is as its owner says or nobody's.
LEMMA LivePath ==
  ASSUME LedgerInv, edited = {}, NEW n \in Namespaces, NEW p \in Paths
  PROVE  /\ p \in Claims(Selected(n)) =>
              live[p] = Selected(n).desired[p] /\ ~ConflictingClaim(n, p)
         /\ p \notin Claims(Selected(n)) =>
              \/ live[p] \in {Nothing, Directory}
              \/ \E m \in Namespaces \ {n} : p \in Claims(Selected(m))
<1>1. LedgerMatchesLive /\ ExclusiveOwnership
  BY DEF LedgerInv, IInv
<1>2. ASSUME p \in Claims(Selected(n)) PROVE ~ConflictingClaim(n, p)
  BY <1>1, <1>2 DEF ExclusiveOwnership, ConflictingClaim, Overlaps
<1> QED
  BY <1>1, <1>2 DEF LedgerMatchesLive, Owns

\* On the way to an owned target there are only directories, or nothing.
LEMMA WayOpen ==
  ASSUME LedgerInv, AllProper, edited = {}, NEW n \in Namespaces,
         NEW p \in Claims(Selected(n)), NEW q \in Ancestors(p)
  PROVE  live[q].kind \in {"none", "dir"}
<1>1. q \in Paths /\ IsAncestor(q, p)
  BY DEF Ancestors
<1>2. CASE q \in Claims(Selected(n))
  <2>1. live[q] = Selected(n).desired[q] /\ Present(Selected(n).desired[q])
    BY <1>1, <1>2, LivePath DEF Claims, Effective
  <2>2. Present(Selected(n).desired[p]) /\ p \in DOMAIN Selected(n).desired
        /\ q \in DOMAIN Selected(n).desired
    BY <1>2 DEF Claims, Effective
  <2>3. head[n] # None
    BY NoHeadNoClaims DEF Selected
  <2>4. SnapshotValid(Selected(n).desired)
    BY <2>3, SelectedProper DEF LedgerInv, IInv, Proper
  <2> QED
    BY <1>1, <2>1, <2>2, <2>4 DEF SnapshotValid
<1>3. CASE \E m \in Namespaces \ {n} : q \in Claims(Selected(m))
  BY <1>1, <1>3 DEF LedgerInv, IInv, ExclusiveOwnership
<1>4. CASE live[q] \in {Nothing, Directory}
  BY <1>4 DEF Nothing, Directory, State
<1> QED
  BY <1>1, <1>2, <1>3, <1>4, LivePath

\* A directory with no target in it holds at most directories that were left.
LEMMA HoldsDirectories ==
  ASSUME LedgerInv, edited = {}, NEW n \in Namespaces, NEW p \in Claims(Selected(n)),
         ~\E c \in Claims(Selected(n)) : IsAncestor(p, c)
  PROVE  IsEmptyDir(p) <=> ~\E q \in Paths : IsAncestor(p, q) /\ live[q] = Directory
<1>1. ASSUME NEW q \in Paths, IsAncestor(p, q) PROVE Present(live[q]) <=> live[q] = Directory
  <2>1. q \notin Claims(Selected(n))
    BY <1>1
  <2>2. ~\E m \in Namespaces \ {n} : q \in Claims(Selected(m))
    BY <1>1 DEF LedgerInv, IInv, ExclusiveOwnership
  <2>3. live[q] \in {Nothing, Directory}
    BY <2>1, <2>2, LivePath
  <2> QED
    BY <2>3, DirectoryPresent DEF Nothing, Present
<1> QED
  BY <1>1 DEF IsEmptyDir

\* Whether a transition is valid depends on what was selected only.
LEMMA SameTransition ==
  ASSUME NEW a, NEW b, TransitionValid(a), a.trans \in {"disable", "enable", "removal"},
         b.ns = a.ns, b.expected = a.expected, b.trans = a.trans, b.source = a.source,
         b.life = a.life, b.desired = a.desired, b.restore = a.restore, b.points = a.points
  PROVE  TransitionValid(b)
<1>1. CASE a.trans = "disable"
  BY <1>1 DEF TransitionValid, RestoreSelected
<1>2. CASE a.trans = "enable"
  BY <1>2 DEF TransitionValid, RestoreSelected
<1>3. CASE a.trans = "removal"
  BY <1>3 DEF TransitionValid, RestoreSelected
<1> QED
  BY <1>1, <1>2, <1>3

\* Disabling and removal: the targets go, unless a directory among them still
\* holds one that was left behind.
LEMMA OffWorks ==
  ASSUME LedgerInv, AllProper, edited = {}, NEW n \in Namespaces, head[n] # None,
         NEW sel, sel.ns = n, sel.expected = head[n], sel.trans \in {"disable", "removal"},
         sel.life = "disabled", sel.desired = Empty, TransitionValid(sel)
  PROVE  Works(Drafted(sel, {}, {})) <=> ~Encumbered(n)
<1> DEFINE prev == Selected(n)
           d == Drafted(sel, {}, {})
           pl == Plan(d)
           asked == {Operation("remove", p, Tombstone(prev.desired[p])) : p \in Goes(prev)}
           gone == {Seen(x) : x \in asked}
           Stuck(p) == live[p] = Directory /\ \E q \in Paths : IsAncestor(p, q) /\ live[q] = Directory
<1>1. /\ History /\ Proper(prev) /\ Gen(sel.expected) = prev
      /\ Goes(prev) \subseteq Claims(prev) /\ Claims(prev) \subseteq Paths
  <2>1. History /\ Gen(sel.expected) = prev
    BY DEF LedgerInv, IInv, Selected
  <2>2. Proper(prev)
    BY <2>1, SelectedProper
  <2> QED
    BY <2>1, <2>2 DEF Goes, Claims, Proper
<1>2. ASSUME NEW p \in Goes(prev)
      PROVE  /\ live[p] = prev.desired[p] /\ Present(live[p]) /\ ~ConflictingClaim(n, p)
             /\ live[p].kind = "dir" <=> live[p] = Directory
             /\ live[p] = Directory => ~\E c \in Claims(prev) : IsAncestor(p, c)
  <2>1. live[p] = prev.desired[p] /\ ~ConflictingClaim(n, p)
    BY <1>1, LivePath
  <2>2. Present(prev.desired[p]) /\ IsState(prev.desired[p])
    BY <1>1 DEF Claims, Effective, Proper
  <2>3. Directory.kind = "dir"
    BY DEF Directory, State
  <2> QED
    BY <2>1, <2>2, <2>3 DEF IsState, Goes
<1>3. Encumbered(n) <=> \E p \in Goes(prev) : Stuck(p)
  <2>1. ASSUME Encumbered(n) PROVE \E p \in Goes(prev) : Stuck(p)
    BY <2>1 DEF Encumbered, Goes
  <2>2. ASSUME NEW p \in Goes(prev), Stuck(p) PROVE Encumbered(n)
    BY <1>1, <1>2, <2>2 DEF Encumbered
  <2> QED
    BY <2>1, <2>2
<1>4. Asked(prev, sel) = asked
  <2>1. /\ Required(prev, sel) = Goes(prev)
        /\ \A p \in Goes(prev) : /\ Mutation(prev, sel, p) = "remove"
                                 /\ After(prev, sel, p) = Tombstone(prev.desired[p])
    BY <1>1, OffMutations DEF Proper
  <2> QED
    BY <2>1 DEF Asked
<1>5. ASSUME NEW o \in gone
      PROVE  /\ o.op = "remove" /\ o.path \in Goes(prev) /\ o.seen = live[o.path]
             /\ o.want = Tombstone(prev.desired[o.path])
             /\ Observed(prev, o) = o
  BY DEF Operation, Seen, Observed
<1>a. ASSUME NEW x \in asked
      PROVE  Reconciled(x) = x /\ Seen(x) \in gone /\ Observed(prev, Seen(x)) = Seen(x)
  <2>1. Reconciled(x) = x
    BY DEF Operation, Reconciled
  <2> QED
    BY <1>5, <2>1
<1>6. pl.ops = gone /\ \A p \in Goes(prev) : \E o \in gone : o.path = p
  <2>1. ASSUME NEW p \in Goes(prev) PROVE \E o \in gone : o.path = p
    <3>1. Seen(Operation("remove", p, Tombstone(prev.desired[p]))).path = p
      BY DEF Operation, Seen
    <3> QED
      BY <3>1
  <2>2. pl.ops = {Observed(prev, Seen(Reconciled(x))) : x \in asked}
    BY <1>1, <1>4, PlanIs
  <2>3. pl.ops = gone
    <3> HIDE DEF asked, pl
    <3> QED
      BY <1>a, <2>2
  <2> QED
    BY <2>1, <2>3
<1>7. ASSUME NEW o \in gone PROVE Observable(prev, {}, o) <=> ~Stuck(o.path)
  <2>1. AncestorsOpen(o)
    BY <1>1, <1>5, WayOpen DEF AncestorsOpen
  <2>2. live[o.path] = Directory =>
          (IsEmptyDir(o.path) <=> ~\E q \in Paths : IsAncestor(o.path, q) /\ live[q] = Directory)
    BY <1>1, <1>2, <1>5, HoldsDirectories
  <2> QED
    BY <1>2, <1>5, <2>1, <2>2 DEF Observable
<1>8. pl.sound <=> ~Encumbered(n)
  <2>1. (\A o \in gone : ~Stuck(o.path)) <=> ~\E p \in Goes(prev) : Stuck(p)
    <3> HIDE DEF Stuck, gone
    <3> QED
      BY <1>5, <1>6
  <2>2. Covered(gone) /\ \A x \in asked : \A held : Restorable(x, held)
    <3>1. Covered(gone)
      BY <1>5 DEF Covered
    <3>2. \A x \in asked : \A held : Restorable(x, held)
      BY DEF Operation, Restorable
    <3> QED
      BY <3>1, <3>2
  <2>3. PICK held :
          pl.sound <=> /\ \A o \in Asked(Gen(sel.expected), sel) : Restorable(o, held)
                       /\ \A o \in Asked(Gen(sel.expected), sel) :
                            Observable(Gen(sel.expected), {}, Seen(Reconciled(o)))
                       /\ Covered(pl.ops)
    BY PlanIs
  <2> HIDE DEF Stuck, pl, gone, prev
  <2>4. (\A x \in asked : Observable(prev, {}, Seen(Reconciled(x)))) <=>
          \A o \in gone : ~Stuck(o.path)
    <3>1. (\A x \in asked : Observable(prev, {}, Seen(Reconciled(x)))) <=>
            \A x \in asked : Observable(prev, {}, Seen(x))
      BY <1>a
    <3>2. (\A x \in asked : Observable(prev, {}, Seen(x))) <=>
            \A o \in gone : Observable(prev, {}, o)
      BY DEF gone
    <3> QED
      BY <1>7, <3>1, <3>2
  <2> HIDE DEF asked
  <2> QED
    BY <1>1, <1>3, <1>4, <1>6, <2>1, <2>2, <2>3, <2>4
<1>9. Admitted(pl)
  <2>0. d.sel = sel
    BY PlanIs
  <2>1. pl.ns = n /\ pl.expected = head[n] /\ pl.life = "disabled" /\ pl.desired = Empty
    BY <2>0, PlanFields
  <2>2. HeadExpected(pl) /\ SnapshotValid(pl.desired) /\ Claims(pl) = {}
    BY <2>1 DEF HeadExpected, SnapshotValid, Claims, Empty
  <2>3. TransitionValid(pl)
    BY <2>0, PlanFields, SameTransition
  <2>4. \A o \in pl.ops : ~ConflictingClaim(n, o.path) /\ Owns(n, o.path)
    BY <1>1, <1>2, <1>5, <1>6 DEF Owns
  <2>5. /\ Required(prev, pl) = Goes(prev)
        /\ \A p \in Goes(prev) : /\ Mutation(prev, pl, p) = "remove"
                                 /\ After(prev, pl, p) = Tombstone(prev.desired[p])
                                 /\ Present(Before(prev, pl, p))
    BY <1>1, <2>1, OffMutations DEF Proper
  <2>6. Derivable(prev, pl) /\ DestinationsValid(pl.ops)
    BY <1>5, <1>6, <2>5 DEF Derivable, DestinationsValid
  <2>7. \A o \in pl.ops : o.op = "remove" /\ o.path \in Required(prev, pl)
                         /\ Matches(prev, pl, pl.ops, o)
    BY <1>1, <1>5, <1>6, <2>5 DEF Matches, Claims
  <2>8. \A p \in Required(prev, pl) : \E o \in pl.ops : o.path = p /\ o.op # "absent"
    BY <1>5, <1>6, <2>5
  <2>9. ManifestValid(prev, pl, pl.ops)
    BY <2>6, <2>7, <2>8 DEF ManifestValid
  <2> QED
    BY <1>1, <2>1, <2>2, <2>3, <2>4, <2>9 DEF Admitted
<1>10. ASSUME pl.sound PROVE TargetsAccepted(pl)
  <2>1. \A o \in gone : live[o.path] = Directory => IsEmptyDir(o.path)
    <3> SUFFICES ASSUME NEW o \in gone, live[o.path] = Directory PROVE IsEmptyDir(o.path)
      OBVIOUS
    <3>1. ~Stuck(o.path)
      BY <1>3, <1>5, <1>8, <1>10
    <3> QED
      BY <3>1, <1>1, <1>2, <1>5, HoldsDirectories
  <2> QED
    BY <1>5, <1>6, <2>1 DEF TargetsAccepted
<1>11. pl.sound => d.sound
  BY PlanIs
<1> HIDE DEF d
<1>12. Works(d) <=> ~Encumbered(n)
  BY <1>8, <1>9, <1>10, <1>11 DEF Works, Preparable
<1> QED
  BY <1>12 DEF d

\* Enabling: the targets come back, unless something is in the way.
LEMMA OnWorks ==
  ASSUME LedgerInv, AllProper, edited = {}, NEW n \in Namespaces, head[n] # None,
         Selected(n).life = "disabled", NEW gen, gen.life = "enabled", Proper(gen),
         NEW sel, sel.ns = n, sel.expected = head[n], sel.trans = "enable",
         sel.life = "enabled", sel.desired = gen.desired, TransitionValid(sel)
  PROVE  Works(Drafted(sel, {}, {})) <=> ~Obstructed(n, gen)
<1> DEFINE prev == Selected(n)
           d == Drafted(sel, {}, {})
           pl == Plan(d)
           want(p) == gen.desired[p]
           There(p) == want(p) = Directory /\ live[p] = Directory
           Op(p) == [op |-> IF There(p) THEN "assert" ELSE "place", path |-> p,
                     want |-> want(p), read |-> live[p], seen |-> live[p]]
           back == {Op(p) : p \in Claims(gen)}
           asked == {Operation("place", p, want(p)) : p \in Claims(gen)}
           Way(p) == \A q \in Ancestors(p) : live[q].kind \in {"none", "dir"}
           Free(p) == Present(live[p]) => want(p) = Directory
           Made(p) == \A q \in Ancestors(p) :
                        Present(live[q]) \/ (q \in Claims(gen) /\ want(q) = Directory /\ ~There(q))
           Holds(p) == \E c \in Claims(gen) : IsAncestor(p, c)
           Fits(p) == /\ ~ConflictingClaim(n, p)
                      /\ There(p) => Holds(p)
                      /\ ~There(p) /\ Present(live[p]) => want(p) # Directory /\ live[p].kind # "dir"
<1>1. /\ History /\ Gen(sel.expected) = prev /\ prev.desired = Empty /\ Claims(prev) = {}
      /\ \A p : ~Effective(prev, p)
  <2>1. History /\ Gen(sel.expected) = prev
    BY DEF LedgerInv, IInv, Selected
  <2>2. Proper(prev)
    BY <2>1, SelectedProper
  <2> QED
    BY <2>1, <2>2 DEF Proper, Claims, Effective
<1>2. ASSUME NEW p \in Claims(gen)
      PROVE  /\ p \in Paths /\ p \in DOMAIN gen.desired /\ Present(want(p)) /\ IsState(want(p))
             /\ \A q \in Claims(gen) : IsAncestor(p, q) => want(p) = Directory
  <2>1. p \in Paths /\ p \in DOMAIN gen.desired /\ Present(want(p)) /\ IsState(want(p))
    BY DEF Claims, Effective, Proper
  <2>2. ASSUME NEW q \in Claims(gen), IsAncestor(p, q) PROVE want(p) = Directory
    <3>1. q \in DOMAIN gen.desired /\ Present(gen.desired[q])
      BY DEF Claims, Effective
    <3>2. want(p).kind = "dir"
      BY <2>1, <2>2, <3>1 DEF Proper, SnapshotValid
    <3> QED
      BY <2>1, <3>2 DEF IsState
  <2> QED
    BY <2>1, <2>2
<1>3. Asked(prev, sel) = asked /\ Claims(sel) = Claims(gen)
  <2>1. Claims(sel) = Claims(gen)
    BY DEF Claims, Effective
  <2>2. /\ Required(prev, sel) = Claims(sel)
        /\ \A p \in Claims(sel) : Mutation(prev, sel, p) = "place" /\ After(prev, sel, p) = want(p)
    BY <1>1, OnMutations DEF Proper
  <2> QED
    BY <2>1, <2>2 DEF Asked
<1>4. ASSUME NEW p \in Claims(gen)
      PROVE  LET o == Operation("place", p, want(p)) IN
             /\ Reconciled(o) = o /\ Observed(prev, Seen(o)) = Op(p)
             /\ Observable(prev, {}, Seen(o)) <=> Way(p) /\ Free(p)
             /\ \A held : Restorable(o, held)
  <2> DEFINE o == Operation("place", p, want(p))
  <2>1. /\ o = [op |-> "place", path |-> p, want |-> want(p), read |-> live[p]]
        /\ Seen(o) = [op |-> "place", path |-> p, want |-> want(p), read |-> live[p],
                      seen |-> live[p]]
    BY DEF Operation, Seen
  <2>2. Reconciled(o) = o
    BY <2>1 DEF Reconciled
  <2>3. Observed(prev, Seen(o)) = Op(p)
    BY <1>1, <2>1 DEF Observed
  <2>4. Observable(prev, {}, Seen(o)) <=> Way(p) /\ Free(p)
    BY <1>1, <2>1 DEF Observable, AncestorsOpen, MayReplace
  <2>5. \A held : Restorable(o, held)
    BY <2>1 DEF Restorable
  <2> QED
    BY <2>2, <2>3, <2>4, <2>5
<1>5. pl.ops = back
  <2>1. pl.ops = {Observed(prev, Seen(Reconciled(o))) : o \in asked}
    BY <1>1, <1>3, PlanIs
  <2> HIDE DEF Op
  <2> QED
    BY <1>4, <2>1
<1>6. pl.sound <=> (\A p \in Claims(gen) : Way(p) /\ Free(p)) /\ Covered(back)
  <2>1. PICK held :
          pl.sound <=> /\ \A o \in Asked(Gen(sel.expected), sel) : Restorable(o, held)
                       /\ \A o \in Asked(Gen(sel.expected), sel) :
                            Observable(Gen(sel.expected), {}, Seen(Reconciled(o)))
                       /\ Covered(pl.ops)
    BY PlanIs
  <2> HIDE DEF pl, back, prev, Way, Free, want
  <2>2. \A o \in asked : Restorable(o, held)
    BY <1>4
  <2>3. (\A o \in asked : Observable(prev, {}, Seen(Reconciled(o)))) <=>
          \A p \in Claims(gen) : Way(p) /\ Free(p)
    BY <1>4
  <2> HIDE DEF asked
  <2> QED
    BY <1>1, <1>3, <1>5, <2>1, <2>2, <2>3
<1>7. /\ \A o \in back : o.path \in Claims(gen) /\ o = Op(o.path)
      /\ \A p \in Claims(gen) : Op(p) \in back
  OBVIOUS
<1>8. Covered(back) <=> \A p \in Claims(gen) : Made(p)
  <2>1. ASSUME Covered(back), NEW p \in Claims(gen), NEW q \in Ancestors(p), ~Present(live[q])
        PROVE  q \in Claims(gen) /\ want(q) = Directory /\ ~There(q)
    <3>1. Op(p) \in back /\ Op(p).op \in {"place", "assert"} /\ Op(p).path = p
      OBVIOUS
    <3>2. PICK x \in back : x.op = "place" /\ x.path = q /\ x.want = Directory
      BY <2>1, <3>1 DEF Covered
    <3> QED
      BY <3>2
  <2>2. ASSUME \A p \in Claims(gen) : Made(p)
        PROVE  Covered(back)
    <3> SUFFICES ASSUME NEW o \in back, NEW q \in Ancestors(o.path), ~Present(live[q])
                 PROVE  \E x \in back : x.op = "place" /\ x.path = q /\ x.want = Directory
      BY DEF Covered
    <3>1. q \in Claims(gen) /\ want(q) = Directory /\ ~There(q)
      BY <1>7, <2>2
    <3>2. Op(q) \in back /\ Op(q).op = "place" /\ Op(q).path = q /\ Op(q).want = Directory
      BY <3>1
    <3> QED
      BY <3>2
  <2> QED
    BY <2>1, <2>2
<1>9. /\ pl.ns = n /\ pl.expected = head[n] /\ pl.life = "enabled" /\ pl.desired = gen.desired
      /\ Claims(pl) = Claims(gen) /\ HeadExpected(pl) /\ SnapshotValid(pl.desired)
      /\ TransitionValid(pl)
  <2>0. d.sel = sel
    BY PlanIs
  <2>1. pl.ns = n /\ pl.expected = head[n] /\ pl.life = "enabled" /\ pl.desired = gen.desired
    BY <2>0, PlanFields
  <2>2. TransitionValid(pl)
    BY <2>0, PlanFields, SameTransition
  <2> HIDE DEF pl
  <2> QED
    BY <2>1, <2>2 DEF Claims, Effective, HeadExpected, Proper
<1>10. \A p \in Claims(gen) : Encloses(back, Op(p)) <=> Holds(p)
  <2>1. \A p \in Claims(gen) : Op(p).path = p
    OBVIOUS
  <2> HIDE DEF back, Op
  <2> QED
    BY <1>7, <2>1 DEF Encloses
<1>11. Admitted(pl) => \A p \in Claims(gen) : Fits(p)
  <2> SUFFICES ASSUME Admitted(pl), NEW p \in Claims(gen) PROVE Fits(p)
    OBVIOUS
  <2>1. Op(p) \in back /\ Op(p).op # "absent" /\ Op(p).path = p
    OBVIOUS
  <2>2. ~ConflictingClaim(n, p) /\ ~NeedsOwner(back, Op(p))
    BY <1>1, <1>5, <1>9, <2>1 DEF Admitted, Owns
  <2>3. CASE There(p)
    BY <1>10, <2>2, <2>3 DEF NeedsOwner
  <2>4. CASE ~There(p)
    BY <2>2, <2>4 DEF NeedsOwner
  <2> QED
    BY <2>3, <2>4
<1>12. ASSUME \A p \in Claims(gen) : Fits(p) PROVE Admitted(pl)
  <2>1. ASSUME NEW o \in back
        PROVE  /\ ~ConflictingClaim(n, o.path) /\ ~NeedsOwner(back, o)
               /\ o.op \in {"place", "assert"}
    <3>1. PICK p \in Claims(gen) : o = Op(p)
      OBVIOUS
    <3>2. CASE There(p)
      <4>1. Holds(p) /\ ~ConflictingClaim(n, p)
        BY <1>12, <3>2
      <4> QED
        BY <1>10, <3>1, <3>2, <4>1 DEF NeedsOwner
    <3>3. CASE ~There(p)
      BY <1>12, <3>1, <3>3 DEF NeedsOwner
    <3> QED
      BY <3>2, <3>3
  <2>2. /\ Required(prev, pl) = Claims(gen)
        /\ \A p \in Claims(gen) : Mutation(prev, pl, p) = "place" /\ After(prev, pl, p) = want(p)
    BY <1>1, <1>9, OnMutations DEF Proper
  <2>3. Derivable(prev, pl)
    BY <2>2 DEF Derivable
  <2>4. DestinationsValid(back)
    <3> SUFFICES ASSUME NEW a \in back, NEW b \in back, IsAncestor(a.path, b.path)
                 PROVE  a.op \in {"place", "assert"} /\ a.want = Directory
      BY DEF DestinationsValid
    <3>1. a.path \in Claims(gen) /\ b.path \in Claims(gen) /\ a.want = want(a.path)
      OBVIOUS
    <3> QED
      BY <1>2, <2>1, <3>1
  <2>5. ASSUME NEW o \in back
        PROVE  o.op # "absent" /\ o.path \in Required(prev, pl) /\ Matches(prev, pl, back, o)
    <3>1. PICK p \in Claims(gen) : o = Op(p)
      OBVIOUS
    <3>2. o.path = p /\ o.want = want(p) /\ o.seen = live[p]
      BY <3>1
    <3>3. CASE There(p)
      <4>1. o.op = "assert" /\ Encloses(back, o)
        BY <1>10, <1>12, <3>1, <3>3
      <4> HIDE DEF prev, pl, back
      <4> QED
        BY <1>1, <2>2, <3>2, <3>3, <4>1 DEF Matches
    <3>4. CASE ~There(p)
      <4>1. o.op = "place" /\ (want(p) = Directory => ~Present(live[p]))
        BY <1>12, <3>1, <3>4
      <4> HIDE DEF prev, pl, back
      <4> QED
        BY <1>1, <2>2, <3>2, <4>1 DEF Matches
    <3> QED
      BY <3>3, <3>4
  <2>6. \A p \in Required(prev, pl) : \E o \in back : o.path = p /\ o.op # "absent"
    <3> SUFFICES ASSUME NEW p \in Claims(gen) PROVE \E o \in back : o.path = p /\ o.op # "absent"
      BY <2>2
    <3> WITNESS Op(p) \in back
    <3> QED
      OBVIOUS
  <2> HIDE DEF prev, pl, back
  <2>7. ManifestValid(prev, pl, back)
    BY <2>3, <2>4, <2>5, <2>6 DEF ManifestValid
  <2> QED
    BY <1>1, <1>5, <1>9, <1>12, <2>1, <2>7 DEF Admitted
<1>13. TargetsAccepted(pl)
  <2>1. \A o \in back : o.op = "assert" => live[o.path] = o.want
    OBVIOUS
  <2>2. \A o \in back : o.op # "remove"
    OBVIOUS
  <2> HIDE DEF back, pl
  <2> QED
    BY <1>1, <1>5, <1>9, <2>1, <2>2 DEF TargetsAccepted, Empty
<1>14. Works(d) <=> \A p \in Claims(gen) : Way(p) /\ Free(p) /\ Made(p) /\ Fits(p)
  <2>1. pl.sound => d.sound
    BY PlanIs
  <2> HIDE DEF d, back, Way, Free, Made, Fits
  <2> QED
    BY <1>6, <1>8, <1>11, <1>12, <1>13, <2>1 DEF Works, Preparable
<1>15. ASSUME Obstructed(n, gen), \A p \in Claims(gen) : Way(p) /\ Free(p) /\ Made(p) /\ Fits(p)
       PROVE  FALSE
  <2>1. PICK p \in Claims(gen) :
          \/ ConflictingClaim(n, p)
          \/ live[p] = Directory /\ (want(p) = Directory => ~Holds(p))
          \/ \E q \in Ancestors(p) \ Claims(gen) : ~Present(live[q])
    BY <1>15 DEF Obstructed
  <2>2. ~ConflictingClaim(n, p)
    BY <1>15
  <2>3. ~(live[p] = Directory /\ (want(p) = Directory => ~Holds(p)))
    BY <1>15, DirectoryPresent
  <2>4. \A q \in Ancestors(p) \ Claims(gen) : Present(live[q])
    BY <1>15
  <2> QED
    BY <2>1, <2>2, <2>3, <2>4
<1>16. ASSUME ~Obstructed(n, gen), NEW p \in Claims(gen)
       PROVE  Way(p) /\ Free(p) /\ Made(p) /\ Fits(p)
  <2>1. /\ ~ConflictingClaim(n, p)
        /\ live[p] = Directory => want(p) = Directory /\ Holds(p)
        /\ \A q \in Ancestors(p) : Present(live[q]) \/ q \in Claims(gen)
    BY <1>16 DEF Obstructed
  <2>2. ASSUME NEW q \in Paths, q = p \/ IsAncestor(q, p) PROVE live[q] \in {Nothing, Directory}
    <3>1. ~\E m \in Namespaces \ {n} : q \in Claims(Selected(m))
      BY <2>1, <2>2 DEF ConflictingClaim, Overlaps
    <3>2. q \notin Claims(Selected(n))
      BY <1>1
    <3> QED
      BY <3>1, <3>2, LivePath
  <2>3. ~Present(Nothing) /\ Nothing.kind = "none" /\ Directory.kind = "dir"
    BY DEF Nothing, Directory, State, Present
  <2>4. Way(p)
    BY <2>2, <2>3 DEF Ancestors
  <2>5. Free(p) /\ Fits(p)
    BY <1>2, <2>1, <2>2, <2>3
  <2>6. Made(p)
    <3> SUFFICES ASSUME NEW q \in Ancestors(p), ~Present(live[q])
                 PROVE  q \in Claims(gen) /\ want(q) = Directory /\ ~There(q)
      OBVIOUS
    <3>1. q \in Claims(gen) /\ IsAncestor(q, p)
      BY <2>1 DEF Ancestors
    <3> QED
      BY <1>2, <3>1, DirectoryPresent
  <2> QED
    BY <2>4, <2>5, <2>6
<1> HIDE DEF Way, Free, Made, Fits, d
<1>17. Works(d) <=> ~Obstructed(n, gen)
  BY <1>14, <1>15, <1>16
<1> QED
  BY <1>17 DEF d

\* The three commands ask for valid transitions, so what is in the way decides.
LEMMA NeverWedgedNow ==
  ASSUME WedgeInv
  PROVE  NeverWedged
<1> SUFFICES ASSUME edited = {}, NEW n \in Namespaces, head[n] # None
             PROVE  /\ Works(RemovalDraft(n)) <=> ~Encumbered(n)
                    /\ Selected(n).life = "enabled" => (Works(DisableDraft(n)) <=> ~Encumbered(n))
                    /\ Selected(n).life = "disabled" =>
                         (Works(EnableDraft(n)) <=> ~Obstructed(n, gens[Selected(n).restore]))
  BY DEF NeverWedged
<1> DEFINE sn == Selected(n)
<1>1. /\ LedgerInv /\ AllProper /\ History /\ head[n] \in DOMAIN gens
      /\ sn = gens[head[n]] /\ Proper(sn) /\ sn.ns = n /\ Gen(head[n]) = sn
  <2>1. LedgerInv /\ AllProper /\ History
    BY DEF WedgeInv, LedgerInv, IInv
  <2> QED
    BY <2>1, SelectedProper DEF Selected
<1>2. \A g \in sn.points \cup {head[n]} : g \in DOMAIN gens /\ gens[g].ns = n
  BY <1>1 DEF Proper
<1> HIDE DEF sn
<1>3. Works(RemovalDraft(n)) <=> ~Encumbered(n)
  <2> DEFINE sel == Select(n, "removal", None, "disabled", Empty, None, sn.points)
  <2>1. TransitionValid(sel)
    BY <1>1, <1>2 DEF TransitionValid, Select
  <2>2. Works(Drafted(sel, {}, {})) <=> ~Encumbered(n)
    BY <1>1, <2>1, OffWorks DEF Select
  <2> QED
    BY <2>2 DEF RemovalDraft, sn
<1>4. ASSUME sn.life = "enabled" PROVE Works(DisableDraft(n)) <=> ~Encumbered(n)
  <2> DEFINE sel == Select(n, "disable", None, "disabled", Empty, head[n], sn.points \cup {head[n]})
  <2>1. TransitionValid(sel)
    BY <1>1, <1>2, <1>4 DEF TransitionValid, Select, RestoreSelected
  <2>2. Works(Drafted(sel, {}, {})) <=> ~Encumbered(n)
    BY <1>1, <2>1, OffWorks DEF Select
  <2> QED
    BY <2>2 DEF DisableDraft, sn
<1>5. ASSUME sn.life = "disabled"
      PROVE  Works(EnableDraft(n)) <=> ~Obstructed(n, gens[sn.restore])
  <2> DEFINE gen == gens[sn.restore]
             sel == Select(n, "enable", sn.restore, "enabled", gen.desired, None, sn.points)
  <2>1. /\ sn.restore \in sn.points /\ sn.restore \in DOMAIN gens /\ gen.ns = n
        /\ gen.life = "enabled" /\ Proper(gen)
    BY <1>1, <1>2, <1>5 DEF Proper, AllProper
  <2>2. TransitionValid(sel)
    BY <1>1, <1>2, <1>5, <2>1 DEF TransitionValid, Select, RestoreSelected
  <2>3. Works(Drafted(sel, {}, {})) <=> ~Obstructed(n, gen)
    BY <1>1, <1>5, <2>1, <2>2, OnWorks DEF Select, sn
  <2> QED
    BY <2>3 DEF EnableDraft, sn
<1> QED
  BY <1>3, <1>4, <1>5 DEF sn

\* Where the user changed nothing, a namespace can be disabled and removed unless a
\* directory it owns holds one that a transition left behind, and enabled unless
\* another namespace, such a directory or the absence of one is in the way
\* (prepare_inner, derive_owned_transition, PinnedTarget::verify_prior_state).
THEOREM WedgeSafe == Spec => []NeverWedged
<1>1. Init => WedgeInv
  <2> SUFFICES ASSUME Init PROVE WedgeInv
    OBVIOUS
  <2>1. IInv
    BY Initially
  <2>2. live \in [Paths -> {Nothing}] /\ plans = {} /\ draft = None /\ DOMAIN gens = {}
    BY DEF Init
  <2>3. \A n \in Namespaces : head[n] = None /\ Claims(Selected(n)) = {}
    BY NoHeadNoClaims DEF Init, Selected
  <2>4. LedgerMatchesLive
    BY <2>2, <2>3 DEF LedgerMatchesLive, Owns
  <2> QED
    BY <2>1, <2>2, <2>3, <2>4 DEF WedgeInv, LedgerInv, LiveType, Pinned, AllProper
<1>2. WedgeInv /\ [Next]_vars => WedgeInv'
  BY LedgerStep, ProperStep DEF WedgeInv, LedgerInv, IInv
<1>3. WedgeInv => NeverWedged
  BY NeverWedgedNow
<1> QED
  BY <1>1, <1>2, <1>3, PTL DEF Spec
=============================================================================
