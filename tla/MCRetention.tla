---------------------------- MODULE MCRetention ----------------------------
\* Instances of Retention for TLC.
EXTENDS Retention

CONSTANTS p1, p2, p3, k1, a, b, t1, l1

\* An authority that keeps n generations and pins nothing.
History(n) == [keep |-> n, points |-> {}, pins |-> {}]
Short == History(1)
Long == History(2)

Restoring(g) == [keep |-> 1, points |-> {g}, pins |-> {}]
Pinning(p) == [keep |-> 1, points |-> {}, pins |-> {p}]

\* Histories that shrink and grow; authorities that pin the first generation
\* or its plan.
Histories == {Short, Long}
AllAuthorities == {Short, Long, Restoring(p1), Pinning(p1)}

\* No fault, deaths only, or losses of power only.
Upto(k, c) == [kills |-> k, cuts |-> c]
NoFaults == {Upto(0, 0)}
DeathsOrCuts == {Upto(2, 0), Upto(0, 1)}
DeathOrCut == {Upto(1, 0), Upto(0, 1)}

\* All but the first plan share an artifact; the pack holds both.
ArtifactsOf == [p \in Plan |-> IF p = p1 THEN {a} ELSE Blob \ {a}]
NoArtifacts == [p \in Plan |-> {}]
NoPacks == [p \in Plan |-> {}]
PacksOf == [p \in Plan |-> IF p = p1 THEN {k1} ELSE {}]
MembersOf == [k \in Pack |-> Blob]

\* The second plan places a tree that lists one file.
PlacesOf == [p \in Plan |-> IF p = p2 THEN Tree ELSE {}]
EntriesOf == [t \in Tree |-> Leaf]
=============================================================================
