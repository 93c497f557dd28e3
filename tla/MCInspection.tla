---------------------------- MODULE MCInspection ----------------------------
\* An instance of Inspection for TLC.
EXTENDS Inspection

CONSTANTS p1, p2, k1, b, t1, l1

\* The first plan is built from a pack, the second places a tree of one file.
ArtifactsOf == [p \in Plan |-> IF p = p1 THEN Blob ELSE {}]
PacksOf == [p \in Plan |-> IF p = p1 THEN Pack ELSE {}]
MembersOf == [k \in Pack |-> Blob]
PlacesOf == [p \in Plan |-> IF p = p2 THEN Tree ELSE {}]
EntriesOf == [t \in Tree |-> Leaf]

Keeping(n, g) == [keep |-> n, points |-> g, pins |-> {}]
Short == Keeping(1, {})
AllAuthorities == {Short, Keeping(2, {p1})}

NoFaults == {[kills |-> 0, cuts |-> 0]}

\* A store that may lose a file and is checked; one that is only read.
Damaged == [rots |-> 1, kinds |-> {"fsck"}]
Busy == [rots |-> 0, kinds |-> {"namespace", "details", "status",
                                "tree", "inventory"}]
DamagedOrBusy == {Damaged, Busy}
=============================================================================
