----------------------------- MODULE PackGraph -----------------------------
(***************************************************************************)
(* Packs, their manifests, and the lock graph over them: what a captured   *)
(* tree must satisfy to be a pack (malm-module-graph), what makes a set of *)
(* nodes a lock/v1 (malm-pack) and what assembling a lock verifies.        *)
(*                                                                         *)
(* A file's content is the number of its version; the manifest a version   *)
(* of malm-pack.kdl decodes to is the constant Manifests.  A pack's digest *)
(* is the pack: its source and the version of every file in it.            *)
(***************************************************************************)
EXTENDS Naturals, Sequences, FiniteSets, FiniteSetsExt, SequencesExt

CONSTANTS Names,      \* the names in a source directory, in byte order
          Source,     \* every source: Root, git sources, local locators
          Git,        \* the exact git sources among them
          Root,
          Manifests,  \* [Source -> Seq(Manifest)]: by version of malm-pack.kdl
          MaxNodes, MaxEdges, MaxGraphBytes,
          None

PackFile == "malm-pack.kdl"
Name == ToSet(Names)
Data == Name \ {PackFile}
Absent == 0

\* A manifest: its package, the paths it declares, the capture roots (empty:
\* everything is captured), its dependencies in alias order, and whether it
\* bundles format components.  A version that does not decode is None.
Manifest == [pkg : STRING, declares : SUBSET Data, roots : SUBSET Data,
             deps : Seq([src : Source \ {Root}, pkg : STRING]), comps : BOOLEAN]

\* The content a digest stands for.
Pack == [src : Source, files : [Name -> Nat]]

ASSUME PackGraphConstants ==
  /\ Names \in Seq(STRING) /\ PackFile \in Name
  /\ None \notin Pack
  /\ Root \in Source \ Git /\ Git \subseteq Source
  /\ \A s \in Source : \A v \in DOMAIN Manifests[s] :
       Manifests[s][v] \in Manifest \cup {None}
  /\ MaxNodes \in Nat /\ MaxEdges \in Nat /\ MaxGraphBytes \in Nat

\* decode_pack_v1 of the version v of the source's manifest.
Decoded(s, v) == IF v \in DOMAIN Manifests[s] THEN Manifests[s][v] ELSE None

\* PackManifestV1::covers_capture_path; no manifest covers everything.
Covers(m, n) == m = None \/ n = PackFile \/ m.roots = {} \/ n \in m.roots

-----------------------------------------------------------------------------
\* VerifiedPackV1.

PackOf(s, files) == [src |-> s, files |-> files]
ManifestOf(pack) == Decoded(pack.src, pack.files[PackFile])
PackBytes(pack) == Cardinality({n \in Name : pack.files[n] # Absent})

\* check_manifest_references: the manifest is there, decodes, and every path
\* it declares is in the tree.
Verified(pack) ==
  /\ pack.files[PackFile] # Absent
  /\ ManifestOf(pack) # None
  /\ \A n \in ManifestOf(pack).declares : pack.files[n] # Absent

-----------------------------------------------------------------------------
\* LockV1.  A node is found by its source, package and digest (pack_node_id).

NodeId(s, pack) == <<s, ManifestOf(pack).pkg, pack>>

\* LockedPackV1 of a discovered source, its edges resolved through got.
LockedPack(s, got) ==
  LET m == ManifestOf(got[s])
  IN [id    |-> NodeId(s, got[s]), src |-> s, pkg |-> m.pkg, digest |-> got[s],
      deps  |-> [i \in 1 .. Len(m.deps) |-> NodeId(m.deps[i].src, got[m.deps[i].src])],
      comps |-> m.comps]

Targets(node) == ToSet(node.deps)
EdgeCount(nodes) == MapThenSumSet(LAMBDA n : Len(n.deps), nodes)

\* The ids reached from the ids in start by at least zero edges.
ReachableFrom(start, nodes) ==
  LET next(ids) == ids \cup UNION {Targets(n) : n \in {m \in nodes : m.id \in ids}}
      at[i \in 0 .. Cardinality(nodes)] == IF i = 0 THEN start ELSE next(at[i - 1])
  IN at[Cardinality(nodes)]

HasCycle(nodes) == \E n \in nodes : n.id \in ReachableFrom(Targets(n), nodes)

\* LockV1::new.
ValidLock(lock) ==
  LET ids == {n.id : n \in lock.nodes}
  IN /\ Cardinality(lock.nodes) <= MaxNodes
     /\ Cardinality(ids) = Cardinality(lock.nodes)
     /\ {n.id : n \in {m \in lock.nodes : m.src = Root}} = {lock.root}
     /\ \A n, m \in lock.nodes : n.src = m.src => n = m
     /\ EdgeCount(lock.nodes) <= MaxEdges
     /\ \A n \in lock.nodes : Targets(n) \subseteq ids
     /\ ~HasCycle(lock.nodes)
     /\ ids \subseteq ReachableFrom({lock.root}, lock.nodes)

\* LockV1::validate_manifest: the node says what the pack's manifest says.
AgreesWithManifest(lock, node) ==
  LET m == ManifestOf(node.digest)
      at(id) == CHOOSE n \in lock.nodes : n.id = id
  IN /\ node.pkg = m.pkg /\ node.comps = m.comps
     /\ Len(node.deps) = Len(m.deps)
     /\ \A i \in 1 .. Len(m.deps) :
          /\ at(node.deps[i]).pkg = m.deps[i].pkg
          /\ at(node.deps[i]).src = m.deps[i].src

\* assemble_locked_graph_v1: every object loads and verifies, agrees with its
\* node, and the distinct objects together stay under the byte limit.
Assembles(lock, objects) ==
  /\ \A n \in lock.nodes :
       n.digest \in objects /\ Verified(n.digest) /\ AgreesWithManifest(lock, n)
  /\ MapThenSumSet(PackBytes, {n.digest : n \in lock.nodes}) <= MaxGraphBytes

=============================================================================
