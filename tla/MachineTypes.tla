---------------------------- MODULE MachineTypes ----------------------------
(***************************************************************************)
(* The semantic values of the machine protocol (crates/malm-types): what a *)
(* request may ask and what the engine may answer, each type with the      *)
(* rules its constructor enforces.  A type is a value, so that the wire    *)
(* tables of MachineWire, which are written independently of the types as  *)
(* they are in the code, can be run against every type.                    *)
(*                                                                         *)
(* A validated string or digest is a positive number, 0 the empty string,  *)
(* which every validator refuses; two strings are compared as numbers.  A  *)
(* struct is a record, a variant <<name, record>>, no value is Null.       *)
(***************************************************************************)
EXTENDS Integers, Sequences, FiniteSets, SequencesExt, TLC

CONSTANTS Null, Bad, LongBytes,
             \* no value; a value a constructor refuses; a long byte string's length
          EngineItems,   \* the longest list of the engine's own limits
          ArrayItems     \* MAX_MACHINE_ARRAY_ITEMS

ASSUME MachineTypeConstants == {EngineItems, ArrayItems, LongBytes} \subseteq Nat \ {0}

Text == <<"text">>                   \* a string some validator has accepted
Raw  == <<"raw">>                    \* a String nobody validates
Hash == <<"text">>                   \* Digest, PreparedId, ArtifactId, PackNodeId
Num(default, values) == <<"num", default, values>>
Flag == <<"flag">>
Bytes == <<"bytes">>
Enum(names) == <<"enum", names>>    \* the first is the standard value
Option(T) == <<"option", T>>
Vec(T) == <<"vec", T, EngineItems>>
ShortVec(T) == <<"vec", T, ArrayItems>>   \* its own limit is no larger than a record's
Struct(name, fields) == <<"struct", name, fields>>
OneOf(name, variants) == <<"oneof", name, variants>>

Count == Num(1, {0, 1})
\* Permission bits of the owner: 4 read, 2 write, 1 search; 8 is no permission.
FileMode == Num(4, 4..7)
DirMode == Num(5, {5, 7})
AnyMode == Num(4, 0..7)
FsckDefault == 9                     \* the limits of FsckRequestV1::new
Limit == Num(1, 1..ArrayItems)
ByteLimit == Num(1, {1, 2})

-----------------------------------------------------------------------------
\* The reviewed deployment and its parts (deployment_api.rs)

RetentionObjectV1 == OneOf("RetentionObjectV1",
  [PreparedPlan |-> [plan_id |-> Hash], StateGeneration |-> [digest |-> Hash],
   ArtifactBlob |-> [digest |-> Hash], PackObject |-> [digest |-> Hash],
   CanonicalFile |-> [digest |-> Hash], CanonicalSymlink |-> [digest |-> Hash],
   CanonicalTree |-> [digest |-> Hash]])
PrepareInputKindV1 == Enum(<<"Source", "Config", "Lock", "Component", "Asset", "Other">>)
PrepareInputV1 == Struct("PrepareInputV1",
  [kind |-> PrepareInputKindV1, name |-> Text, digest |-> Hash])
PrepareArtifactV1 == Struct("PrepareArtifactV1",
  [id |-> Hash, bytes |-> Bytes, media_type |-> Text])
PrepareTransformResourceV1 == Struct("PrepareTransformResourceV1",
  [name |-> Text, digest |-> Hash])
PrepareTransformDiagnosticSeverityV1 == Enum(<<"Warning", "Error", "Info">>)
PrepareTransformSourceLocationV1 ==
  [authority_label |-> Text, authority_identity |-> Hash, document_path |-> Text,
   source_byte_len |-> Num(2, {2}), start |-> Num(1, 0..2), end |-> Num(2, 0..3)]
PrepareTransformOutputLocationV1 == [start |-> Num(1, 0..2), end |-> Num(2, 0..2)]
PrepareTransformDiagnosticLocationV1 == OneOf("PrepareTransformDiagnosticLocationV1",
  [Source |-> PrepareTransformSourceLocationV1, Output |-> PrepareTransformOutputLocationV1])
PrepareTransformDiagnosticV1 == Struct("PrepareTransformDiagnosticV1",
  [severity |-> PrepareTransformDiagnosticSeverityV1, code |-> Text, message |-> Raw,
   primary |-> Option(PrepareTransformDiagnosticLocationV1), notes |-> ShortVec(Raw)])
PrepareTransformImplementationV1 == OneOf("PrepareTransformImplementationV1",
  [BuiltIn   |-> [implementation |-> Text],
   Component |-> [pack_node_id |-> Hash, pack_content_digest |-> Hash,
                  component_path |-> Text, component_digest |-> Hash,
                  interface_version |-> Num(1, 1..2), execution_profile_digest |-> Hash]])
PrepareTransformProvenanceV1 == Struct("PrepareTransformProvenanceV1",
  [name |-> Text, implementation |-> PrepareTransformImplementationV1,
   request_digest |-> Hash, document_digest |-> Hash,
   resources |-> ShortVec(PrepareTransformResourceV1), response_digest |-> Hash,
   diagnostics |-> ShortVec(PrepareTransformDiagnosticV1)])
PreparePolicyFindingV1 == Struct("PreparePolicyFindingV1",
  [code |-> Text, message |-> Text, approval_required |-> Flag])
ArchiveProvenanceV1 == Struct("ArchiveProvenanceV1", [payload |-> Hash, decoder |-> Text])
PrepareTargetStateV1 == OneOf("PrepareTargetStateV1",
  [File |-> [digest |-> Hash, byte_len |-> Count, mode |-> FileMode],
   Directory |-> [mode |-> DirMode], Symlink |-> [object |-> Hash],
   Tree |-> [tree |-> Hash, archive_provenance |-> Option(ArchiveProvenanceV1)]])
PrepareOperationV1 == OneOf("PrepareOperationV1",
  [EnsureDirectory |-> [authority |-> Text, relative_path |-> Text, mode |-> DirMode,
                        replace_existing |-> Flag],
   PlaceFile |-> [authority |-> Text, relative_path |-> Text, artifact_id |-> Hash,
                  mode |-> FileMode, replace_existing |-> Flag],
   PlaceSymlink |-> [authority |-> Text, relative_path |-> Text, object |-> Hash,
                     replace_existing |-> Flag],
   PlaceTree |-> [authority |-> Text, relative_path |-> Text, tree |-> Hash,
                  archive_provenance |-> Option(ArchiveProvenanceV1),
                  replace_existing |-> Flag],
   RemoveLeaf |-> [authority |-> Text, relative_path |-> Text],
   AssertAbsent |-> [authority |-> Text, relative_path |-> Text],
   AssertExact |-> [authority |-> Text, relative_path |-> Text,
                    state |-> PrepareTargetStateV1]])
PrepareRequestV1 == Struct("PrepareRequestV1",
  [namespace |-> Text, expected_head |-> Option(Hash), graph_digest |-> Hash,
   inputs |-> Vec(PrepareInputV1), artifacts |-> Vec(PrepareArtifactV1),
   transforms |-> Vec(PrepareTransformProvenanceV1),
   findings |-> Vec(PreparePolicyFindingV1), operations |-> Vec(PrepareOperationV1)])
ArtifactDescriptorV1 == Struct("ArtifactDescriptorV1",
  [id |-> Hash, digest |-> Hash, byte_len |-> Count, media_type |-> Text])
PolicyFindingV1 == Struct("PolicyFindingV1",
  [id |-> Hash, code |-> Text, message |-> Text, approval_required |-> Flag])
PreparedTrackingAcquisitionKindV1 == Enum(<<"LocalSource", "GitSource">>)
PreparedTrackingAcquisitionGrantV1 == Struct("PreparedTrackingAcquisitionGrantV1",
  [kind |-> PreparedTrackingAcquisitionKindV1, locator |-> Text])
PreparedTrackingReviewV1 == Struct("PreparedTrackingReviewV1",
  [source_locator |-> Text, moving_selector |-> Text, applied_revision |-> Text,
   root_tree_digest |-> Hash, source_subdir |-> Text, config_entry_point |-> Text,
   selected_profile |-> Text, target_authority |-> Text,
   acquisition_grants |-> Vec(PreparedTrackingAcquisitionGrantV1),
   component_grants |-> Vec(Hash)])

-----------------------------------------------------------------------------
\* What the store shows of itself (lifecycle_api.rs)

LifecycleStateViewV1 == Enum(<<"Enabled", "Disabled">>)
TrackedRootInspectionV1 == Struct("TrackedRootInspectionV1",
  [moving_selector |-> Text, applied_revision |-> Text, root_tree_digest |-> Hash])
RestorePointInspectionV1 == Struct("RestorePointInspectionV1",
  [generation |-> Hash, lifecycle |-> LifecycleStateViewV1,
   desired_snapshot_digest |-> Hash, tracked_root |-> Option(TrackedRootInspectionV1)])
LifecycleTransitionViewV1 == OneOf("LifecycleTransitionViewV1",
  [Reconcile |-> <<>>, Disable |-> <<>>, Enable |-> [restore_generation |-> Hash],
   Checkout |-> [source_generation |-> Hash], RetentionAuthority |-> <<>>,
   NamespaceRemoval |-> [drops_history |-> Flag]])
RetentionAuthorityInspectionV1 == Struct("RetentionAuthorityInspectionV1",
  [history_generations |-> Count, restore_points |-> ShortVec(RestorePointInspectionV1),
   explicit_pins |-> Vec(RetentionObjectV1)])
PreparedDeploymentV1 == Struct("PreparedDeploymentV1",
  [plan_id |-> Hash, namespace |-> Text, expected_head |-> Option(Hash),
   graph_digest |-> Hash, inputs |-> Vec(PrepareInputV1),
   transforms |-> Vec(PrepareTransformProvenanceV1),
   artifacts |-> Vec(ArtifactDescriptorV1), findings |-> Vec(PolicyFindingV1),
   approval_digest |-> Hash, operations |-> Vec(PrepareOperationV1),
   transition |-> LifecycleTransitionViewV1, lifecycle |-> LifecycleStateViewV1,
   restore_point |-> Option(RestorePointInspectionV1),
   retention |-> RetentionAuthorityInspectionV1,
   tracked_root |-> Option(PreparedTrackingReviewV1)])
GenerationInspectionV1 == Struct("GenerationInspectionV1",
  [namespace |-> Text, generation |-> Hash, lifecycle |-> LifecycleStateViewV1,
   desired_snapshot_digest |-> Hash, target_count |-> Count,
   present_target_count |-> Count, absent_target_count |-> Count, plan_id |-> Hash,
   predecessor |-> Option(Hash), tracked_root |-> Option(TrackedRootInspectionV1),
   transition |-> LifecycleTransitionViewV1,
   restore_point |-> Option(RestorePointInspectionV1),
   retention |-> RetentionAuthorityInspectionV1])
CatalogNamespaceInspectionV1 == Struct("CatalogNamespaceInspectionV1",
  [namespace |-> Text, generation |-> Hash])
CatalogInspectionV1 == Struct("CatalogInspectionV1",
  [digest |-> Hash, namespaces |-> Vec(CatalogNamespaceInspectionV1), decoded_bytes |-> Count])
NamespaceInspectionV1 == Struct("NamespaceInspectionV1",
  [namespace |-> Text, head |-> Option(Hash), generation |-> Option(GenerationInspectionV1),
   decoded_bytes |-> Count])
NamespaceHistoryV1 == Struct("NamespaceHistoryV1",
  [namespace |-> Text, head |-> Option(Hash), generations |-> Vec(GenerationInspectionV1),
   decoded_bytes |-> Count])
DesiredTargetStateInspectionV1 == OneOf("DesiredTargetStateInspectionV1",
  [File |-> [digest |-> Option(Hash), byte_len |-> Option(Count), mode |-> Option(AnyMode)],
   Directory |-> [mode |-> Option(AnyMode)], Symlink |-> [object |-> Option(Hash)],
   Tree |-> [tree |-> Option(Hash), archive_provenance |-> Option(ArchiveProvenanceV1)]])
DesiredTargetInspectionV1 == Struct("DesiredTargetInspectionV1",
  [authority |-> Text, relative_path |-> Raw, state |-> DesiredTargetStateInspectionV1])
DesiredSnapshotInspectionV1 == Struct("DesiredSnapshotInspectionV1",
  [namespace |-> Text, generation |-> Hash, digest |-> Hash,
   targets |-> Vec(DesiredTargetInspectionV1), decoded_bytes |-> Count])
CanonicalTreeEntryKindInspectionV1 == OneOf("CanonicalTreeEntryKindInspectionV1",
  [File |-> [digest |-> Hash, byte_len |-> Count], Directory |-> [digest |-> Hash],
   Symlink |-> [digest |-> Hash]])
CanonicalTreeEntryInspectionV1 == Struct("CanonicalTreeEntryInspectionV1",
  [relative_path |-> Raw, mode |-> AnyMode, kind |-> CanonicalTreeEntryKindInspectionV1])
CanonicalTreeInspectionV1 == Struct("CanonicalTreeInspectionV1",
  [tree |-> Hash, root_mode |-> AnyMode, entries |-> Vec(CanonicalTreeEntryInspectionV1),
   decoded_bytes |-> Count])
ArtifactMetadataInspectionV1 == Struct("ArtifactMetadataInspectionV1",
  [plan_id |-> Hash, descriptor |-> ArtifactDescriptorV1, decoded_bytes |-> Count])
CapturedInputsInspectionV1 == Struct("CapturedInputsInspectionV1",
  [plan_id |-> Hash, graph_digest |-> Hash, inputs |-> Vec(PrepareInputV1),
   decoded_bytes |-> Count])
TransformProvenanceInspectionV1 == Struct("TransformProvenanceInspectionV1",
  [plan_id |-> Hash, transforms |-> Vec(PrepareTransformProvenanceV1), decoded_bytes |-> Count])
RetentionInspectionV1 == Struct("RetentionInspectionV1",
  [namespace |-> Text, generation |-> Hash, authority |-> RetentionAuthorityInspectionV1])
TrackingInspectionV1 == Struct("TrackingInspectionV1",
  [namespace |-> Text, generation |-> Hash, tracked_root |-> Option(TrackedRootInspectionV1)])
NamespaceStatusKindV1 == Enum(<<"NotFound", "EnabledExact", "EnabledModified", "EnabledMissing", "EnabledUnexpected",
   "Disabled", "Stale", "IncompatibleOrCorrupt", "RecoveryRequired">>)
TargetStatusKindV1 == Enum(<<"Exact", "Modified", "Missing", "Unexpected", "Stale", "Incompatible">>)
TargetStatusV1 == Struct("TargetStatusV1",
  [authority |-> Text, relative_path |-> Raw, status |-> TargetStatusKindV1])
NamespaceStatusV1 == Struct("NamespaceStatusV1",
  [namespace |-> Text, head |-> Option(Hash), lifecycle |-> Option(LifecycleStateViewV1),
   desired_snapshot_digest |-> Option(Hash), status |-> NamespaceStatusKindV1,
   targets |-> Vec(TargetStatusV1), observed_bytes |-> Count, detail |-> Option(Raw)])
FsckSeverityV1 == Enum(<<"Error", "Warning">>)
FsckStoreAreaV1 == Enum(<<"Root", "State", "Generations", "Prepared", "Transactions", "Objects", "ArtifactBlobs",
   "PackObjects", "CanonicalFiles", "CanonicalSymlinks", "CanonicalTrees">>)
FsckFindingCodeV1 == Enum(<<"InvalidDescriptor", "RecoveryRequired", "InvalidJournal", "MissingCatalog",
   "InvalidCatalog", "MissingGeneration", "InvalidGeneration", "CyclicHistory",
   "CrossNamespaceHistory", "SharedGeneration", "MissingPreparedPlan",
   "InvalidPreparedPlan", "InvalidPreparedTransition", "MissingArtifactBlob",
   "CorruptArtifactBlob", "ArtifactLengthMismatch", "MissingPackObject",
   "CorruptPackObject", "MissingCanonicalObject", "CorruptCanonicalObject",
   "InvalidLockMetadata", "InvalidStaging", "MalformedStoreEntry",
   "UnreachableImmutableObject", "TargetDrift", "TargetObservationFailed",
   "AuthorityChanged", "InvalidOwnership", "TraversalLimitExceeded",
   "DecodedByteLimitExceeded", "FindingLimitExceeded">>)
FsckSubjectV1 == OneOf("FsckSubjectV1",
  [StoreDescriptor |-> <<>>, TransactionLock |-> <<>>, MaintenanceLock |-> <<>>,
   Journal |-> <<>>, JournalStaging |-> <<>>, Catalog |-> <<>>, CatalogStaging |-> <<>>,
   Namespace |-> [namespace |-> Text], Generation |-> [digest |-> Hash],
   PreparedPlan |-> [plan_id |-> Hash], ArtifactBlob |-> [digest |-> Hash],
   PackObject |-> [digest |-> Hash], CanonicalFile |-> [digest |-> Hash],
   CanonicalSymlink |-> [digest |-> Hash], CanonicalTree |-> [digest |-> Hash],
   Target |-> [authority |-> Text, relative_path |-> Raw],
   StoreArea |-> [area |-> FsckStoreAreaV1], Retention |-> <<>>, Ownership |-> <<>>,
   Coverage |-> <<>>])
FsckFindingV1 == Struct("FsckFindingV1",
  [code |-> FsckFindingCodeV1, severity |-> FsckSeverityV1, subject |-> FsckSubjectV1,
   detail |-> Raw])
FsckReportV1 == Struct("FsckReportV1",
  [findings |-> Vec(FsckFindingV1), checked_generations |-> Count,
   checked_prepared_plans |-> Count, checked_artifact_blobs |-> Count,
   checked_pack_objects |-> Count, checked_canonical_files |-> Count,
   checked_canonical_symlinks |-> Count, checked_canonical_trees |-> Count,
   checked_targets |-> Count, decoded_bytes |-> Count, observed_bytes |-> Count,
   findings_truncated |-> Flag, complete |-> Flag])
StoreStatusV1 == Enum(<<"Absent", "Uninitialized", "Ready">>)
ArtifactV1 == Struct("ArtifactV1", [descriptor |-> ArtifactDescriptorV1, bytes |-> Bytes])
ApplyOutcomeV1 == Struct("ApplyOutcomeV1",
  [plan_id |-> Hash, namespace |-> Text, previous_head |-> Option(Hash), head |-> Option(Hash)])
StateViewV1 == Struct("StateViewV1", [namespace |-> Text, head |-> Option(Hash)])
RecoveryOutcomeV1 == OneOf("RecoveryOutcomeV1",
  [NoTransaction |-> <<>>, Recovered |-> [namespace |-> Text, head |-> Option(Hash)]])
PruneOutcomeV1 == Struct("PruneOutcomeV1",
  [prepared_records |-> Count, artifact_blobs |-> Count, state_generations |-> Count,
   pack_objects |-> Count, canonical_files |-> Count, canonical_symlinks |-> Count,
   canonical_trees |-> Count])

-----------------------------------------------------------------------------
\* What may be asked

ApprovalV1 == Struct("ApprovalV1", [plan_id |-> Num(1, 1..2), findings_digest |-> Hash])
CommitRequestV1 == Struct("CommitRequestV1", [plan_id |-> Hash, approval |-> ApprovalV1])
PruneRequestV1 == Struct("PruneRequestV1",
  [plan_ids |-> Vec(Hash), sweep_unreferenced |-> Flag])
CheckoutRequestV1 == Struct("CheckoutRequestV1", [namespace |-> Text, target_generation |-> Hash])
LifecycleRequestV1 == Struct("LifecycleRequestV1", [namespace |-> Text])
NamespaceRemovalHistoryV1 == Enum(<<"Drop">>)
NamespaceRemovalRequestV1 == Struct("NamespaceRemovalRequestV1",
  [namespace |-> Text, history |-> NamespaceRemovalHistoryV1])
HistoryRetentionRequestV1 == Struct("HistoryRetentionRequestV1",
  [namespace |-> Text, generations |-> Num(1, 1..2)])
RetentionPinRequestV1 == Struct("RetentionPinRequestV1",
  [namespace |-> Text, object |-> RetentionObjectV1])
RestorePointRequestV1 == Struct("RestorePointRequestV1", [namespace |-> Text, generation |-> Hash])
CatalogInspectionRequestV1 == Struct("CatalogInspectionRequestV1",
  [max_namespaces |-> Limit, max_decoded_bytes |-> ByteLimit])
NamespaceInspectionRequestV1 == Struct("NamespaceInspectionRequestV1",
  [namespace |-> Text, max_decoded_bytes |-> ByteLimit])
NamespaceHistoryRequestV1 == Struct("NamespaceHistoryRequestV1",
  [namespace |-> Text, max_generations |-> Limit, max_decoded_bytes |-> ByteLimit])
GenerationInspectionRequestV1 == Struct("GenerationInspectionRequestV1",
  [namespace |-> Text, generation |-> Hash, max_generations |-> Limit,
   max_decoded_bytes |-> ByteLimit])
DesiredSnapshotInspectionRequestV1 == Struct("DesiredSnapshotInspectionRequestV1",
  [namespace |-> Text, generation |-> Hash, max_targets |-> Limit,
   max_decoded_bytes |-> ByteLimit])
CanonicalTreeInspectionRequestV1 == Struct("CanonicalTreeInspectionRequestV1",
  [tree |-> Hash, max_entries |-> Limit, max_decoded_bytes |-> ByteLimit])
PreparedPlanInspectionRequestV1 == Struct("PreparedPlanInspectionRequestV1",
  [plan_id |-> Hash, max_items |-> Limit, max_decoded_bytes |-> ByteLimit])
ArtifactMetadataInspectionRequestV1 == Struct("ArtifactMetadataInspectionRequestV1",
  [plan_id |-> Hash, artifact_id |-> Hash, max_decoded_bytes |-> ByteLimit])
NamespaceStatusRequestV1 == Struct("NamespaceStatusRequestV1",
  [namespace |-> Text, max_targets |-> Limit, max_observed_bytes |-> ByteLimit])
FsckRequestV1 == Struct("FsckRequestV1",
  [max_findings |-> Limit, max_objects |-> Limit, max_decoded_bytes |-> ByteLimit,
   observe_targets |-> Flag, max_target_observations |-> Limit,
   max_observed_bytes |-> ByteLimit])

-----------------------------------------------------------------------------
\* Store errors (engine_api.rs)

DirectorySafetyReasonV1 == Enum(<<"WrongOwner", "GroupOrOtherWritable",
  "SpecialModeBitsSet", "UnexpectedMode", "AncestryLimitExceeded">>)
StoreDirectoryV1 == Enum(<<"StateParent", "V1Root">>)
StoreRootV1 == Enum(<<"V1">>)
StoreMetadataReasonV1 == Enum(<<"MarkerMissingWithOtherEntries", "MarkerNotRegular",
  "MarkerTooLarge", "UnexpectedRootEntry", "InvalidRootEntry", "WrongOwner",
  "UnexpectedMode", "MultipleLinks", "ObservationChanged", "InvalidDescriptor">>)
\* StoreErrorV1: each code with the details its constructor attaches.
StoreErrorV1 == OneOf("StoreErrorV1",
  [ReadOnlyStore |-> <<>>, StoreNotReady |-> [status |-> StoreStatusV1],
   StateParentMissing |-> <<>>,
   UnsafeDirectory |-> [directory |-> StoreDirectoryV1, reason |-> DirectorySafetyReasonV1],
   RootObservationChanged |-> [root |-> StoreRootV1],
   StateParentObservationChanged |-> <<>>,
   MalformedStoreMetadata |-> [reason |-> StoreMetadataReasonV1],
   UnsupportedStoreVersion |-> [expected |-> Num(1, {1}), found |-> Num(2, 1..2)],
   Io |-> <<>>, Internal |-> <<>>])

-----------------------------------------------------------------------------
\* Digests are numbers that tell the values of this model apart.

sha256(bytes) == 50 + 7 * Len(bytes) + FoldSeq(LAMBDA b, n : b + n, 0, bytes)
policy_finding_id_v1(code, message, required) ==
  20 * code + 2 * message + (IF required THEN 1 ELSE 0)
policy_approval_digest_v1(findings) ==
  LET ids == SetToSortSeq({f.id : f \in {f \in ToSet(findings) : f.approval_required}}, <)
  IN  1 + FoldSeq(LAMBDA id, n : 100 * n + id, 0, ids)

Unique(s) == \A i, j \in DOMAIN s : s[i] = s[j] => i = j
Project(s, key(_)) == [i \in DOMAIN s |-> key(s[i])]
Require(ok, v) == IF ok THEN v ELSE Bad

DiagnosticLocationNew(v) ==
  Require(/\ v[2].start <= v[2].end
          /\ v[1] = "Source" => v[2].end <= v[2].source_byte_len, v)
DiagnosticNew(v) == Require(v.severity # "Error", v)
ImplementationNew(v) == Require(v[1] = "Component" => v[2].interface_version = 1, v)
SeverityRank == [Error |-> 0, Warning |-> 1, Info |-> 2]
TransformProvenanceNew(v) ==
  Require(/\ Unique(Project(v.resources, LAMBDA r : r.name))
          /\ Unique(v.diagnostics),
    [v EXCEPT !.resources = SortSeq(@, LAMBDA a, b : a.name < b.name),
              !.diagnostics = SortSeq(@, LAMBDA a, b :
                 10 * SeverityRank[a.severity] + a.code < 10 * SeverityRank[b.severity] + b.code)])
KindRank == [LocalSource |-> 0, GitSource |-> 1]
TrackingReviewNew(v) ==
  Require(Unique(v.acquisition_grants) /\ Unique(v.component_grants),
    [v EXCEPT !.acquisition_grants = SortSeq(@, LAMBDA a, b :
                 10 * KindRank[a.kind] + a.locator < 10 * KindRank[b.kind] + b.locator),
              !.component_grants = SortSeq(@, <)])
PolicyFindingNew(v) ==
  Require(v.id = policy_finding_id_v1(v.code, v.message, v.approval_required), v)
PreparedDeploymentNew(v) ==
  Require(/\ Unique(Project(v.findings, LAMBDA f : f.id))
          /\ v.approval_digest = policy_approval_digest_v1(v.findings), v)
ArtifactNew(v) ==
  Require(/\ v.descriptor.byte_len = Len(v.bytes)
          /\ v.descriptor.digest = sha256(v.bytes), v)
ApplyOutcomeNew(v) == Require(v.head # Null \/ v.previous_head # Null, v)
PruneNew(v) == [v EXCEPT !.plan_ids = SetToSortSeq(ToSet(@), <)]
StoreErrorNew(v) ==
  Require(/\ v[1] = "StoreNotReady" => v[2].status # "Ready"
          /\ v[1] = "UnsupportedStoreVersion" => v[2].expected # v[2].found, v)

\* The constructor of the type `name' applied to the value v.
Construct(name, v) ==
  CASE name = "PrepareTransformDiagnosticLocationV1" -> DiagnosticLocationNew(v)
    [] name = "PrepareTransformDiagnosticV1"      -> DiagnosticNew(v)
    [] name = "PrepareTransformImplementationV1"  -> ImplementationNew(v)
    [] name = "PrepareTransformProvenanceV1"      -> TransformProvenanceNew(v)
    [] name = "PreparedTrackingReviewV1"          -> TrackingReviewNew(v)
    [] name = "PolicyFindingV1"                   -> PolicyFindingNew(v)
    [] name = "PreparedDeploymentV1"              -> PreparedDeploymentNew(v)
    [] name = "ArtifactV1"                        -> ArtifactNew(v)
    [] name = "ApplyOutcomeV1"                    -> ApplyOutcomeNew(v)
    [] name = "PruneRequestV1"                    -> PruneNew(v)
    [] name = "StoreErrorV1"                      -> StoreErrorNew(v)
    [] OTHER                                      -> v

-----------------------------------------------------------------------------
\* The values a run tries.  The engine computes some fields from others.

Derived(name, r) ==
  CASE name = "PolicyFindingV1" ->
         [r EXCEPT !.id = policy_finding_id_v1(r.code, r.message, r.approval_required)]
    [] name = "PreparedDeploymentV1" ->
         [r EXCEPT !.approval_digest = policy_approval_digest_v1(r.findings)]
    [] name = "ArtifactV1" ->
         [r EXCEPT !.descriptor.byte_len = Len(r.bytes),
                   !.descriptor.digest = sha256(r.bytes)]
    [] name = "ApplyOutcomeV1" -> IF r.previous_head = Null /\ r.head = Null
                                  THEN [r EXCEPT !.head = 1] ELSE r
    [] name = "FsckRequestV1" ->
         IF r.observe_targets THEN r
         ELSE [r EXCEPT !.max_target_observations = FsckDefault,
                        !.max_observed_bytes = FsckDefault]
    [] OTHER -> r
Made(name, r) == Construct(name, Derived(name, r))

\* The k-th standard value of a type: the k-th text, nothing optional, no items.
RECURSIVE Item(_, _)
Item(T, k) ==
  CASE T[1] \in {"text", "raw"} -> k
    [] T[1] = "num"    -> T[2]
    [] T[1] = "flag"   -> FALSE
    [] T[1] = "bytes"  -> <<k>>
    [] T[1] = "enum"   -> T[2][1]
    [] T[1] = "option" -> Null
    [] T[1] = "vec"    -> <<>>
    [] T[1] = "struct" -> Made(T[2], [f \in DOMAIN T[3] |-> Item(T[3][f], k)])
    [] T[1] = "oneof"  -> LET v == CHOOSE v \in DOMAIN T[3] : TRUE
                          IN  Made(T[2], <<v, [f \in DOMAIN T[3][v] |-> Item(T[3][v][f], k)]>>)

\* The standard value, and every value that differs from it in one place.
RECURSIVE Samples(_)
Star(fields, standard) ==
  {standard} \cup UNION {{[standard EXCEPT ![f] = x] : x \in Samples(fields[f])} :
                         f \in DOMAIN fields}
Samples(T) ==
  CASE T[1] = "text"   -> {1, 2}
    [] T[1] = "raw"    -> {0, 1}
    [] T[1] = "num"    -> T[3]
    [] T[1] = "flag"   -> BOOLEAN
    [] T[1] = "bytes"  -> {<<>>, <<18>>, [i \in 1..LongBytes |-> 0]}
    [] T[1] = "enum"   -> ToSet(T[2])
    [] T[1] = "option" -> {Null} \cup Samples(T[2])
    [] T[1] = "vec"    -> {<<>>, [k \in 1..T[3] |-> Item(T[2], k)]}
                            \cup {<<x>> : x \in Samples(T[2])}
    [] T[1] = "struct" ->
         {Made(T[2], r) : r \in Star(T[3], [f \in DOMAIN T[3] |-> Item(T[3][f], 1)])} \ {Bad}
    [] T[1] = "oneof"  ->
         UNION {{Made(T[2], <<v, r>>) :
                   r \in Star(T[3][v], [f \in DOMAIN T[3][v] |-> Item(T[3][v][f], 1)])} :
                v \in DOMAIN T[3]} \ {Bad}
=============================================================================
