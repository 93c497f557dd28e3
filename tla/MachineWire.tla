----------------------------- MODULE MachineWire -----------------------------
(***************************************************************************)
(* The JSON shapes of the machine protocol and the conversions between     *)
(* them and the semantic values (malm-machine/src/codec.rs).  As in the    *)
(* code the two are written down separately: `...WireV1' says what serde   *)
(* accepts, `..._conv' how a field of a semantic value becomes a member.   *)
(*                                                                         *)
(* A JSON value is a tagged tuple: <<"s", text>>, <<"e", identifier>>,     *)
(* <<"x", hexadecimal digits>>, <<"n", number>>, <<"b", boolean>>,         *)
(* <<"null">>, <<"a", items>>, <<"o", members>>.  serde spells an          *)
(* identifier in snake or kebab case, an injective renaming undone on the  *)
(* way back; the model keeps the Rust identifier.                          *)
(***************************************************************************)
EXTENDS MachineModel

\* What serde accepts for a member.
WString == <<"string">>
WId == <<"id">>                     \* a newtype whose Deserialize validates
WInt == <<"uint">>
WBool == <<"bool">>
WEnum(names) == <<"enum", names>>
WOpt(W) == <<"opt", W>>
WArr(W) == <<"arr", W>>
WObj(members) == <<"obj", members>>
WTag(tag, variants) == <<"tag", tag, variants>>

\* deny_unknown_fields; a missing member is an error unless it is an Option.
RECURSIVE Serde(_, _)
SerdeMembers(members, m) ==
  LET got == [x \in DOMAIN members |->
                IF x \in DOMAIN m THEN Serde(members[x], m[x])
                ELSE IF members[x][1] = "opt" THEN <<"null">> ELSE Bad]
  IN  Require(DOMAIN m \subseteq DOMAIN members /\ \A x \in DOMAIN got : got[x] # Bad,
              <<"o", got>>)
SerdeVariant(W, m) ==
  IF /\ W[2] \in DOMAIN m
     /\ m[W[2]][1] = "e" /\ m[W[2]][2] \in DOMAIN W[3]
  THEN SerdeMembers((W[2] :> WEnum({m[W[2]][2]})) @@ W[3][m[W[2]][2]], m)
  ELSE Bad
Serde(W, j) ==
  CASE W[1] = "string" -> Require(j[1] \in {"s", "x"}, j)
    [] W[1] = "id"     -> Require(j[1] = "s" /\ j[2] # 0, j)
    [] W[1] = "uint"   -> Require(j[1] = "n" /\ j[2] >= 0, j)
    [] W[1] = "bool"   -> Require(j[1] = "b", j)
    [] W[1] = "enum"   -> Require(j[1] = "e" /\ j[2] \in W[2], j)
    [] W[1] \in {"opt", "nullable"} -> IF j[1] = "null" THEN j ELSE Serde(W[2], j)
    [] W[1] = "arr"    -> IF j[1] # "a" THEN Bad
                          ELSE LET items == [i \in DOMAIN j[2] |-> Serde(W[2], j[2][i])]
                               IN  Require(\A i \in DOMAIN items : items[i] # Bad, <<"a", items>>)
    [] W[1] = "obj"    -> IF j[1] = "o" THEN SerdeMembers(W[2], j[2]) ELSE Bad
    [] W[1] = "tag"    -> IF j[1] = "o" THEN SerdeVariant(W, j[2]) ELSE Bad

-----------------------------------------------------------------------------
\* Wire shapes

NamespaceRemovalHistoryWireV1 == WEnum({"Drop"})
RetentionObjectWireV1 == WTag("kind",
  [PreparedPlan |-> [plan_id |-> WId], StateGeneration |-> [digest |-> WId],
   ArtifactBlob |-> [digest |-> WId], PackObject |-> [digest |-> WId],
   CanonicalFile |-> [digest |-> WId], CanonicalSymlink |-> [digest |-> WId],
   CanonicalTree |-> [digest |-> WId]])
PrepareInputKindWireV1 == WEnum({"Source", "Config", "Lock", "Component", "Asset", "Other"})
PrepareInputWireV1 == WObj([kind |-> PrepareInputKindWireV1, name |-> WString, digest |-> WId])
PrepareArtifactWireV1 == WObj([id |-> WId, bytes_hex |-> WString, media_type |-> WString])
PrepareFindingWireV1 == WObj([code |-> WString, message |-> WString, approval_required |-> WBool])
ArchiveProvenanceWireV1 == WObj([payload |-> WId, decoder |-> WString])
PrepareTargetStateWireV1 == WTag("kind",
  [File |-> [digest |-> WId, byte_len |-> WInt, mode |-> WInt], Directory |-> [mode |-> WInt],
   Symlink |-> [object |-> WId],
   Tree |-> [tree |-> WId, archive_provenance |-> WOpt(ArchiveProvenanceWireV1)]])
PrepareOperationWireV1 == WTag("operation",
  [EnsureDirectory |-> [authority |-> WId, relative_path |-> WString, mode |-> WInt,
                        replace_existing |-> WBool],
   PlaceFile |-> [authority |-> WId, relative_path |-> WString, artifact_id |-> WId,
                  mode |-> WInt, replace_existing |-> WBool],
   PlaceSymlink |-> [authority |-> WId, relative_path |-> WString, object |-> WId,
                     replace_existing |-> WBool],
   PlaceTree |-> [authority |-> WId, relative_path |-> WString, tree |-> WId,
                  archive_provenance |-> WOpt(ArchiveProvenanceWireV1),
                  replace_existing |-> WBool],
   RemoveLeaf |-> [authority |-> WId, relative_path |-> WString],
   AssertAbsent |-> [authority |-> WId, relative_path |-> WString],
   AssertExact |-> [authority |-> WId, relative_path |-> WString,
                    state |-> PrepareTargetStateWireV1]])
RequestWireV1 == WTag("type",
  [StoreStatus |-> <<>>, InitializeStore |-> <<>>,
   Prepare |-> [namespace |-> WId, expected_head |-> WOpt(WId), graph_digest |-> WId,
                inputs |-> WArr(PrepareInputWireV1), artifacts |-> WArr(PrepareArtifactWireV1),
                findings |-> WArr(PrepareFindingWireV1),
                operations |-> WArr(PrepareOperationWireV1)],
   Plan |-> [plan_id |-> WId], Artifact |-> [plan_id |-> WId, artifact_id |-> WId],
   Commit |-> [plan_id |-> WId, approval_digest |-> WId], State |-> [namespace |-> WId],
   Recover |-> <<>>, Prune |-> [plan_ids |-> WArr(WId)],
   Checkout |-> [namespace |-> WId, target_generation |-> WId],
   Disable |-> [namespace |-> WId], Enable |-> [namespace |-> WId],
   RemoveNamespace |-> [namespace |-> WId, history |-> NamespaceRemovalHistoryWireV1],
   SetHistoryRetention |-> [namespace |-> WId, generations |-> WInt],
   Pin |-> [namespace |-> WId, object |-> RetentionObjectWireV1],
   Unpin |-> [namespace |-> WId, object |-> RetentionObjectWireV1],
   AddRestorePoint |-> [namespace |-> WId, generation |-> WId],
   DropRestorePoint |-> [namespace |-> WId, generation |-> WId],
   Catalog |-> [max_namespaces |-> WInt, max_decoded_bytes |-> WInt],
   Namespace |-> [namespace |-> WId, max_decoded_bytes |-> WInt],
   History |-> [namespace |-> WId, max_generations |-> WInt, max_decoded_bytes |-> WInt],
   Generation |-> [namespace |-> WId, generation |-> WId, max_generations |-> WInt,
                   max_decoded_bytes |-> WInt],
   DesiredSnapshot |-> [namespace |-> WId, generation |-> WId, max_targets |-> WInt,
                        max_decoded_bytes |-> WInt],
   CanonicalTree |-> [tree |-> WId, max_entries |-> WInt, max_decoded_bytes |-> WInt],
   ArtifactMetadata |-> [plan_id |-> WId, artifact_id |-> WId, max_decoded_bytes |-> WInt],
   CapturedInputs |-> [plan_id |-> WId, max_items |-> WInt, max_decoded_bytes |-> WInt],
   TransformProvenance |-> [plan_id |-> WId, max_items |-> WInt, max_decoded_bytes |-> WInt],
   Retention |-> [namespace |-> WId, generation |-> WId, max_generations |-> WInt,
                  max_decoded_bytes |-> WInt],
   Tracking |-> [namespace |-> WId, generation |-> WId, max_generations |-> WInt,
                 max_decoded_bytes |-> WInt],
   Status |-> [namespace |-> WId, max_targets |-> WInt, max_observed_bytes |-> WInt],
   Fsck |-> [max_findings |-> WInt, max_objects |-> WInt, max_decoded_bytes |-> WInt,
             observe_targets |-> WBool, max_target_observations |-> WInt,
             max_observed_bytes |-> WInt]])
RequestEnvelopeWireV1 == WObj([schema_version |-> WInt, request_id |-> WString,
  type |-> WEnum({"Request"}), request |-> RequestWireV1])

LifecycleStateWireV1 == WEnum({"Enabled", "Disabled"})
TrackedRootInspectionWireV1 == WObj(
  [moving_selector |-> WString, applied_revision |-> WString, root_tree_digest |-> WId])
RestorePointInspectionWireV1 == WObj([generation |-> WId, lifecycle |-> LifecycleStateWireV1,
  desired_snapshot_digest |-> WId, tracked_root |-> WOpt(TrackedRootInspectionWireV1)])
LifecycleTransitionWireV1 == WTag("kind",
  [Reconcile |-> <<>>, Disable |-> <<>>, Enable |-> [restore_generation |-> WId],
   Checkout |-> [source_generation |-> WId], RetentionAuthority |-> <<>>,
   NamespaceRemoval |-> [drops_history |-> WBool]])
RetentionAuthorityInspectionWireV1 == WObj([history_generations |-> WInt,
  restore_points |-> WArr(RestorePointInspectionWireV1),
  explicit_pins |-> WArr(RetentionObjectWireV1)])
TransformImplementationWireV1 == WTag("kind",
  [BuiltIn |-> [implementation |-> WString],
   Component |-> [pack_node_id |-> WId, pack_content_digest |-> WId, component_path |-> WString,
                  component_digest |-> WId, interface_version |-> WString,
                  execution_profile_digest |-> WId]])
TransformResourceWireV1 == WObj([name |-> WString, digest |-> WId])
TransformDiagnosticSeverityWireV1 == WEnum({"Error", "Warning", "Info"})
TransformDiagnosticLocationWireV1 == WTag("kind",
  [Source |-> [authority_label |-> WId, authority_identity |-> WId, document_path |-> WString,
               source_byte_len |-> WInt, start |-> WInt, end |-> WInt],
   Output |-> [start |-> WInt, end |-> WInt]])
TransformDiagnosticWireV1 == WObj([severity |-> TransformDiagnosticSeverityWireV1,
  code |-> WString, message |-> WString, primary |-> WOpt(TransformDiagnosticLocationWireV1),
  notes |-> WArr(WString)])
TransformProvenanceWireV1 == WObj([name |-> WString,
  implementation |-> TransformImplementationWireV1, request_digest |-> WId,
  document_digest |-> WId, resources |-> WArr(TransformResourceWireV1),
  response_digest |-> WId, diagnostics |-> WArr(TransformDiagnosticWireV1)])
ArtifactDescriptorWireV1 == WObj(
  [id |-> WId, digest |-> WId, byte_len |-> WInt, media_type |-> WString])
PolicyFindingWireV1 == WObj(
  [id |-> WId, code |-> WString, message |-> WString, approval_required |-> WBool])
PreparedTrackingAcquisitionKindWireV1 == WEnum({"LocalSource", "GitSource"})
PreparedTrackingAcquisitionGrantWireV1 == WObj(
  [kind |-> PreparedTrackingAcquisitionKindWireV1, locator |-> WString])
PreparedTrackingReviewWireV1 == WObj(
  [source_locator |-> WString, moving_selector |-> WString, applied_revision |-> WString,
   root_tree_digest |-> WId, source_subdir |-> WString, config_entry_point |-> WString,
   selected_profile |-> WId, target_authority |-> WId,
   acquisition_grants |-> WArr(PreparedTrackingAcquisitionGrantWireV1),
   component_grants |-> WArr(WId)])
PreparedDeploymentWireV1 == WObj(
  [plan_id |-> WId, namespace |-> WId, expected_head |-> WOpt(WId),
   transition |-> LifecycleTransitionWireV1, lifecycle |-> LifecycleStateWireV1,
   restore_point |-> WOpt(RestorePointInspectionWireV1),
   retention |-> RetentionAuthorityInspectionWireV1,
   tracked_root |-> WOpt(PreparedTrackingReviewWireV1), graph_digest |-> WId,
   inputs |-> WArr(PrepareInputWireV1), transforms |-> WArr(TransformProvenanceWireV1),
   artifacts |-> WArr(ArtifactDescriptorWireV1), findings |-> WArr(PolicyFindingWireV1),
   approval_digest |-> WId, operations |-> WArr(PrepareOperationWireV1)])
CatalogNamespaceInspectionWireV1 == WObj([namespace |-> WId, generation |-> WId])
CatalogInspectionWireV1 == WObj([digest |-> WId,
  namespaces |-> WArr(CatalogNamespaceInspectionWireV1), decoded_bytes |-> WInt])
GenerationInspectionWireV1 == WObj(
  [namespace |-> WId, generation |-> WId, lifecycle |-> LifecycleStateWireV1,
   desired_snapshot_digest |-> WId, target_count |-> WInt, present_target_count |-> WInt,
   absent_target_count |-> WInt, plan_id |-> WId, predecessor |-> WOpt(WId),
   tracked_root |-> WOpt(TrackedRootInspectionWireV1),
   transition |-> LifecycleTransitionWireV1,
   restore_point |-> WOpt(RestorePointInspectionWireV1),
   retention |-> RetentionAuthorityInspectionWireV1])
NamespaceInspectionWireV1 == WObj([namespace |-> WId, head |-> WOpt(WId),
  generation |-> WOpt(GenerationInspectionWireV1), decoded_bytes |-> WInt])
NamespaceHistoryWireV1 == WObj([namespace |-> WId, head |-> WOpt(WId),
  generations |-> WArr(GenerationInspectionWireV1), decoded_bytes |-> WInt])
DesiredTargetStateInspectionWireV1 == WTag("kind",
  [File |-> [digest |-> WOpt(WId), byte_len |-> WOpt(WInt), mode |-> WOpt(WInt)],
   Directory |-> [mode |-> WOpt(WInt)], Symlink |-> [object |-> WOpt(WId)],
   Tree |-> [tree |-> WOpt(WId), archive_provenance |-> WOpt(ArchiveProvenanceWireV1)]])
DesiredTargetInspectionWireV1 == WObj([authority |-> WId, relative_path |-> WString,
  state |-> DesiredTargetStateInspectionWireV1])
DesiredSnapshotInspectionWireV1 == WObj([namespace |-> WId, generation |-> WId,
  digest |-> WId, targets |-> WArr(DesiredTargetInspectionWireV1), decoded_bytes |-> WInt])
CanonicalTreeEntryKindInspectionWireV1 == WTag("kind",
  [File |-> [digest |-> WId, byte_len |-> WInt], Directory |-> [digest |-> WId],
   Symlink |-> [digest |-> WId]])
CanonicalTreeEntryInspectionWireV1 == WObj([relative_path |-> WString, mode |-> WInt,
  object |-> CanonicalTreeEntryKindInspectionWireV1])
CanonicalTreeInspectionWireV1 == WObj([tree |-> WId, root_mode |-> WInt,
  entries |-> WArr(CanonicalTreeEntryInspectionWireV1), decoded_bytes |-> WInt])
ArtifactMetadataInspectionWireV1 == WObj([plan_id |-> WId,
  descriptor |-> ArtifactDescriptorWireV1, decoded_bytes |-> WInt])
CapturedInputsInspectionWireV1 == WObj([plan_id |-> WId, graph_digest |-> WId,
  inputs |-> WArr(PrepareInputWireV1), decoded_bytes |-> WInt])
TransformProvenanceInspectionWireV1 == WObj([plan_id |-> WId,
  transforms |-> WArr(TransformProvenanceWireV1), decoded_bytes |-> WInt])
RetentionInspectionWireV1 == WObj([namespace |-> WId, generation |-> WId,
  authority |-> RetentionAuthorityInspectionWireV1])
TrackingInspectionWireV1 == WObj([namespace |-> WId, generation |-> WId,
  tracked_root |-> WOpt(TrackedRootInspectionWireV1)])
NamespaceStatusKindWireV1 == WEnum(
  {"NotFound", "EnabledExact", "EnabledModified", "EnabledMissing", "EnabledUnexpected",
   "Disabled", "Stale", "IncompatibleOrCorrupt", "RecoveryRequired"})
TargetStatusKindWireV1 == WEnum(
  {"Exact", "Modified", "Missing", "Unexpected", "Stale", "Incompatible"})
TargetStatusWireV1 == WObj([authority |-> WId, relative_path |-> WString,
  status |-> TargetStatusKindWireV1])
NamespaceStatusWireV1 == WObj([namespace |-> WId, head |-> WOpt(WId),
  lifecycle |-> WOpt(LifecycleStateWireV1), desired_snapshot_digest |-> WOpt(WId),
  status |-> NamespaceStatusKindWireV1, targets |-> WArr(TargetStatusWireV1),
  observed_bytes |-> WInt, detail |-> WOpt(WString)])
FsckSeverityWireV1 == WEnum({"Error", "Warning"})
FsckFindingCodeWireV1 == WEnum(
  {"InvalidDescriptor", "RecoveryRequired", "InvalidJournal", "MissingCatalog",
   "InvalidCatalog", "MissingGeneration", "InvalidGeneration", "CyclicHistory",
   "CrossNamespaceHistory", "SharedGeneration", "MissingPreparedPlan", "InvalidPreparedPlan",
   "InvalidPreparedTransition", "MissingArtifactBlob", "CorruptArtifactBlob",
   "ArtifactLengthMismatch", "MissingPackObject", "CorruptPackObject",
   "MissingCanonicalObject", "CorruptCanonicalObject", "InvalidLockMetadata",
   "InvalidStaging", "MalformedStoreEntry", "UnreachableImmutableObject", "TargetDrift",
   "TargetObservationFailed", "AuthorityChanged", "InvalidOwnership",
   "TraversalLimitExceeded", "DecodedByteLimitExceeded", "FindingLimitExceeded"})
FsckStoreAreaWireV1 == WEnum(
  {"Root", "State", "Generations", "Prepared", "Transactions", "Objects", "ArtifactBlobs",
   "PackObjects", "CanonicalFiles", "CanonicalSymlinks", "CanonicalTrees"})
FsckSubjectWireV1 == WTag("kind",
  [StoreDescriptor |-> <<>>, TransactionLock |-> <<>>, MaintenanceLock |-> <<>>,
   Journal |-> <<>>, JournalStaging |-> <<>>, Catalog |-> <<>>, CatalogStaging |-> <<>>,
   Namespace |-> [namespace |-> WId], Generation |-> [digest |-> WId],
   PreparedPlan |-> [plan_id |-> WId], ArtifactBlob |-> [digest |-> WId],
   PackObject |-> [digest |-> WId], CanonicalFile |-> [digest |-> WId],
   CanonicalSymlink |-> [digest |-> WId], CanonicalTree |-> [digest |-> WId],
   Target |-> [authority |-> WId, relative_path |-> WString],
   StoreArea |-> [area |-> FsckStoreAreaWireV1], Retention |-> <<>>, Ownership |-> <<>>,
   Coverage |-> <<>>])
FsckFindingWireV1 == WObj([code |-> FsckFindingCodeWireV1, severity |-> FsckSeverityWireV1,
  subject |-> FsckSubjectWireV1, detail |-> WString])
FsckReportWireV1 == WObj([findings |-> WArr(FsckFindingWireV1),
  checked_generations |-> WInt, checked_prepared_plans |-> WInt,
  checked_artifact_blobs |-> WInt, checked_pack_objects |-> WInt,
  checked_canonical_files |-> WInt, checked_canonical_symlinks |-> WInt,
  checked_canonical_trees |-> WInt, checked_targets |-> WInt, decoded_bytes |-> WInt,
  observed_bytes |-> WInt, findings_truncated |-> WBool, complete |-> WBool])
StoreStatusWireV1 == WEnum({"Absent", "Uninitialized", "Ready"})
ArtifactWireV1 == WObj([descriptor |-> ArtifactDescriptorWireV1, bytes_hex |-> WString])
ApplyOutcomeWireV1 == WObj([plan_id |-> WId, namespace |-> WId, previous_head |-> WOpt(WId),
  head |-> WOpt(WId)])
StateViewWireV1 == WObj([namespace |-> WId, head |-> WOpt(WId)])
RecoveryOutcomeWireV1 == WTag("status",
  [NoTransaction |-> <<>>, Recovered |-> [namespace |-> WId, head |-> WOpt(WId)]])
PruneOutcomeWireV1 == WObj([prepared_records |-> WInt, artifact_blobs |-> WInt,
  state_generations |-> WInt, pack_objects |-> WInt, canonical_files |-> WInt,
  canonical_symlinks |-> WInt, canonical_trees |-> WInt])
ResultWireV1 == WTag("type",
  [op \in Preparations |-> [deployment |-> PreparedDeploymentWireV1]] @@
  [StoreStatus |-> [status |-> StoreStatusWireV1],
   InitializeStore |-> [status |-> StoreStatusWireV1],
   Artifact |-> [artifact |-> ArtifactWireV1],
   Commit |-> [outcome |-> ApplyOutcomeWireV1], State |-> [state |-> StateViewWireV1],
   Recover |-> [outcome |-> RecoveryOutcomeWireV1], Prune |-> [outcome |-> PruneOutcomeWireV1],
   Catalog |-> [catalog |-> CatalogInspectionWireV1],
   Namespace |-> [namespace |-> NamespaceInspectionWireV1],
   History |-> [history |-> NamespaceHistoryWireV1],
   Generation |-> [generation |-> GenerationInspectionWireV1],
   DesiredSnapshot |-> [snapshot |-> DesiredSnapshotInspectionWireV1],
   CanonicalTree |-> [tree |-> CanonicalTreeInspectionWireV1],
   ArtifactMetadata |-> [artifact |-> ArtifactMetadataInspectionWireV1],
   CapturedInputs |-> [inputs |-> CapturedInputsInspectionWireV1],
   TransformProvenance |-> [provenance |-> TransformProvenanceInspectionWireV1],
   Retention |-> [retention |-> RetentionInspectionWireV1],
   Tracking |-> [tracking |-> TrackingInspectionWireV1],
   Status |-> [status |-> NamespaceStatusWireV1], Fsck |-> [report |-> FsckReportWireV1]])
OperationWireV1 == WEnum(
  {"StoreStatus", "InitializeStore", "Prepare", "Plan", "Artifact", "Commit", "State",
   "Recover", "Prune", "Checkout", "Disable", "Enable", "RemoveNamespace",
   "SetHistoryRetention", "Pin", "Unpin", "AddRestorePoint", "DropRestorePoint", "Catalog",
   "Namespace", "History", "Generation", "DesiredSnapshot", "CanonicalTree",
   "ArtifactMetadata", "CapturedInputs", "TransformProvenance", "Retention", "Tracking",
   "Status", "Fsck"})
EventWireV1 == WTag("type", [Started |-> [operation |-> OperationWireV1]])
ErrorCategoryWireV1 == WEnum({"InvalidRequest", "Unsupported", "NotFound", "PermissionDenied",
  "Conflict", "ResourceLimit", "Unavailable", "Internal"})
ErrorCodeWireV1 == WEnum(
  {"MalformedJson", "InvalidRequest", "UnsupportedMachineVersion", "FrameResourceLimit",
   "ReadOnlyStore", "StoreNotReady", "StateParentMissing", "UnsafeDirectory",
   "RootObservationChanged", "StateParentObservationChanged", "MalformedStoreMetadata",
   "UnsupportedStoreVersion", "StoreIo", "PlanNotFound", "ArtifactNotFound",
   "ApprovalMismatch", "StalePlan", "RecoveryRequired", "OperationBusy",
   "InvalidDeployment", "UnsafeTarget", "CorruptStore", "CorruptArtifact", "DeploymentIo",
   "InternalEngineError"})
StoreDirectoryWireV1 == WEnum({"StateParent", "V1Root"})
DirectorySafetyWireV1 == WEnum({"WrongOwner", "GroupOrOtherWritable", "SpecialModeBitsSet",
  "UnexpectedMode", "AncestryLimitExceeded"})
StoreRootWireV1 == WEnum({"V1"})
StoreMetadataWireV1 == WEnum({"MarkerMissingWithOtherEntries", "MarkerNotRegular",
  "MarkerTooLarge", "UnexpectedRootEntry", "InvalidRootEntry", "WrongOwner",
  "UnexpectedMode", "MultipleLinks", "ObservationChanged", "InvalidDescriptor"})
SchemaFamilyWireV1 == WEnum({"Machine", "Store"})
ErrorDetailsWireV1 == WTag("type",
  [None |-> <<>>, CurrentStatus |-> [status |-> StoreStatusWireV1],
   UnsafeDirectory |-> [directory |-> StoreDirectoryWireV1, reason |-> DirectorySafetyWireV1],
   RootObservation |-> [root |-> StoreRootWireV1],
   StoreMetadata |-> [reason |-> StoreMetadataWireV1],
   UnsupportedSchema |-> [schema |-> SchemaFamilyWireV1, expected |-> WInt, found |-> WInt]])
\* The message is static text and no error of the program carries diagnostics.
ErrorWireV1 == WObj([category |-> ErrorCategoryWireV1, code |-> ErrorCodeWireV1,
  details |-> ErrorDetailsWireV1])
Envelope(type, member, W, idW) == WObj(
  ("schema_version" :> WInt) @@ ("request_id" :> idW) @@ ("sequence" :> WInt)
    @@ ("type" :> WEnum({type})) @@ (member :> W))
EventEnvelopeWireV1 == Envelope("Event", "event", EventWireV1, WString)
ResultEnvelopeWireV1 == Envelope("Result", "result", ResultWireV1, WString)
\* NullableRequestIdWire: null is accepted; the member itself may not be missing.
ErrorEnvelopeWireV1 == Envelope("Error", "error", ErrorWireV1, <<"nullable", WString>>)
=============================================================================
