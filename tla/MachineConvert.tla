--------------------------- MODULE MachineConvert ---------------------------
(***************************************************************************)
(* The ..._to_wire and ..._from_wire functions of malm-machine's codec: a  *)
(* conversion lists the members it writes and what becomes of each field;  *)
(* the way back rebuilds the semantic value through its constructor.       *)
(***************************************************************************)
EXTENDS MachineWire

text == <<"text">>              \* a string a constructor validates
raw == <<"raw">>                \* a string nobody looks at
id == <<"raw">>                 \* a newtype serde has already validated
uint == <<"uint">>
items == <<"items">>            \* machine_item_limit and machine_wire_items
bytes_limit == <<"positive">>   \* validate_byte_limit, validate_limit
file_mode == <<"mode", 4..7>>   \* validate_file_mode: the owner may read
dir_mode == <<"mode", {5, 7}>>  \* validate_directory_mode: and search
flag == <<"flag">>
hex == <<"hex">>
variant(names) == <<"variant", names>>
each(c) == <<"each", c>>
maybe(c) == <<"maybe", c>>
fields(name, members) == <<"fields", name, members>>
variants(name, tag, cases) == <<"variants", name, tag, cases>>
from(field, c) == <<"from", field, c>>     \* the member is not named as the field
FieldOf(member, c) == IF c[1] = "from" THEN c[2] ELSE member
ConvOf(c) == IF c[1] = "from" THEN c[3] ELSE c

encode_hex(bytes) ==
  [i \in 1..2 * Len(bytes) |->
     LET b == bytes[(i + 1) \div 2] IN IF i % 2 = 1 THEN b \div 16 ELSE b % 16]
decode_hex(digits) ==
  Require(Len(digits) % 2 = 0,
    [i \in 1..Len(digits) \div 2 |-> 16 * digits[2 * i - 1] + digits[2 * i]])
machine_item_limit(n) == Require(n > 0 /\ n <= ArrayItems, <<"n", n>>)
machine_wire_items(n) == Require(n > 0 /\ n <= ArrayItems, n)
AllGood(f, v) == Require(\A x \in DOMAIN f : f[x] # Bad, v)

RECURSIVE ToWire(_, _)
MembersToWire(members, r) ==
  [m \in DOMAIN members |-> ToWire(ConvOf(members[m]), r[FieldOf(m, members[m])])]
ToWire(c, v) ==
  CASE c[1] \in {"text", "raw"} -> <<"s", v>>
    [] c[1] \in {"uint", "positive", "mode"} -> <<"n", v>>
    [] c[1] = "items"    -> machine_item_limit(v)
    [] c[1] = "flag"     -> <<"b", v>>
    [] c[1] = "hex"      -> <<"x", encode_hex(v)>>
    [] c[1] = "variant"  -> Require(v \in c[2], <<"e", v>>)
    [] c[1] = "maybe"    -> IF v = Null THEN <<"null">> ELSE ToWire(c[2], v)
    [] c[1] = "each"     -> LET a == [i \in DOMAIN v |-> ToWire(c[2], v[i])]
                            IN  AllGood(a, <<"a", a>>)
    [] c[1] = "fields"   -> LET o == MembersToWire(c[3], v) IN AllGood(o, <<"o", o>>)
    [] c[1] = "variants" -> LET o == (c[3] :> <<"e", v[1]>>) @@ MembersToWire(c[4][v[1]], v[2])
                            IN  AllGood(o, <<"o", o>>)

RECURSIVE FromWire(_, _)
MembersFromWire(members, o) ==
  [f \in {FieldOf(m, members[m]) : m \in DOMAIN members} |->
     LET m == CHOOSE m \in DOMAIN members : FieldOf(m, members[m]) = f
     IN  FromWire(ConvOf(members[m]), o[m])]
FromWire(c, j) ==
  CASE c[1] = "text"     -> Require(j[2] # 0, j[2])
    [] c[1] \in {"raw", "uint", "flag"} -> j[2]
    [] c[1] = "items"    -> machine_wire_items(j[2])
    [] c[1] = "positive" -> Require(j[2] > 0, j[2])
    [] c[1] = "mode"     -> Require(j[2] \in c[2], j[2])
    [] c[1] = "hex"      -> decode_hex(j[2])
    [] c[1] = "variant"  -> Require(j[2] \in c[2], j[2])
    [] c[1] = "maybe"    -> IF j[1] = "null" THEN Null ELSE FromWire(c[2], j)
    [] c[1] = "each"     -> LET a == [i \in DOMAIN j[2] |-> FromWire(c[2], j[2][i])]
                            IN  AllGood(a, a)
    [] c[1] = "fields"   -> LET r == MembersFromWire(c[3], j[2])
                            IN  IF \E f \in DOMAIN r : r[f] = Bad THEN Bad
                                ELSE Construct(c[2], r)
    [] c[1] = "variants" -> LET v == j[2][c[3]][2]
                                r == MembersFromWire(c[4][v], j[2])
                            IN  IF \E f \in DOMAIN r : r[f] = Bad THEN Bad
                                ELSE Construct(c[2], <<v, r>>)

-----------------------------------------------------------------------------
\* The conversions, one per pair of functions

retention_object_conv == variants("RetentionObjectV1", "kind",
  [PreparedPlan |-> [plan_id |-> id], StateGeneration |-> [digest |-> id],
   ArtifactBlob |-> [digest |-> id], PackObject |-> [digest |-> id],
   CanonicalFile |-> [digest |-> id], CanonicalSymlink |-> [digest |-> id],
   CanonicalTree |-> [digest |-> id]])
operation_conv == variant(MachineOperationV1)
status_conv == variant({"Absent", "Uninitialized", "Ready"})
catalog_conv == fields("CatalogInspectionV1", [digest |-> id,
  namespaces |-> each(fields("CatalogNamespaceInspectionV1",
                             [namespace |-> id, generation |-> id])),
  decoded_bytes |-> uint])
lifecycle_conv == variant({"Enabled", "Disabled"})
\* tracked_root_from_wire checks the selector and the revision itself.
tracked_root_conv == fields("TrackedRootInspectionV1",
  [moving_selector |-> text, applied_revision |-> text, root_tree_digest |-> id])
transition_conv == variants("LifecycleTransitionViewV1", "kind",
  [Reconcile |-> <<>>, Disable |-> <<>>, Enable |-> [restore_generation |-> id],
   Checkout |-> [source_generation |-> id], RetentionAuthority |-> <<>>,
   NamespaceRemoval |-> [drops_history |-> flag]])
restore_point_conv == fields("RestorePointInspectionV1", [generation |-> id,
  lifecycle |-> lifecycle_conv, desired_snapshot_digest |-> id,
  tracked_root |-> maybe(tracked_root_conv)])
retention_authority_conv == fields("RetentionAuthorityInspectionV1",
  [history_generations |-> uint, restore_points |-> each(restore_point_conv),
   explicit_pins |-> each(retention_object_conv)])
generation_conv == fields("GenerationInspectionV1",
  [namespace |-> id, generation |-> id, lifecycle |-> lifecycle_conv,
   desired_snapshot_digest |-> id, target_count |-> uint, present_target_count |-> uint,
   absent_target_count |-> uint, plan_id |-> id, predecessor |-> maybe(id),
   tracked_root |-> maybe(tracked_root_conv), transition |-> transition_conv,
   restore_point |-> maybe(restore_point_conv), retention |-> retention_authority_conv])
namespace_conv == fields("NamespaceInspectionV1", [namespace |-> id, head |-> maybe(id),
  generation |-> maybe(generation_conv), decoded_bytes |-> uint])
history_conv == fields("NamespaceHistoryV1", [namespace |-> id, head |-> maybe(id),
  generations |-> each(generation_conv), decoded_bytes |-> uint])
archive_provenance_conv == fields("ArchiveProvenanceV1", [payload |-> id, decoder |-> text])
desired_state_conv == variants("DesiredTargetStateInspectionV1", "kind",
  [File |-> [digest |-> maybe(id), byte_len |-> maybe(uint), mode |-> maybe(uint)],
   Directory |-> [mode |-> maybe(uint)], Symlink |-> [object |-> maybe(id)],
   Tree |-> [tree |-> maybe(id), archive_provenance |-> maybe(archive_provenance_conv)]])
desired_snapshot_conv == fields("DesiredSnapshotInspectionV1",
  [namespace |-> id, generation |-> id, digest |-> id,
   targets |-> each(fields("DesiredTargetInspectionV1",
     [authority |-> id, relative_path |-> raw, state |-> desired_state_conv])),
   decoded_bytes |-> uint])
canonical_tree_conv == fields("CanonicalTreeInspectionV1", [tree |-> id, root_mode |-> uint,
  entries |-> each(fields("CanonicalTreeEntryInspectionV1",
    [relative_path |-> raw, mode |-> uint,
     object |-> from("kind", variants("CanonicalTreeEntryKindInspectionV1", "kind",
       [File |-> [digest |-> id, byte_len |-> uint], Directory |-> [digest |-> id],
        Symlink |-> [digest |-> id]]))])),
  decoded_bytes |-> uint])
artifact_descriptor_conv == fields("ArtifactDescriptorV1",
  [id |-> id, digest |-> id, byte_len |-> uint, media_type |-> text])
artifact_metadata_conv == fields("ArtifactMetadataInspectionV1", [plan_id |-> id,
  descriptor |-> artifact_descriptor_conv, decoded_bytes |-> uint])
input_kind_conv == variant({"Source", "Config", "Lock", "Component", "Asset", "Other"})
input_conv == fields("PrepareInputV1", [kind |-> input_kind_conv, name |-> text, digest |-> id])
captured_inputs_conv == fields("CapturedInputsInspectionV1", [plan_id |-> id,
  graph_digest |-> id, inputs |-> each(input_conv), decoded_bytes |-> uint])
transform_diagnostic_conv == fields("PrepareTransformDiagnosticV1",
  [severity |-> variant({"Error", "Warning", "Info"}), code |-> text, message |-> raw,
   primary |-> maybe(variants("PrepareTransformDiagnosticLocationV1", "kind",
     [Source |-> [authority_label |-> id, authority_identity |-> id, document_path |-> text,
                  source_byte_len |-> uint, start |-> uint, end |-> uint],
      Output |-> [start |-> uint, end |-> uint]])),
   notes |-> each(raw)])
transform_conv == fields("PrepareTransformProvenanceV1",
  [name |-> text,
   implementation |-> variants("PrepareTransformImplementationV1", "kind",
     [BuiltIn |-> [implementation |-> text],
      Component |-> [pack_node_id |-> id, pack_content_digest |-> id, component_path |-> text,
                     component_digest |-> id, interface_version |-> text,
                     execution_profile_digest |-> id]]),
   request_digest |-> id, document_digest |-> id,
   resources |-> each(fields("PrepareTransformResourceV1", [name |-> text, digest |-> id])),
   response_digest |-> id, diagnostics |-> each(transform_diagnostic_conv)])
transform_inspection_conv == fields("TransformProvenanceInspectionV1", [plan_id |-> id,
  transforms |-> each(transform_conv), decoded_bytes |-> uint])
retention_conv == fields("RetentionInspectionV1", [namespace |-> id, generation |-> id,
  authority |-> retention_authority_conv])
tracking_conv == fields("TrackingInspectionV1", [namespace |-> id, generation |-> id,
  tracked_root |-> maybe(tracked_root_conv)])
namespace_status_kind_conv == variant(
  {"NotFound", "EnabledExact", "EnabledModified", "EnabledMissing", "EnabledUnexpected",
   "Disabled", "Stale", "IncompatibleOrCorrupt", "RecoveryRequired"})
target_status_kind_conv == variant(
  {"Exact", "Modified", "Missing", "Unexpected", "Stale", "Incompatible"})
namespace_status_conv == fields("NamespaceStatusV1", [namespace |-> id, head |-> maybe(id),
  lifecycle |-> maybe(lifecycle_conv), desired_snapshot_digest |-> maybe(id),
  status |-> namespace_status_kind_conv,
  targets |-> each(fields("TargetStatusV1", [authority |-> id, relative_path |-> raw,
                                             status |-> target_status_kind_conv])),
  observed_bytes |-> uint, detail |-> maybe(raw)])
fsck_severity_conv == variant({"Error", "Warning"})
fsck_code_conv == variant(
  {"InvalidDescriptor", "RecoveryRequired", "InvalidJournal", "MissingCatalog",
   "InvalidCatalog", "MissingGeneration", "InvalidGeneration", "CyclicHistory",
   "CrossNamespaceHistory", "SharedGeneration", "MissingPreparedPlan", "InvalidPreparedPlan",
   "InvalidPreparedTransition", "MissingArtifactBlob", "CorruptArtifactBlob",
   "ArtifactLengthMismatch", "MissingPackObject", "CorruptPackObject",
   "MissingCanonicalObject", "CorruptCanonicalObject", "InvalidLockMetadata",
   "InvalidStaging", "MalformedStoreEntry", "UnreachableImmutableObject", "TargetDrift",
   "TargetObservationFailed", "AuthorityChanged", "InvalidOwnership",
   "TraversalLimitExceeded", "DecodedByteLimitExceeded", "FindingLimitExceeded"})
fsck_area_conv == variant(
  {"Root", "State", "Generations", "Prepared", "Transactions", "Objects", "ArtifactBlobs",
   "PackObjects", "CanonicalFiles", "CanonicalSymlinks", "CanonicalTrees"})
fsck_subject_conv == variants("FsckSubjectV1", "kind",
  [StoreDescriptor |-> <<>>, TransactionLock |-> <<>>, MaintenanceLock |-> <<>>,
   Journal |-> <<>>, JournalStaging |-> <<>>, Catalog |-> <<>>, CatalogStaging |-> <<>>,
   Namespace |-> [namespace |-> id], Generation |-> [digest |-> id],
   PreparedPlan |-> [plan_id |-> id], ArtifactBlob |-> [digest |-> id],
   PackObject |-> [digest |-> id], CanonicalFile |-> [digest |-> id],
   CanonicalSymlink |-> [digest |-> id], CanonicalTree |-> [digest |-> id],
   Target |-> [authority |-> id, relative_path |-> raw],
   StoreArea |-> [area |-> fsck_area_conv], Retention |-> <<>>, Ownership |-> <<>>,
   Coverage |-> <<>>])
fsck_finding_conv == fields("FsckFindingV1", [code |-> fsck_code_conv,
  severity |-> fsck_severity_conv, subject |-> fsck_subject_conv, detail |-> raw])
fsck_conv == fields("FsckReportV1", [findings |-> each(fsck_finding_conv),
  checked_generations |-> uint, checked_prepared_plans |-> uint,
  checked_artifact_blobs |-> uint, checked_pack_objects |-> uint,
  checked_canonical_files |-> uint, checked_canonical_symlinks |-> uint,
  checked_canonical_trees |-> uint, checked_targets |-> uint, decoded_bytes |-> uint,
  observed_bytes |-> uint, findings_truncated |-> flag, complete |-> flag])
prepare_artifact_conv == fields("PrepareArtifactV1",
  [id |-> id, bytes_hex |-> from("bytes", hex), media_type |-> text])
finding_request_conv == fields("PreparePolicyFindingV1",
  [code |-> text, message |-> text, approval_required |-> flag])
target_state_conv == variants("PrepareTargetStateV1", "kind",
  [File |-> [digest |-> id, byte_len |-> uint, mode |-> file_mode],
   Directory |-> [mode |-> dir_mode], Symlink |-> [object |-> id],
   Tree |-> [tree |-> id, archive_provenance |-> maybe(archive_provenance_conv)]])
operation_request_conv == variants("PrepareOperationV1", "operation",
  [EnsureDirectory |-> [authority |-> id, relative_path |-> text, mode |-> dir_mode,
                        replace_existing |-> flag],
   PlaceFile |-> [authority |-> id, relative_path |-> text, artifact_id |-> id,
                  mode |-> file_mode, replace_existing |-> flag],
   PlaceSymlink |-> [authority |-> id, relative_path |-> text, object |-> id,
                     replace_existing |-> flag],
   PlaceTree |-> [authority |-> id, relative_path |-> text, tree |-> id,
                  archive_provenance |-> maybe(archive_provenance_conv),
                  replace_existing |-> flag],
   RemoveLeaf |-> [authority |-> id, relative_path |-> text],
   AssertAbsent |-> [authority |-> id, relative_path |-> text],
   AssertExact |-> [authority |-> id, relative_path |-> text, state |-> target_state_conv]])
\* policy_finding_from_wire compares the id with the one it computes.
policy_finding_conv == fields("PolicyFindingV1",
  [id |-> id, code |-> text, message |-> text, approval_required |-> flag])
prepared_tracking_conv == fields("PreparedTrackingReviewV1",
  [source_locator |-> text, moving_selector |-> text, applied_revision |-> text,
   root_tree_digest |-> id, source_subdir |-> text, config_entry_point |-> text,
   selected_profile |-> id, target_authority |-> id,
   acquisition_grants |-> each(fields("PreparedTrackingAcquisitionGrantV1",
     [kind |-> variant({"LocalSource", "GitSource"}), locator |-> text])),
   component_grants |-> each(id)])
prepared_conv == fields("PreparedDeploymentV1",
  [plan_id |-> id, namespace |-> id, expected_head |-> maybe(id),
   transition |-> transition_conv, lifecycle |-> lifecycle_conv,
   restore_point |-> maybe(restore_point_conv), retention |-> retention_authority_conv,
   tracked_root |-> maybe(prepared_tracking_conv), graph_digest |-> id,
   inputs |-> each(input_conv), transforms |-> each(transform_conv),
   artifacts |-> each(artifact_descriptor_conv), findings |-> each(policy_finding_conv),
   approval_digest |-> id, operations |-> each(operation_request_conv)])
\* artifact_from_wire compares the descriptor with the bytes.
artifact_conv == fields("ArtifactV1",
  [descriptor |-> artifact_descriptor_conv, bytes_hex |-> from("bytes", hex)])
apply_outcome_conv == fields("ApplyOutcomeV1",
  [plan_id |-> id, namespace |-> id, previous_head |-> maybe(id), head |-> maybe(id)])
state_conv == fields("StateViewV1", [namespace |-> id, head |-> maybe(id)])
recovery_conv == variants("RecoveryOutcomeV1", "status",
  [NoTransaction |-> <<>>, Recovered |-> [namespace |-> id, head |-> maybe(id)]])
prune_conv == fields("PruneOutcomeV1", [prepared_records |-> uint, artifact_blobs |-> uint,
  state_generations |-> uint, pack_objects |-> uint, canonical_files |-> uint,
  canonical_symlinks |-> uint, canonical_trees |-> uint])
category_conv == variant({"InvalidRequest", "Unsupported", "NotFound", "PermissionDenied",
  "Conflict", "ResourceLimit", "Unavailable", "Internal"})
error_code_conv == variant(DOMAIN expected_error_shape)
error_details_conv == variants("MachineErrorDetailsV1", "type",
  [None |-> <<>>, CurrentStatus |-> [status |-> status_conv],
   UnsafeDirectory |-> [directory |-> variant({"StateParent", "V1Root"}),
     reason |-> variant({"WrongOwner", "GroupOrOtherWritable", "SpecialModeBitsSet",
                         "UnexpectedMode", "AncestryLimitExceeded"})],
   RootObservation |-> [root |-> variant({"V1"})],
   StoreMetadata |-> [reason |-> variant({"MarkerMissingWithOtherEntries",
     "MarkerNotRegular", "MarkerTooLarge", "UnexpectedRootEntry", "InvalidRootEntry",
     "WrongOwner", "UnexpectedMode", "MultipleLinks", "ObservationChanged",
     "InvalidDescriptor"})],
   UnsupportedSchema |-> [schema |-> variant({"Machine", "Store"}), expected |-> uint,
                          found |-> uint]])
error_conv == fields("MachineErrorV1",
  [category |-> category_conv, code |-> error_code_conv, details |-> error_details_conv])
=============================================================================
