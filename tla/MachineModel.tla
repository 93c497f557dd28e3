---------------------------- MODULE MachineModel ----------------------------
(***************************************************************************)
(* The semantic model of the machine protocol (malm-machine/src/model.rs): *)
(* requests, results, terminal errors with the shape each code prescribes, *)
(* the frames of a response, and the validator a client runs over them.    *)
(*                                                                         *)
(* A request or a result is <<operation, payload>>; a frame is <<kind,     *)
(* request id or Null, sequence, body>>.                                   *)
(***************************************************************************)
EXTENDS MachineTypes

MachineRequestV1 ==
  [StoreStatus |-> Struct("StoreStatus", <<>>), InitializeStore |-> Struct("InitializeStore", <<>>),
   Prepare |-> PrepareRequestV1, Plan |-> Struct("Plan", [plan_id |-> Hash]),
   Artifact |-> Struct("Artifact", [plan_id |-> Hash, artifact_id |-> Hash]),
   Commit |-> CommitRequestV1, State |-> Struct("State", [namespace |-> Text]),
   Recover |-> Struct("Recover", <<>>), Prune |-> PruneRequestV1,
   Checkout |-> CheckoutRequestV1, Disable |-> LifecycleRequestV1, Enable |-> LifecycleRequestV1,
   RemoveNamespace |-> NamespaceRemovalRequestV1,
   SetHistoryRetention |-> HistoryRetentionRequestV1,
   Pin |-> RetentionPinRequestV1, Unpin |-> RetentionPinRequestV1,
   AddRestorePoint |-> RestorePointRequestV1, DropRestorePoint |-> RestorePointRequestV1,
   Catalog |-> CatalogInspectionRequestV1, Namespace |-> NamespaceInspectionRequestV1,
   History |-> NamespaceHistoryRequestV1, Generation |-> GenerationInspectionRequestV1,
   DesiredSnapshot |-> DesiredSnapshotInspectionRequestV1,
   CanonicalTree |-> CanonicalTreeInspectionRequestV1,
   ArtifactMetadata |-> ArtifactMetadataInspectionRequestV1,
   CapturedInputs |-> PreparedPlanInspectionRequestV1,
   TransformProvenance |-> PreparedPlanInspectionRequestV1,
   Retention |-> GenerationInspectionRequestV1, Tracking |-> GenerationInspectionRequestV1,
   Status |-> NamespaceStatusRequestV1, Fsck |-> FsckRequestV1]

MachineOperationV1 == DOMAIN MachineRequestV1

\* The operations that answer with a deployment to review.
Preparations == {"Prepare", "Plan", "Checkout", "Disable", "Enable", "RemoveNamespace",
  "SetHistoryRetention", "Pin", "Unpin", "AddRestorePoint", "DropRestorePoint"}
MachineResultV1 ==
  [op \in Preparations |-> PreparedDeploymentV1] @@
  [StoreStatus |-> StoreStatusV1, InitializeStore |-> Enum(<<"Ready">>),
   Artifact |-> ArtifactV1, Commit |-> ApplyOutcomeV1, State |-> StateViewV1,
   Recover |-> RecoveryOutcomeV1, Prune |-> PruneOutcomeV1,
   Catalog |-> CatalogInspectionV1, Namespace |-> NamespaceInspectionV1,
   History |-> NamespaceHistoryV1, Generation |-> GenerationInspectionV1,
   DesiredSnapshot |-> DesiredSnapshotInspectionV1, CanonicalTree |-> CanonicalTreeInspectionV1,
   ArtifactMetadata |-> ArtifactMetadataInspectionV1,
   CapturedInputs |-> CapturedInputsInspectionV1,
   TransformProvenance |-> TransformProvenanceInspectionV1,
   Retention |-> RetentionInspectionV1, Tracking |-> TrackingInspectionV1,
   Status |-> NamespaceStatusV1, Fsck |-> FsckReportV1]

operation(r) == r[1]        \* of a request or of a result

-----------------------------------------------------------------------------
\* Terminal errors: every code has one category and one kind of details.

\* MachineErrorDetailsV1 and details_kind: the details are <<kind, value>>, the two
\* schemas of UnsupportedSchema told apart.
details_kind(details) ==
  IF details[1] # "UnsupportedSchema" THEN details[1]
  ELSE IF details[2].schema = "Machine" THEN "UnsupportedMachine" ELSE "UnsupportedStore"
NoDetails == <<"None", <<>>>>

expected_error_shape ==
  [MalformedJson |-> <<"InvalidRequest", "None">>, InvalidRequest |-> <<"InvalidRequest", "None">>,
   UnsupportedMachineVersion |-> <<"Unsupported", "UnsupportedMachine">>,
   FrameResourceLimit |-> <<"ResourceLimit", "None">>,
   ReadOnlyStore |-> <<"PermissionDenied", "None">>,
   StoreNotReady |-> <<"Conflict", "CurrentStatus">>,
   StateParentMissing |-> <<"NotFound", "None">>,
   UnsafeDirectory |-> <<"Conflict", "UnsafeDirectory">>,
   RootObservationChanged |-> <<"Conflict", "RootObservation">>,
   StateParentObservationChanged |-> <<"Conflict", "None">>,
   MalformedStoreMetadata |-> <<"Conflict", "StoreMetadata">>,
   UnsupportedStoreVersion |-> <<"Unsupported", "UnsupportedStore">>,
   StoreIo |-> <<"Unavailable", "None">>,
   PlanNotFound |-> <<"NotFound", "None">>, ArtifactNotFound |-> <<"NotFound", "None">>,
   ApprovalMismatch |-> <<"Conflict", "None">>, StalePlan |-> <<"Conflict", "None">>,
   RecoveryRequired |-> <<"Conflict", "None">>, OperationBusy |-> <<"Conflict", "None">>,
   InvalidDeployment |-> <<"Conflict", "None">>, UnsafeTarget |-> <<"Conflict", "None">>,
   CorruptStore |-> <<"Conflict", "None">>, CorruptArtifact |-> <<"Conflict", "None">>,
   DeploymentIo |-> <<"Unavailable", "None">>, InternalEngineError |-> <<"Internal", "None">>]

MachineErrorV1(category, code, details) ==
  [category |-> category, code |-> code, details |-> details]
\* MachineErrorV1::new.  No caller attaches diagnostics, so their limit is never met.
MachineErrorNew(e) ==
  Require(/\ expected_error_shape[e.code] = <<e.category, details_kind(e.details)>>
          /\ e.details # <<"CurrentStatus", [status |-> "Ready"]>>
          /\ e.details[1] = "UnsupportedSchema" =>
               e.details[2].expected # e.details[2].found, e)
malformed_json == MachineErrorNew(MachineErrorV1("InvalidRequest", "MalformedJson", NoDetails))
invalid_request == MachineErrorNew(MachineErrorV1("InvalidRequest", "InvalidRequest", NoDetails))
frame_resource_limit ==
  MachineErrorNew(MachineErrorV1("ResourceLimit", "FrameResourceLimit", NoDetails))
unsupported_machine_version(found) ==
  MachineErrorNew(MachineErrorV1("Unsupported", "UnsupportedMachineVersion",
    <<"UnsupportedSchema", [schema |-> "Machine", expected |-> 1, found |-> found]>>))

\* The code and the details a store error becomes.
machine_store_code(code) ==
  CASE code = "Io" -> "StoreIo" [] code = "Internal" -> "InternalEngineError" [] OTHER -> code
machine_store_details(e) ==
  CASE e[1] = "StoreNotReady"           -> <<"CurrentStatus", e[2]>>
    [] e[1] = "UnsafeDirectory"         -> <<"UnsafeDirectory", e[2]>>
    [] e[1] = "RootObservationChanged"  -> <<"RootObservation", e[2]>>
    [] e[1] = "MalformedStoreMetadata"  -> <<"StoreMetadata", e[2]>>
    [] e[1] = "UnsupportedStoreVersion" ->
         <<"UnsupportedSchema", [schema |-> "Store", expected |-> e[2].expected,
                                 found |-> e[2].found]>>
    [] OTHER                            -> NoDetails
\* Unlike new, from_store does not check the shape.
from_store(e) ==
  MachineErrorV1(expected_error_shape[machine_store_code(e[1])][1], machine_store_code(e[1]),
                 machine_store_details(e))

-----------------------------------------------------------------------------
\* Frames and the response stream

sequence_ok(correlated, sequence) == IF correlated THEN sequence > 0 ELSE sequence = 0
Started(id, op) == <<"Started", id, 0, op>>
ResultFrame(id, sequence, result) ==
  Require(sequence_ok(TRUE, sequence), <<"Result", id, sequence, result>>)
ErrorFrame(id, sequence, error) ==
  Require(sequence_ok(id # Null, sequence), <<"Error", id, sequence, error>>)
uncorrelated_error(error) == <<"Error", Null, 0, error>>
FrameValid(f) == f[1] # "Started" => sequence_ok(f[2] # Null, f[3])

\* ResponseStreamValidatorV1: the state after one more frame, "Broken" when it refuses it.
observe(state, id, op, f) ==
  CASE state = "AwaitingStarted" ->
         IF f[1] = "Started" /\ f[2] = id /\ f[4] = op THEN "AwaitingTerminal" ELSE "Broken"
    [] state = "AwaitingTerminal" ->
         IF /\ f[1] # "Started" /\ f[2] = id /\ f[3] = 1
            /\ f[1] = "Result" => operation(f[4]) = op
         THEN "Terminal" ELSE "Broken"
    [] OTHER -> "Broken"
=============================================================================
