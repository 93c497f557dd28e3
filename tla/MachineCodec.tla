---------------------------- MODULE MachineCodec ----------------------------
(***************************************************************************)
(* Encoding and decoding of whole machine records (malm-machine/codec.rs): *)
(* the limits a record is held to before it is parsed, the envelopes, and  *)
(* the encoders, which decode what they have written before they return    *)
(* it.                                                                     *)
(*                                                                         *)
(* A line on a pipe is <<class, json>>: "record" is UTF-8 with one final   *)
(* LF, the other classes are the ways a line can fail to be that.  A JSON  *)
(* value may also be <<"syntax">>, text that does not parse, or <<"dup">>, *)
(* an object that repeats a key.                                           *)
(***************************************************************************)
EXTENDS MachineConvert

CONSTANTS MaxFrameBytes,     \* MAX_MACHINE_FRAME_BYTES, in JSON values and hex digits
          MaxDepth, MaxMembers, MaxValues

ASSUME MachineCodecConstants ==
  {MaxFrameBytes, MaxDepth, MaxMembers, MaxValues} \subseteq Nat \ {0}

RECURSIVE ByteLen(_)
ByteLen(j) ==
  CASE j[1] = "x" -> 1 + Len(j[2])
    [] j[1] = "a" -> 1 + MapThenSumSet(LAMBDA i : ByteLen(j[2][i]), DOMAIN j[2])
    [] j[1] = "o" -> 1 + MapThenSumSet(LAMBDA m : ByteLen(j[2][m]), DOMAIN j[2])
    [] OTHER -> 1
\* JsonBudget and BudgetVisitor
RECURSIVE Values(_)
Values(j) ==
  CASE j[1] \in {"a", "o"} -> 1 + MapThenSumSet(LAMBDA i : Values(j[2][i]), DOMAIN j[2])
    [] OTHER -> 1
RECURSIVE BudgetFaults(_, _)
BudgetFaults(j, depth) ==
  IF j[1] = "syntax" THEN {"MalformedJson"}
  ELSE IF j[1] = "dup" THEN {"DuplicateKey"}
  ELSE IF j[1] \notin {"a", "o"} THEN {}
  ELSE IF depth + 1 > MaxDepth THEN {"TooDeep"}
  ELSE (IF j[1] = "o" /\ Cardinality(DOMAIN j[2]) > MaxMembers
        THEN {"TooManyObjectMembers"} ELSE {})
       \cup (IF j[1] = "a" /\ Len(j[2]) > ArrayItems THEN {"TooManyArrayItems"} ELSE {})
       \cup UNION {BudgetFaults(j[2][x], depth + 1) : x \in DOMAIN j[2]}

FaultsOrOk(faults) == IF faults = {} THEN {"ok"} ELSE faults
\* "ok", or why the line is refused before its members are looked at.  When a line has
\* several faults the code reports the one it comes to first.
preflight(line) ==
  IF ByteLen(line[2]) > MaxFrameBytes THEN {"TooLarge"}
  ELSE IF line[1] = "invalid_utf8" THEN {"InvalidUtf8"}
  ELSE IF line[1] # "record" THEN {"InvalidFraming"}
  ELSE FaultsOrOk(BudgetFaults(line[2], 0)
                    \cup (IF Values(line[2]) > MaxValues THEN {"TooManyValues"} ELSE {}))
validate_version(j) ==
  IF j[1] # "o" \/ "schema_version" \notin DOMAIN j[2] THEN "InvalidEnvelope"
  ELSE IF j[2].schema_version[1] # "n" \/ j[2].schema_version[2] < 0 THEN "InvalidEnvelope"
  ELSE IF j[2].schema_version[2] # 1 THEN "UnsupportedVersion" ELSE "ok"

-----------------------------------------------------------------------------
\* Requests

request_conv ==
  [StoreStatus |-> <<>>, InitializeStore |-> <<>>,
   Prepare |-> [namespace |-> id, expected_head |-> maybe(id), graph_digest |-> id,
                inputs |-> each(input_conv), artifacts |-> each(prepare_artifact_conv),
                findings |-> each(finding_request_conv),
                operations |-> each(operation_request_conv)],
   Plan |-> [plan_id |-> id], Artifact |-> [plan_id |-> id, artifact_id |-> id],
   Commit |-> [plan_id |-> id, approval_digest |-> id], State |-> [namespace |-> id],
   Recover |-> <<>>, Prune |-> [plan_ids |-> each(id)],
   Checkout |-> [namespace |-> id, target_generation |-> id],
   Disable |-> [namespace |-> id], Enable |-> [namespace |-> id],
   RemoveNamespace |-> [namespace |-> id, history |-> variant({"Drop"})],
   SetHistoryRetention |-> [namespace |-> id, generations |-> bytes_limit],
   Pin |-> [namespace |-> id, object |-> retention_object_conv],
   Unpin |-> [namespace |-> id, object |-> retention_object_conv],
   AddRestorePoint |-> [namespace |-> id, generation |-> id],
   DropRestorePoint |-> [namespace |-> id, generation |-> id],
   Catalog |-> [max_namespaces |-> items, max_decoded_bytes |-> bytes_limit],
   Namespace |-> [namespace |-> id, max_decoded_bytes |-> bytes_limit],
   History |-> [namespace |-> id, max_generations |-> items, max_decoded_bytes |-> bytes_limit],
   Generation |-> [namespace |-> id, generation |-> id, max_generations |-> items,
                   max_decoded_bytes |-> bytes_limit],
   DesiredSnapshot |-> [namespace |-> id, generation |-> id, max_targets |-> items,
                        max_decoded_bytes |-> bytes_limit],
   CanonicalTree |-> [tree |-> id, max_entries |-> items, max_decoded_bytes |-> bytes_limit],
   ArtifactMetadata |-> [plan_id |-> id, artifact_id |-> id, max_decoded_bytes |-> bytes_limit],
   CapturedInputs |-> [plan_id |-> id, max_items |-> items, max_decoded_bytes |-> bytes_limit],
   TransformProvenance |-> [plan_id |-> id, max_items |-> items,
                            max_decoded_bytes |-> bytes_limit],
   Retention |-> [namespace |-> id, generation |-> id, max_generations |-> items,
                  max_decoded_bytes |-> bytes_limit],
   Tracking |-> [namespace |-> id, generation |-> id, max_generations |-> items,
                 max_decoded_bytes |-> bytes_limit],
   Status |-> [namespace |-> id, max_targets |-> items, max_observed_bytes |-> bytes_limit],
   Fsck |-> [max_findings |-> items, max_objects |-> bytes_limit,
             max_decoded_bytes |-> bytes_limit, observe_targets |-> flag,
             max_target_observations |-> uint, max_observed_bytes |-> uint]]

\* What request_to_wire puts into the members, where it is not the field itself.
RequestMembers(op, p) ==
  CASE op = "Commit"  -> [plan_id |-> p.plan_id, approval_digest |-> p.approval.findings_digest]
    [] op = "Fsck"    -> IF p.observe_targets THEN p
                         ELSE [p EXCEPT !.max_target_observations = ArrayItems]
    [] OTHER -> p
RequestRefused(op, p) ==
  \/ op = "Prepare" /\ p.transforms # <<>>
  \/ op = "Fsck" /\ p.observe_targets /\ machine_item_limit(p.max_target_observations) = Bad
TaggedRequest(op, o) == AllGood(o, <<"o", ("type" :> <<"e", op>>) @@ o>>)
request_to_wire(r) ==
  IF RequestRefused(r[1], r[2]) THEN Bad
  ELSE TaggedRequest(r[1], MembersToWire(request_conv[r[1]], RequestMembers(r[1], r[2])))

\* What request_from_wire builds from the members it has read.
RequestFromMembers(op, m) ==
  CASE op = "Commit"  -> [plan_id |-> m.plan_id,
                          approval |-> [plan_id |-> m.plan_id,
                                        findings_digest |-> m.approval_digest]]
    [] op = "Prepare" -> ("transforms" :> <<>>) @@ m
    [] op = "Prune"   -> PruneNew([plan_ids |-> m.plan_ids, sweep_unreferenced |-> FALSE])
    [] op = "Fsck"    ->
         IF ~m.observe_targets
         THEN [m EXCEPT !.max_target_observations = FsckDefault,
                        !.max_observed_bytes = FsckDefault]
         ELSE Require(/\ machine_wire_items(m.max_target_observations) # Bad
                      /\ m.max_observed_bytes > 0, m)
    [] OTHER -> m
RequestFrom(op, m) ==
  IF \E x \in DOMAIN m : m[x] = Bad THEN Bad ELSE <<op, RequestFromMembers(op, m)>>
request_from_wire(j) ==
  RequestFrom(j[2].type[2], MembersFromWire(request_conv[j[2].type[2]], j[2]))

\* A line is looked at no further than its first fault.
Admitted(pre, version, body) ==
  IF pre # {"ok"} THEN <<"refused", pre>>
  ELSE IF version # "ok" THEN <<"refused", {version}>>
  ELSE body
RequestDecoded(rid, r) ==
  IF r = Bad \/ r[2] = Bad THEN <<"refused", {"InvalidEnvelope"}>>
  ELSE IF rid = 0 THEN <<"refused", {"InvalidSemantics"}>>
  ELSE <<"ok", rid, r>>
RequestInEnvelope(env) ==
  IF env = Bad THEN <<"refused", {"InvalidEnvelope"}>>
  ELSE RequestDecoded(env[2].request_id[2], request_from_wire(env[2].request))
\* <<"ok", request id, request>> or <<"refused", the errors it may be reported as>>
decode_request_v1(line) ==
  Admitted(preflight(line), validate_version(line[2]),
           RequestInEnvelope(Serde(RequestEnvelopeWireV1, line[2])))

\* write_decoder_error: only the size of a record keeps its name.
write_decoder_error(errors) == IF errors = {"TooLarge"} THEN "TooLarge" ELSE "RejectedByDecoder"
\* encode_wire and the decoder's verdict on what it wrote: <<"ok", line>> or <<"failed", why>>.
Encoded(j, decoded, meant) ==
  IF ByteLen(j) > MaxFrameBytes THEN <<"failed", "TooLarge">>
  ELSE IF decoded[1] = "refused" THEN <<"failed", write_decoder_error(decoded[2])>>
  ELSE IF decoded # meant THEN <<"failed", "Serialization">>
  ELSE <<"ok", <<"record", j>>>>
RequestJson(rid, w) ==
  <<"o", [schema_version |-> <<"n", 1>>, request_id |-> <<"s", rid>>,
          type |-> <<"e", "Request">>, request |-> w]>>
EncodedRequest(rid, r, j) == Encoded(j, decode_request_v1(<<"record", j>>), <<"ok", rid, r>>)
RequestRecord(rid, r, w) ==
  IF w = Bad THEN <<"failed", "InvalidSemantics">> ELSE EncodedRequest(rid, r, RequestJson(rid, w))
encode_request_v1(rid, r) == RequestRecord(rid, r, request_to_wire(r))

-----------------------------------------------------------------------------
\* Server records

ResultMember ==
  [op \in Preparations |-> <<"deployment", prepared_conv>>] @@
  [StoreStatus |-> <<"status", status_conv>>, InitializeStore |-> <<"status", status_conv>>,
   Artifact |-> <<"artifact", artifact_conv>>, Commit |-> <<"outcome", apply_outcome_conv>>,
   State |-> <<"state", state_conv>>, Recover |-> <<"outcome", recovery_conv>>,
   Prune |-> <<"outcome", prune_conv>>,
   Catalog |-> <<"catalog", catalog_conv>>, Namespace |-> <<"namespace", namespace_conv>>,
   History |-> <<"history", history_conv>>, Generation |-> <<"generation", generation_conv>>,
   DesiredSnapshot |-> <<"snapshot", desired_snapshot_conv>>,
   CanonicalTree |-> <<"tree", canonical_tree_conv>>,
   ArtifactMetadata |-> <<"artifact", artifact_metadata_conv>>,
   CapturedInputs |-> <<"inputs", captured_inputs_conv>>,
   TransformProvenance |-> <<"provenance", transform_inspection_conv>>,
   Retention |-> <<"retention", retention_conv>>, Tracking |-> <<"tracking", tracking_conv>>,
   Status |-> <<"status", namespace_status_conv>>, Fsck |-> <<"report", fsck_conv>>]
ResultObject(op, m, v) == <<"o", ("type" :> <<"e", op>>) @@ (m[1] :> ToWire(m[2], v))>>
result_to_wire(r) == ResultObject(r[1], ResultMember[r[1]], r[2])
\* A successful initialization must report the store as ready.
ResultValue(op, v) ==
  IF v = Bad THEN Bad ELSE IF op = "InitializeStore" /\ v # "Ready" THEN Bad ELSE <<op, v>>
ResultOf(op, m, j) == ResultValue(op, FromWire(m[2], j[2][m[1]]))
result_from_wire(j) == ResultOf(j[2].type[2], ResultMember[j[2].type[2]], j)
ErrorValue(e) == IF e = Bad THEN Bad ELSE MachineErrorNew(e)
error_from_wire(j) == ErrorValue(FromWire(error_conv, j))

FrameJson(f) ==
  <<"o", ("schema_version" :> <<"n", 1>>) @@ ("sequence" :> <<"n", f[3]>>)
      @@ ("request_id" :> (IF f[2] = Null THEN <<"null">> ELSE <<"s", f[2]>>))
      @@ (CASE f[1] = "Started" ->
                 ("type" :> <<"e", "Event">>) @@
                 ("event" :> <<"o", [type |-> <<"e", "Started">>,
                                     operation |-> ToWire(operation_conv, f[4])]>>)
            [] f[1] = "Result" -> ("type" :> <<"e", "Result">>) @@ ("result" :> result_to_wire(f[4]))
            [] f[1] = "Error"  -> ("type" :> <<"e", "Error">>)
                                  @@ ("error" :> ToWire(error_conv, f[4])))>>

Decoded(frame) == IF frame = Bad THEN <<"refused", {"InvalidEnvelope"}>> ELSE <<"ok", frame>>
DecodeEvent(o) ==
  IF o.sequence[2] # 0 \/ o.request_id[2] = 0 THEN Bad
  ELSE Started(o.request_id[2], o.event[2].operation[2])
DecodeResult(o, r) ==
  IF o.request_id[2] = 0 \/ r = Bad THEN Bad ELSE ResultFrame(o.request_id[2], o.sequence[2], r)
DecodeError(o, e) ==
  IF o.request_id = <<"s", 0>> \/ e = Bad THEN Bad
  ELSE ErrorFrame(IF o.request_id[1] = "null" THEN Null ELSE o.request_id[2], o.sequence[2], e)
\* ServerEnvelopeWireV1 is untagged: the first of the three shapes that fits.
FirstFit(event, result, error) ==
  IF event # Bad THEN DecodeEvent(event[2])
  ELSE IF result # Bad THEN DecodeResult(result[2], result_from_wire(result[2].result))
  ELSE IF error # Bad THEN DecodeError(error[2], error_from_wire(error[2].error)) ELSE Bad
DecodeEnvelope(j) ==
  Decoded(FirstFit(Serde(EventEnvelopeWireV1, j), Serde(ResultEnvelopeWireV1, j),
                   Serde(ErrorEnvelopeWireV1, j)))
decode_server_frame_v1(line) ==
  Admitted(preflight(line), validate_version(line[2]), DecodeEnvelope(line[2]))

\* validate_result_review: results that carry a deployment under review.
validate_result_review(r) ==
  r[1] \in Preparations =>
    /\ \A i \in DOMAIN r[2].findings : PolicyFindingNew(r[2].findings[i]) # Bad
    /\ PreparedDeploymentNew(r[2]) # Bad
EncodedFrame(f, j) == Encoded(j, decode_server_frame_v1(<<"record", j>>), <<"ok", f>>)
encode_server_frame_v1(f) ==
  IF ~FrameValid(f) \/ (f[1] = "Result" /\ ~validate_result_review(f[4]))
  THEN <<"failed", "InvalidSemantics">>
  ELSE EncodedFrame(f, FrameJson(f))

\* The record a refused request is answered with.  It never repeats the input.
request_error_frame_v1(error, found) ==
  uncorrelated_error(
    CASE error \in {"TooLarge", "TooDeep", "TooManyObjectMembers", "TooManyArrayItems",
                    "TooManyValues"} -> frame_resource_limit
      [] error \in {"InvalidUtf8", "InvalidFraming", "DuplicateKey", "MalformedJson"} ->
           malformed_json
      [] error = "UnsupportedVersion" /\ found # 1 -> unsupported_machine_version(found)
      [] OTHER -> invalid_request)
=============================================================================
