------------------------------- MODULE Machine -------------------------------
(***************************************************************************)
(* One run of `malm machine' (src/cli/machine.rs): a client writes one     *)
(* line, the adapter decodes it, announces the operation, builds an engine *)
(* with the authority the operation's contract grants, executes the        *)
(* request and writes one terminal record.  The client decodes what it     *)
(* reads and holds it against ResponseStreamValidatorV1.  The engine is    *)
(* external here: any answer of the operation's type, or any error class   *)
(* the adapter distinguishes.                                              *)
(***************************************************************************)
EXTENDS MachineCodec

VARIABLES phase,    \* of the adapter: "reading", "accepted", "configured", "executed", "gone"
          sent,     \* the request the client meant, Null when its line was damaged
          wire,     \* the line on standard input, Null before it is written
          seen,     \* the request the adapter decoded
          grant,    \* the authority the engine was built with
          reply,    \* what the engine answered: <<"ok", result>> or <<"err", error>>
          say,      \* the record about to be written, the phase and exit status after it
          out,      \* the lines on standard output the client has not read
          open,     \* does the client still hold the other end of standard output
          stream,   \* the client's validator
          got,      \* the last record the client decoded
          exit      \* the exit status of the process
vars == <<phase, sent, wire, seen, grant, reply, say, out, open, stream, got, exit>>

RequestId == 1

-----------------------------------------------------------------------------
\* What an operation may do: contracts.rs

Retaining == {"SetHistoryRetention", "Pin", "Unpin", "AddRestorePoint", "DropRestorePoint"}
Preparing == {"Prepare", "Checkout", "Disable", "Enable", "RemoveNamespace"} \cup Retaining
Mutating  == {"InitializeStore", "Commit", "Recover", "Prune"}

\* Mutant: preparing a plan taken for an inspection.
store_accessPreparing(effect) ==
  IF effect \in {"ReadOnlyInspection", "HostWriteExport", "PrepareOnly"}
  THEN "ReadOnly" ELSE "ReadWrite"
store_access(effect) ==
  IF effect \in {"ReadOnlyInspection", "HostWriteExport"} THEN "ReadOnly" ELSE "ReadWrite"
machine_contract(op) ==
  [operation |-> IF op \in Retaining THEN "PrepareRetentionAuthority" ELSE op,
   effect |-> IF op \in Mutating THEN "MutationWrite"
              ELSE IF op \in Preparing THEN "PrepareOnly" ELSE "ReadOnlyInspection"]
executed_engine_operation(op) ==
  IF op \in {"SetHistoryRetention", "Pin", "Unpin", "AddRestorePoint", "DropRestorePoint"}
  THEN "PrepareRetentionAuthority" ELSE op
requires_target(r) ==
  \/ r[1] \in {"Prepare", "Commit", "Recover", "Checkout", "Disable", "Enable",
               "RemoveNamespace", "Status"} \cup Retaining
  \/ r[1] = "Fsck" /\ r[2].observe_targets
\* The engine's own check: initialize_store_with, the store's writers and prune_v1.
EngineWrites(engine_operation) ==
  engine_operation \in {"InitializeStore", "Prepare", "Commit", "Recover", "Prune", "Checkout",
                        "Disable", "Enable", "RemoveNamespace", "PrepareRetentionAuthority"}

-----------------------------------------------------------------------------
\* Errors of the engine, as the classes of output.rs and the codes they become

CommitErrorClass ==
  {"ReadOnlyStore", "Busy", "MissingPlan", "MissingArtifact", "ApprovalMismatch",
   "StaleNamespaceHead", "RecoveryRequired", "UnsafeTarget", "CorruptStore",
   "CorruptArtifact", "PlanInUse", "InvalidPlanState", "Io", "Other"}
EngineErrorClass ==
  {"ReadOnlyStore", "PreparedMissingPlan", "PreparedMissingArtifact", "PreparedBusy",
   "PreparedStaleHead", "PreparedUnsafeTarget", "PreparedInvalid", "Io", "OtherEngine"}
simple_error(category, code) == MachineErrorNew(MachineErrorV1(category, code, NoDetails))
machine_commit_class_error ==
  [ReadOnlyStore |-> simple_error("PermissionDenied", "ReadOnlyStore"),
   Busy |-> simple_error("Conflict", "OperationBusy"),
   MissingPlan |-> simple_error("NotFound", "PlanNotFound"),
   MissingArtifact |-> simple_error("NotFound", "ArtifactNotFound"),
   ApprovalMismatch |-> simple_error("Conflict", "ApprovalMismatch"),
   StaleNamespaceHead |-> simple_error("Conflict", "StalePlan"),
   RecoveryRequired |-> simple_error("Conflict", "RecoveryRequired"),
   UnsafeTarget |-> simple_error("Conflict", "UnsafeTarget"),
   CorruptStore |-> simple_error("Conflict", "CorruptStore"),
   CorruptArtifact |-> simple_error("Conflict", "CorruptArtifact"),
   PlanInUse |-> simple_error("Conflict", "InvalidDeployment"),
   InvalidPlanState |-> simple_error("Conflict", "InvalidDeployment"),
   Io |-> simple_error("Unavailable", "DeploymentIo"),
   Other |-> simple_error("Internal", "InternalEngineError")]
machine_engine_error ==
  [ReadOnlyStore |-> simple_error("PermissionDenied", "ReadOnlyStore"),
   PreparedMissingPlan |-> simple_error("NotFound", "PlanNotFound"),
   PreparedMissingArtifact |-> simple_error("NotFound", "ArtifactNotFound"),
   PreparedBusy |-> simple_error("Conflict", "OperationBusy"),
   PreparedStaleHead |-> simple_error("Conflict", "StalePlan"),
   PreparedUnsafeTarget |-> simple_error("Conflict", "UnsafeTarget"),
   PreparedInvalid |-> simple_error("Conflict", "InvalidDeployment"),
   Io |-> simple_error("Unavailable", "DeploymentIo"),
   OtherEngine |-> simple_error("Conflict", "InvalidDeployment")] @@ machine_commit_class_error
adapter_error == MachineErrorNew(MachineErrorV1("Internal", "InternalEngineError", NoDetails))

StoreOps == {"StoreStatus", "InitializeStore"}
EngineErrorOps == Preparing \cup {"Plan", "Artifact", "ArtifactMetadata", "CapturedInputs",
                                  "TransformProvenance"}
\* Every error the engine may give an operation that has the authority it needs.
EngineErrors(op) ==
  IF op \in StoreOps
  THEN {from_store(e) : e \in {e \in Samples(StoreErrorV1) : e[1] # "ReadOnlyStore"}}
  ELSE IF op \in EngineErrorOps
  THEN {machine_engine_error[c] :
          c \in (EngineErrorClass \cup CommitErrorClass) \ {"ReadOnlyStore"}}
  ELSE {machine_commit_class_error[c] : c \in CommitErrorClass \ {"ReadOnlyStore"}}
ReadOnlyRefusal(op) ==
  IF op \in StoreOps THEN from_store(<<"ReadOnlyStore", <<>>>>)
  ELSE machine_commit_class_error["ReadOnlyStore"]

\* The inspections that return no more items than the request allows.
Listing ==
  [Catalog |-> <<"namespaces", "max_namespaces">>, History |-> <<"generations", "max_generations">>,
   DesiredSnapshot |-> <<"targets", "max_targets">>, CanonicalTree |-> <<"entries", "max_entries">>,
   CapturedInputs |-> <<"inputs", "max_items">>,
   TransformProvenance |-> <<"transforms", "max_items">>,
   Status |-> <<"targets", "max_targets">>, Fsck |-> <<"findings", "max_findings">>]
WithinLimit(r, v) ==
  r[1] \in DOMAIN Listing => Len(v[Listing[r[1]][1]]) <= r[2][Listing[r[1]][2]]
\* All answers and errors are tried on the standard request of an operation, the standard
\* answer on the others: what is encoded does not depend on what was asked.
Standard(op) == <<op, Item(MachineRequestV1[op], 1)>>
Answers(r) ==
  {<<r[1], v>> : v \in {v \in IF r = Standard(r[1]) THEN Samples(MachineResultV1[r[1]])
                              ELSE {Item(MachineResultV1[r[1]], 1)} : WithinLimit(r, v)}}
Refusals(r) == IF r = Standard(r[1]) THEN EngineErrors(r[1]) ELSE {}

-----------------------------------------------------------------------------
Init ==
  /\ phase = "reading" /\ sent = Null /\ wire = Null /\ seen = Null /\ grant = Null
  /\ reply = Null /\ say = Null /\ out = <<>> /\ open = TRUE /\ stream = "AwaitingStarted"
  /\ got = Null /\ exit = Null

\* The line the client writes: a request it encodes, or one that was damaged.
SendLine(r, line) == line[1] = "ok" /\ wire' = line[2] /\ sent' = r
Send(r) ==
  /\ SendLine(r, encode_request_v1(RequestId, r))
  /\ UNCHANGED <<phase, seen, grant, reply, say, out, open, stream, got, exit>>

Odd == {<<"null">>, <<"n", 0>>, <<"n", ArrayItems + 1>>, <<"s", 0>>, <<"dup">>}
DamagedMember(o) ==
  {[f \in DOMAIN o \ {m} |-> o[f]] : m \in DOMAIN o}
    \cup {[o EXCEPT ![m] = x] : m \in DOMAIN o, x \in Odd}
    \cup {("unknown" :> <<"null">>) @@ o}
\* A JSON array of `width' arrays, and so on to the depth given.
RECURSIVE Arrays(_, _)
Arrays(depth, width) ==
  IF depth = 0 THEN <<"null">> ELSE <<"a", [i \in 1..width |-> Arrays(depth - 1, width)]>>
DamagedJson(o) ==
  {<<"o", x>> : x \in DamagedMember(o)}
    \cup {<<"o", [o EXCEPT !.request = <<"o", x>>]>> : x \in DamagedMember(o.request[2])}
DamagedLine(j) ==
  ({"record"} \X (DamagedJson(j[2])
                   \cup {<<"syntax">>, Arrays(MaxDepth + 1, 1), Arrays(1, ArrayItems + 1),
                         Arrays(1, MaxFrameBytes), Arrays(5, ArrayItems),
                         <<"o", [m \in MachineOperationV1 |-> <<"null">>]>>}))
    \cup {<<"invalid_utf8", j>>, <<"no_final_lf", j>>}
SendDamaged(op) ==
  /\ wire' \in DamagedLine(RequestJson(RequestId, request_to_wire(Standard(op))))
  /\ UNCHANGED <<phase, sent, seen, grant, reply, say, out, open, stream, got, exit>>

\* Mutant: an oversized result is an error like any other.
WriteLineOnly(line) ==
  IF line[1] = "ok" /\ open
  THEN out' = Append(out, line[2]) /\ phase' = say.next /\ exit' = say.exit /\ say' = Null
  ELSE phase' = "gone" /\ exit' = 1 /\ say' = Null /\ UNCHANGED out
\* write_frame: the record goes to standard output.  One that cannot be encoded, or a client
\* that has gone, fails the process; but a result that is too large is replaced by an error.
WriteLine(line) ==
  IF line = <<"failed", "TooLarge">> /\ say.frame[1] = "Result"
  THEN /\ say' = [frame |-> ErrorFrame(seen[1], 1,
                              simple_error("ResourceLimit", "FrameResourceLimit")),
                  next |-> "gone", exit |-> 2]
       /\ UNCHANGED <<out, phase, exit>>
  ELSE IF line[1] = "ok" /\ open
  THEN out' = Append(out, line[2]) /\ phase' = say.next /\ exit' = say.exit /\ say' = Null
  ELSE phase' = "gone" /\ exit' = 1 /\ say' = Null /\ UNCHANGED out
Write ==
  /\ say # Null
  /\ WriteLine(encode_server_frame_v1(say.frame))
  /\ UNCHANGED <<sent, wire, seen, grant, reply, open, stream, got>>
Says(frame, next, status) ==
  say' = [frame |-> frame, next |-> next, exit |-> status] /\ UNCHANGED <<phase, out, exit>>

\* The version the record names, where it names one.
FoundVersion(j) == j[2].schema_version[2]
ReadLine(d) ==
  \/ /\ d[1] = "ok"
     /\ seen' = <<d[2], d[3]>>
     /\ Says(Started(d[2], operation(d[3])), "accepted", Null)
  \/ /\ d[1] = "refused"
     /\ \E error \in d[2] :
          Says(request_error_frame_v1(error,
                 IF error = "UnsupportedVersion" THEN FoundVersion(wire[2]) ELSE 1), "gone", 2)
     /\ UNCHANGED seen
Read ==
  /\ phase = "reading" /\ wire # Null /\ say = Null
  /\ ReadLine(decode_request_v1(wire))
  /\ UNCHANGED <<sent, wire, grant, reply, open, stream, got>>

\* engine_config: the ambient environment may not provide what the engine needs.
Configure ==
  /\ phase = "accepted" /\ say = Null
  /\ grant' = [access |-> store_access(machine_contract(seen[2][1]).effect),
               target |-> requires_target(seen[2])]
  /\ phase' = "configured"
  /\ UNCHANGED <<sent, wire, seen, reply, say, out, open, stream, got, exit>>
ConfigureFails ==
  /\ phase = "accepted" /\ say = Null
  /\ reply' = <<"err", adapter_error>>
  /\ Says(ErrorFrame(seen[1], 1, adapter_error), "gone", 2)
  /\ UNCHANGED <<sent, wire, seen, grant, open, stream, got>>

\* execute: a dispatch the contract does not name is a failed assertion.
Execute ==
  /\ phase = "configured"
  /\ LET op == seen[2][1] IN
     IF executed_engine_operation(op) # machine_contract(op).operation
     THEN phase' = "gone" /\ exit' = 101 /\ UNCHANGED reply
     ELSE /\ phase' = "executed"
          /\ IF EngineWrites(executed_engine_operation(op)) /\ grant.access = "ReadOnly"
             THEN reply' = <<"err", ReadOnlyRefusal(op)>>
             ELSE \/ \E v \in Answers(seen[2]) : reply' = <<"ok", v>>
                  \/ \E e \in Refusals(seen[2]) : reply' = <<"err", e>>
          /\ UNCHANGED exit
  /\ UNCHANGED <<sent, wire, seen, grant, say, out, open, stream, got>>
\* Mutant: an error counted as the third record of the stream.
AnswerThird ==
  /\ phase = "executed" /\ say = Null
  /\ \/ reply[1] = "ok" /\ Says(ResultFrame(seen[1], 1, reply[2]), "gone", 0)
     \/ reply[1] = "err" /\ Says(ErrorFrame(seen[1], 2, reply[2]), "gone", 2)
  /\ UNCHANGED <<sent, wire, seen, grant, reply, open, stream, got>>
Answer ==
  /\ phase = "executed" /\ say = Null
  /\ \/ reply[1] = "ok" /\ Says(ResultFrame(seen[1], 1, reply[2]), "gone", 0)
     \/ reply[1] = "err" /\ Says(ErrorFrame(seen[1], 1, reply[2]), "gone", 2)
  /\ UNCHANGED <<sent, wire, seen, grant, reply, open, stream, got>>

\* The client reads one line.
ReceiveFrame(d) ==
  /\ got' = IF d[1] = "ok" THEN d[2] ELSE Bad
  /\ stream' = IF d[1] # "ok" THEN "Broken"
               ELSE IF sent = Null THEN stream
               ELSE observe(stream, RequestId, operation(sent), d[2])
Receive ==
  /\ open /\ out # <<>>
  /\ ReceiveFrame(decode_server_frame_v1(Head(out)))
  /\ out' = Tail(out)
  /\ UNCHANGED <<phase, sent, wire, seen, grant, reply, say, open, exit>>
HangUp ==
  /\ wire # Null /\ open /\ open' = FALSE /\ out' = <<>>
  /\ UNCHANGED <<phase, sent, wire, seen, grant, reply, say, stream, got, exit>>

ClientSends ==
  /\ wire = Null
  /\ \E op \in MachineOperationV1 :
       (\E r \in Samples(MachineRequestV1[op]) : Send(<<op, r>>)) \/ SendDamaged(op)
Adapter == Read \/ Configure \/ ConfigureFails \/ Execute \/ Answer \/ Write
Next == ClientSends \/ Adapter \/ Receive \/ HangUp

\* Weak fairness of the adapter and of a client that stays, written out: a step of the
\* adapter is enabled unless it waits and always changes phase or say; a step of the client
\* is enabled while there is a line to read and always changes got.
AdapterWaits == phase = "gone" \/ wire = Null
ClientWaits == ~open \/ out = <<>>
Fairness == /\ []<>AdapterWaits \/ []<><<TRUE>>_<<phase, say>>
            /\ []<>ClientWaits \/ []<><<TRUE>>_got
Spec == Init /\ [][Next]_vars /\ Fairness

-----------------------------------------------------------------------------
\* What an honest client asked is what the adapter executes, and an honest client is never
\* turned away (decode_request_v1 after encode_request_v1, over every request type).  What
\* a damaged line is taken for is a request a client could have written.  The contract of
\* the operation covers the dispatch and grants the authority the engine asks for
\* (contracts.rs, execute).
RequestHonoured ==
  /\ sent # Null /\ phase # "reading" => seen = <<RequestId, sent>>
  /\ phase = "accepted" /\ say = Null => encode_request_v1(seen[1], seen[2])[1] = "ok"
  /\ reply # Null /\ reply[1] = "err" => reply[2].code # "ReadOnlyStore"
  /\ exit # 101

\* The terminal record the adapter owes a client.
Owed ==
  IF reply[1] = "ok" /\ exit = 0 THEN <<"Result", seen[1], 1, reply[2]>>
  ELSE IF reply[1] = "ok"
  THEN <<"Error", seen[1], 1, simple_error("ResourceLimit", "FrameResourceLimit")>>
  ELSE <<"Error", seen[1], 1, reply[2]>>
\* A client can decode every record, its validator never refuses one, and the terminal
\* record says what the engine answered, whatever the engine answered; a line that is
\* refused is answered by one error without correlation (decode_server_frame_v1 after
\* encode_server_frame_v1, ResponseStreamValidatorV1::observe).
ReplyUnderstood ==
  /\ got # Bad /\ stream # "Broken"
  /\ stream = "Terminal" => got = Owed
  /\ got # Null /\ seen = Null => got[1] = "Error" /\ got[2] = Null /\ got[3] = 0

\* A result that fits into a frame and holds a longer list, or more values, than a record may:
\* the encoder's own decoder refuses it, and write_decoder_error does not call that TooLarge.
Unwritable ==
  reply # Null /\ reply[1] = "ok"
  /\ preflight(<<"record", FrameJson(ResultFrame(seen[1], 1, reply[2]))>>)
       \cap {"TooManyArrayItems", "TooManyValues"} # {}

\* A client that stays gets its terminal record, also when the result is too large for a
\* frame, unless a list of the result is longer than a record may carry: the engine's lists
\* may be (run_machine, encode_server_frame_v1).
Answered == sent # Null ~> (~open \/ stream = "Terminal" \/ Unwritable)

\* What protocol.md, "Accepted response stream", says without exception: after accepting a
\* request the process emits one started event and one result or correlated error.
AlwaysAnswered == sent # Null ~> (~open \/ stream = "Terminal")
=============================================================================
