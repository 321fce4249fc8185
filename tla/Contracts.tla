----------------------------- MODULE Contracts -----------------------------
(***************************************************************************)
(* The event contracts both sides of Kafka keep to: what the producers put *)
(* into a record, what the Kafka consumer checks before a handler sees it  *)
(* (message-codec.ts, kafka-consumer.ts), and what the handlers check      *)
(* before they believe it (event-validation.ts, command-routing.ts).       *)
(*                                                                         *)
(* A record is [id, schemaName, schemaVersion, aggregateType, instance,    *)
(* op, at, wire, data].  `wire' is the condition of its bytes and headers, *)
(* "good" for whatever Debezium publishes from an outbox row.  `data' maps *)
(* the payload's fields to "ok" or to "bad", a value outside the range the *)
(* contract allows.                                                        *)
(***************************************************************************)
EXTENDS Naturals, FiniteSets

-----------------------------------------------------------------------------
(* message-codec.ts and KafkaConsumerRunner.record.  Each check returns    *)
(* the MessageDecodeError's code, or "none".                               *)

Wires == {"good", "empty", "not_json", "not_envelope", "bad_generation",
          "no_outbox_id", "wrong_key"}

isEventEnvelope(r) == r.wire # "not_envelope"

decodeEventEnvelope(r) ==
  CASE r.wire = "empty"    -> "EMPTY_VALUE"
    [] r.wire = "not_json" -> "INVALID_JSON"
    [] OTHER -> IF isEventEnvelope(r) THEN "none" ELSE "INVALID_ENVELOPE"

decodeReplayGeneration(r) ==
  IF r.wire = "bad_generation" THEN "INVALID_REPLAY_GENERATION" ELSE "none"

decodeOutboxId(r) ==
  IF r.wire = "no_outbox_id" THEN "INVALID_TRANSPORT_METADATA" ELSE "none"

validateEventTransport(r) ==
  IF r.wire \in {"wrong_key", "no_outbox_id"} THEN "INVALID_TRANSPORT_METADATA"
  ELSE "none"

(* The record keeps its envelope even when its headers are unusable.       *)
HasEnvelope(r) == decodeEventEnvelope(r) = "none"

(* The first error wins; the transport is only compared when all parsed.   *)
decodeError(r) ==
  LET checks == <<decodeEventEnvelope(r), decodeReplayGeneration(r),
                  decodeOutboxId(r), validateEventTransport(r)>>
      failed == {k \in 1..4 : checks[k] # "none"}
  IN IF failed = {} THEN "none"
     ELSE checks[CHOOSE k \in failed : \A j \in failed : k <= j]

-----------------------------------------------------------------------------
(* event-validation.ts.                                                    *)

onlyKeys(data, allowed) == DOMAIN data \subseteq allowed

(* Every required field is there, and every field that is there is one the *)
(* contract knows and holds a value in its range.                          *)
Satisfies(data, required, optional) ==
  /\ onlyKeys(data, required \cup optional)
  /\ required \subseteq DOMAIN data
  /\ \A f \in DOMAIN data : data[f] = "ok"

Header(r, schemaName) ==
  r.schemaName = schemaName /\ r.schemaVersion = 1

InstanceHeader(r, schemaName) ==
  Header(r, schemaName) /\ r.aggregateType = "instance"

snapshotRouting == {"providerProfileId", "createOperationId"}

isInstanceCreateRequestedV1(r) ==
  /\ InstanceHeader(r, "instance.create.requested")
  /\ Satisfies(r.data, {"imageId", "flavorId", "networkId", "providerProfileId",
                        "hostname", "resources", "ipv4"}, {"sshPublicKeys"})

(* mutant: the routing identity is not among the fields the guard knows. *)
PowerWithoutRouting(r) ==
  /\ InstanceHeader(r, "instance.power.requested")
  /\ Satisfies(r.data, {"action"}, {})

isInstancePowerRequestedV1(r) ==
  /\ InstanceHeader(r, "instance.power.requested")
  /\ Satisfies(r.data, {"action"} \cup snapshotRouting, {})

isInstanceResizeRequestedV1(r) ==
  /\ InstanceHeader(r, "instance.resize.requested")
  /\ Satisfies(r.data, {"flavorId", "targetResources"} \cup snapshotRouting, {})

isSnapshotCreateRequestedV1(r) ==
  /\ Header(r, "snapshot.create.requested")
  /\ Satisfies(r.data, {"snapshotId", "name"} \cup snapshotRouting,
               {"description"})

isSnapshotActionRequestedV1(r, schemaName) ==
  /\ Header(r, schemaName)
  /\ Satisfies(r.data, {"snapshotId", "providerSnapshotReference"}
                         \cup snapshotRouting, {})

isInstanceRetentionRequestedV1(r) ==
  /\ InstanceHeader(r, "instance.retention.requested")
  /\ Satisfies(r.data, {"retentionDeadline", "leaseReleaseMode"}
                         \cup snapshotRouting, {})

isInstancePurgeRequestedV1(r) ==
  /\ InstanceHeader(r, "instance.purge.requested")
  /\ Satisfies(r.data, {"purgeAuthorizationId", "retentionDeadline",
                        "reasonReference"} \cup snapshotRouting, {})

isProvisioningReplayRequestedV1(r) ==
  /\ InstanceHeader(r, "provisioning.replay.requested")
  /\ Satisfies(r.data, {"replayRequestId", "originalEventId", "requestedAt"}, {})

isProvisioningReplayResolvedV1(r) ==
  /\ InstanceHeader(r, "provisioning.replay.resolved")
  /\ Satisfies(r.data, {"replayRequestId", "originalEventId", "outcome",
                        "replayGeneration", "resolvedAt"}, {})

isWorkflowProgressedV1(r) ==
  /\ InstanceHeader(r, "workflow.progressed")
  /\ Satisfies(r.data, {"stage", "attempt", "operationState"},
               {"providerTaskReference", "nextActionAt"})

isInstanceMutationCompletedV1(r) ==
  /\ InstanceHeader(r, "instance.mutation.completed")
  /\ Satisfies(r.data, {"action", "lifecycleState", "evidenceId"},
               {"providerResourceId", "observed"})

isInstanceMutationFailedV1(r) ==
  /\ InstanceHeader(r, "instance.mutation.failed")
  /\ Satisfies(r.data, {"action", "failure", "compensationState"}, {})

isProvisioningDeadLetteredV1(r) ==
  /\ InstanceHeader(r, "provisioning.dead_lettered")
  /\ Satisfies(r.data, {"originalEventId", "originalSchemaName",
                        "originalSchemaVersion", "failure", "attempts",
                        "replayAllowed", "deadLetteredAt"}, {})
=============================================================================
