------------------------------- MODULE Intake -------------------------------
(***************************************************************************)
(* The records between the outboxes and the two databases: Debezium        *)
(* publishes outbox rows, the consumer groups of the orchestrator          *)
(* (command-consumer.ts) and of the Control API (projection-consumer.ts)   *)
(* hand them to their stores, and every consumer runs kafka-consumer.ts:   *)
(* one record at a time, a bounded number of attempts, the offset          *)
(* committed only once the record has been handled, quarantined or         *)
(* dead-lettered.                                                          *)
(*                                                                         *)
(* A lane is a topic and a partition.  Members crash, a group rebalances   *)
(* while a member is still handling a record, Debezium publishes a row     *)
(* twice, and the database is away for an attempt.  What a workflow does   *)
(* between its admission and its last event is WorkflowStore's and         *)
(* Provisioning's; here it is two steps, its progress and its end.         *)
(***************************************************************************)
EXTENDS Contracts, Sequences, TLC

CONSTANTS
  Commands,        \* accepted mutations: [op, instance, snapshot, schema, size]
  Instances,       \* their instances
  Stored,          \* the rows of each table when the system starts
  Drifting,        \* instances the reconciler finds drifted
  Members,         \* the members of each consumer group
  Partitions,      \* the partitions of each topic
  PartitionOf,     \* the partition Debezium gives an instance's key
  Junk,            \* wires of records that no outbox produced
  MaximumAttempts, \* KAFKA_HANDLER_MAX_ATTEMPTS
  MaxAccepted,     \* bound on the mutations accepted
  MaxClock,        \* bound on time
  MaxFaults        \* bound on duplicates, poison records, rebalances, crashes,
                   \* database failures and findings of drift together

SUPPORTED_COMMAND_SCHEMAS ==
  {"instance.create.requested", "instance.power.requested",
   "instance.resize.requested", "snapshot.create.requested",
   "snapshot.rollback.requested", "snapshot.delete.requested",
   "instance.retention.requested", "instance.purge.requested"}

Topics == {"commands", "events", "dlq", "drift"}
Lanes == Topics \X Partitions
Tables == {"instances", "operations", "snapshots", "dead_letters", "audit",
           "images", "flavors", "networks"}

ASSUME IntakeAssumption ==
  /\ \A c \in Commands :
       /\ c.instance \in Instances
       /\ c.schema \in SUPPORTED_COMMAND_SCHEMAS
       /\ c.size \in {"ok", "bad"}
  /\ \A c, d \in Commands : c.op = d.op => c = d
  /\ Drifting \subseteq Instances
  /\ Tables = DOMAIN Stored
  /\ \A t \in Tables : \A id \in DOMAIN Stored[t] : {id, Stored[t][id]} \subseteq Nat
  /\ PartitionOf \in [Instances -> Partitions]
  /\ Junk \subseteq Wires \ {"good"}
  /\ MaximumAttempts \in 1..10
  /\ {MaxAccepted, MaxClock, MaxFaults} \subseteq Nat

VARIABLES
  log,        \* the records of each lane
  committed,  \* how many of them the lane's group has committed
  owner,      \* the member each lane is assigned to
  epoch,      \* the generation of that assignment
  worker,     \* what each member is doing on each lane
  inbox,      \* receipts: the events each topic's consumer has taken in
  applied,    \* the events it applied, in order
  fate,       \* what became of each record of each lane
  rows,       \* updated_at of the rows of each table the API lists, by id
  clock,      \* time, as the producers stamp it on events
  faults      \* faults so far

logVars == <<log, fate>>
groupVars == <<committed, owner, epoch, worker>>
storeVars == <<inbox, applied, rows>>
intakeVars == <<logVars, groupVars, storeVars, clock, faults>>

Fault == faults < MaxFaults /\ faults' = faults + 1

Idle == [phase |-> "idle", off |-> 0, attempt |-> 0, epoch |-> 0]

-----------------------------------------------------------------------------
(* What the producers write.                                               *)

Ok(fields) == [f \in fields |-> "ok"]
Sized(fields, sizing, size) ==
  [f \in fields |-> IF f = sizing THEN size ELSE "ok"]

(* The payloads control-plane-store.ts builds.  Only the sizing, copied    *)
(* from a flavor, may lie outside the contract's range.                    *)
Routing == {"providerProfileId", "createOperationId"}

CreateData(size) ==
  Sized({"imageId", "flavorId", "networkId", "providerProfileId", "hostname",
         "resources", "ipv4", "sshPublicKeys"}, "resources", size)
PowerData == Ok({"action"} \cup Routing)
ResizeData(size) ==
  Sized({"flavorId", "targetResources"} \cup Routing, "targetResources", size)
SnapshotCreateData == Ok({"snapshotId", "name", "description"} \cup Routing)
SnapshotActionData == Ok({"snapshotId", "providerSnapshotReference"} \cup Routing)
RetentionData == Ok({"retentionDeadline", "leaseReleaseMode"} \cup Routing)
PurgeData ==
  Ok({"purgeAuthorizationId", "retentionDeadline", "reasonReference"} \cup Routing)

SnapshotActions == {"snapshot.rollback.requested", "snapshot.delete.requested"}

CommandData(c) ==
  CASE c.schema = "instance.create.requested"    -> CreateData(c.size)
    [] c.schema = "instance.power.requested"     -> PowerData
    [] c.schema = "instance.resize.requested"    -> ResizeData(c.size)
    [] c.schema = "snapshot.create.requested"    -> SnapshotCreateData
    [] c.schema \in SnapshotActions              -> SnapshotActionData
    [] c.schema = "instance.retention.requested" -> RetentionData
    [] c.schema = "instance.purge.requested"     -> PurgeData

Envelope(id, schema, c, at, data) ==
  [id |-> id, schemaName |-> schema, schemaVersion |-> 1,
   aggregateType |-> "instance", instance |-> c.instance, op |-> c.op,
   at |-> at, wire |-> "good", data |-> data]

CommandRecord(c, at) ==
  Envelope(<<"command", c.op>>, c.schema, c, at, CommandData(c))

(* A workflow's checkpoint, and its last event: completed or failed.       *)
ProgressRecord(c, at) ==
  Envelope(<<"progress", c.op>>, "workflow.progressed", c, at,
           Ok({"stage", "attempt", "operationState", "providerTaskReference"}))

(* What a workflow measured before it reported success.  A create reports  *)
(* the provider's sizing as it came, in the contract's range or not; a     *)
(* resize only a sizing equal to its command's, which was validated; the   *)
(* others report none, and a snapshot's completion no observation at all.  *)
Measured(c) ==
  IF c.schema = "instance.create.requested" THEN {"ok", "bad"} ELSE {"ok"}

CompletedData(c, measured) ==
  Sized({"action", "lifecycleState", "evidenceId", "providerResourceId"}
          \cup IF c.snapshot = 0 THEN {"observed"} ELSE {}, "observed", measured)
FailedData == Ok({"action", "failure", "compensationState"})

EndRecord(c, schema, measured, at) ==
  Envelope(<<"end", c.op>>, schema, c, at,
    IF schema = "instance.mutation.completed" THEN CompletedData(c, measured)
    ELSE FailedData)

(* writeDeadLetter copies the identity of the command it is about.         *)
DeadLetterRecord(r, at) ==
  [r EXCEPT !.id = <<"dead_letter", r.op>>,
            !.schemaName = "provisioning.dead_lettered",
            !.schemaVersion = 1, !.aggregateType = "instance", !.at = at,
            !.data = Ok({"originalEventId", "originalSchemaName",
                         "originalSchemaVersion", "failure", "attempts",
                         "replayAllowed", "deadLetteredAt"})]

(* recordOutcome's event.                                                  *)
DriftRecord(i, at) ==
  Envelope(<<"drift", i>>, "drift.detected", [instance |-> i, op |-> i], at,
           Ok({"classification"}))

-----------------------------------------------------------------------------
(* Debezium publishes the rows of an outbox, keyed by the instance, and    *)
(* publishes one again when it restarts before it stored its position.     *)

(* mutant: terminal events are keyed by their operation. *)
LaneOfOperation(topic, r) ==
  <<topic, IF r.id[1] = "end" THEN CHOOSE p \in Partitions : p # PartitionOf[r.instance]
           ELSE PartitionOf[r.instance]>>

LaneOf(topic, r) == <<topic, PartitionOf[r.instance]>>

Extend(l, r) ==
  /\ log' = [log EXCEPT ![l] = Append(@, r)]
  /\ fate' = [fate EXCEPT ![l] = Append(@, "none")]

Publish(topic, r) == Extend(LaneOf(topic, r), r)

InLog(id) == \E l \in Lanes : \E k \in DOMAIN log[l] : log[l][k].id = id

PublishAgain(l, k) ==
  /\ Fault
  /\ k \in DOMAIN log[l] /\ log[l][k].wire = "good"
  /\ Extend(l, log[l][k])
  /\ UNCHANGED <<groupVars, storeVars, clock>>

(* A record nobody's outbox wrote: a truncated value, a foreign producer,  *)
(* a copy of a real event under the wrong key.  Its key puts it into any   *)
(* partition of the topic, where it may be read before its original.       *)
PublishJunk(l, wire, r) ==
  /\ Fault
  /\ Extend(l, [r EXCEPT !.wire = wire])
  /\ UNCHANGED <<groupVars, storeVars, clock>>

Passes == clock' \in {clock, clock + 1} /\ clock' <= MaxClock

Answered(c) == \E k \in DOMAIN applied["events"] :
                 applied["events"][k] = <<"end", c.op>>

Put(table, id, at) ==
  [x \in DOMAIN table \cup {id} |-> IF x = id THEN at ELSE table[x]]
Drop(table, id) == [x \in DOMAIN table \ {id} |-> table[x]]

(* The Control API accepts a mutation of an instance that is not busy: the *)
(* command goes to the outbox, the operation and an audit entry are        *)
(* inserted, the documents of the instance and its snapshot are rewritten. *)
writeControlAudit(table, c) == Put(table, c.op, clock')

Accept(c) ==
  /\ ~InLog(<<"command", c.op>>)
  /\ Cardinality({d \in Commands : InLog(<<"command", d.op>>)}) < MaxAccepted
  /\ c.instance \in DOMAIN rows["instances"] <=> c.schema # "instance.create.requested"
  /\ \A d \in Commands :
       (d.instance = c.instance /\ InLog(<<"command", d.op>>)) => Answered(d)
  /\ Passes
  /\ Publish("commands", CommandRecord(c, clock'))
  /\ rows' = [rows EXCEPT
       !["instances"] = Put(@, c.instance, clock'),
       !["operations"] = Put(@, c.op, clock'),
       !["audit"] = writeControlAudit(@, c),
       !["snapshots"] = IF c.snapshot = 0 THEN @ ELSE Put(@, c.snapshot, clock')]
  /\ UNCHANGED <<groupVars, inbox, applied, faults>>

Admitted(c) == \E k \in DOMAIN applied["commands"] :
                 applied["commands"][k] = <<"command", c.op>>

workflowActionForSchema ==
  ("instance.create.requested" :> "create_instance") @@
  ("instance.power.requested" :> "power_instance") @@
  ("instance.resize.requested" :> "resize_instance") @@
  ("snapshot.create.requested" :> "create_snapshot") @@
  ("snapshot.rollback.requested" :> "rollback_snapshot") @@
  ("snapshot.delete.requested" :> "delete_snapshot") @@
  ("instance.retention.requested" :> "retain_instance") @@
  ("instance.purge.requested" :> "purge_instance")

(* mutant: every stored command is read by the create contract. *)
CreateContractForAll(action, r) == isInstanceCreateRequestedV1(r)

(* The contract a stored command is read by: its workflow's action, not    *)
(* its own schemaName, decides.                                            *)
COMMAND_VALIDATORS(action, r) ==
  CASE action = "create_instance"   -> isInstanceCreateRequestedV1(r)
    [] action = "power_instance"    -> isInstancePowerRequestedV1(r)
    [] action = "resize_instance"   -> isInstanceResizeRequestedV1(r)
    [] action = "create_snapshot"   -> isSnapshotCreateRequestedV1(r)
    [] action = "rollback_snapshot" ->
         isSnapshotActionRequestedV1(r, "snapshot.rollback.requested")
    [] action = "delete_snapshot"   ->
         isSnapshotActionRequestedV1(r, "snapshot.delete.requested")
    [] action = "retain_instance"   -> isInstanceRetentionRequestedV1(r)
    [] action = "purge_instance"    -> isInstancePurgeRequestedV1(r)
    [] OTHER                        -> FALSE

(* claimNext throws, and rolls its claim back, on a command this           *)
(* deployment cannot read.                                                 *)
lifecycleCommand(c) ==
  COMMAND_VALIDATORS(workflowActionForSchema[c.schema], CommandRecord(c, clock))

Progress(c) ==
  /\ Admitted(c) /\ ~InLog(<<"progress", c.op>>)
  /\ lifecycleCommand(c)
  /\ Passes
  /\ Publish("events", ProgressRecord(c, clock'))
  /\ UNCHANGED <<groupVars, storeVars, faults>>

End(c) ==
  /\ InLog(<<"progress", c.op>>) /\ ~InLog(<<"end", c.op>>)
  /\ Passes
  /\ \E schema \in {"instance.mutation.completed", "instance.mutation.failed"},
        measured \in Measured(c) :
       Publish("events", EndRecord(c, schema, measured, clock'))
  /\ UNCHANGED <<groupVars, storeVars, faults>>

DetectDrift(i) ==
  /\ Fault
  /\ i \in DOMAIN rows["instances"] /\ ~InLog(<<"drift", i>>)
  /\ Passes
  /\ Publish("drift", DriftRecord(i, clock'))
  /\ UNCHANGED <<groupVars, storeVars>>

-----------------------------------------------------------------------------
(* What a handler makes of a record: the PermanentMessageError it raises.  *)

Rejects(r, valid) ==
  IF r.schemaVersion # 1 THEN "COMMAND_SCHEMA_UNSUPPORTED"
  ELSE IF valid THEN "none" ELSE "COMMAND_PAYLOAD_INVALID"

createCommand(r) == Rejects(r, isInstanceCreateRequestedV1(r))
powerCommand(r) == Rejects(r, isInstancePowerRequestedV1(r))
resizeCommand(r) == Rejects(r, isInstanceResizeRequestedV1(r))
snapshotCommand(r) ==
  Rejects(r, IF r.schemaName = "snapshot.create.requested"
             THEN isSnapshotCreateRequestedV1(r)
             ELSE isSnapshotActionRequestedV1(r, r.schemaName))
retentionCommand(r) == Rejects(r, isInstanceRetentionRequestedV1(r))
purgeCommand(r) == Rejects(r, isInstancePurgeRequestedV1(r))

narrowCommand(r) ==
  CASE r.schemaName = "instance.create.requested"    -> createCommand(r)
    [] r.schemaName = "instance.power.requested"     -> powerCommand(r)
    [] r.schemaName = "instance.resize.requested"    -> resizeCommand(r)
    [] r.schemaName = "instance.retention.requested" -> retentionCommand(r)
    [] r.schemaName = "instance.purge.requested"     -> purgeCommand(r)
    [] r.schemaName \in {"snapshot.create.requested",
                         "snapshot.rollback.requested",
                         "snapshot.delete.requested"} -> snapshotCommand(r)
    [] OTHER -> "COMMAND_SCHEMA_UNSUPPORTED"

replayRequest(r) ==
  IF isProvisioningReplayRequestedV1(r) THEN "none"
  ELSE "REPLAY_SCHEMA_UNSUPPORTED"

commandError(r) ==
  CASE r.schemaName \in SUPPORTED_COMMAND_SCHEMAS -> narrowCommand(r)
    [] r.schemaName = "provisioning.replay.requested" -> replayRequest(r)
    [] OTHER -> "COMMAND_SCHEMA_UNSUPPORTED"

workflowEvent(r) ==
  IF \/ isWorkflowProgressedV1(r)
     \/ isInstanceMutationCompletedV1(r)
     \/ isInstanceMutationFailedV1(r)
     \/ isProvisioningReplayResolvedV1(r)
  THEN "none" ELSE "PROJECTION_SCHEMA_UNSUPPORTED"

deadLetterEvent(r) ==
  IF isProvisioningDeadLetteredV1(r) THEN "none" ELSE "DLQ_SCHEMA_UNSUPPORTED"

(* What handleWithRetry catches, when the database answers.                *)
Raised(topic, r) ==
  IF decodeError(r) # "none" THEN decodeError(r)
  ELSE CASE topic = "commands" -> commandError(r)
         [] topic = "events"   -> workflowEvent(r)
         [] topic = "dlq"      -> deadLetterEvent(r)
         [] topic = "drift"    -> "none"

-----------------------------------------------------------------------------
(* The transactions of the two stores, as the handlers call them.          *)

Settle(l, m, outcome) ==
  LET k == worker[l][m].off IN
  fate' = [fate EXCEPT ![l][k] = IF @ = "none" THEN outcome ELSE @]

(* mutant: a redelivered event is applied again. *)
ForgetsReceipts(topic, r) == TRUE

InsertReceipt(topic, r) == r.id \notin inbox[topic]

(* Only the completed event of a snapshot operation settles its snapshot:  *)
(* a deleted one's row goes, another's becomes available.                  *)
settleSnapshot(table, r) ==
  LET c == CHOOSE d \in Commands : d.op = r.op IN
  IF r.schemaName # "instance.mutation.completed" \/ c.snapshot = 0 THEN table
  ELSE IF c.schema = "snapshot.delete.requested" THEN Drop(table, c.snapshot)
  ELSE Put(table, c.snapshot, r.at)

(* What an applied record does to the tables the API lists: their          *)
(* updated_at is the event's time, not the time it is applied.             *)
Project(topic, r) ==
  LET documents == [rows EXCEPT !["instances"] = Put(@, r.instance, r.at),
                                !["operations"] = Put(@, r.op, r.at)]
  IN CASE topic = "commands" -> rows
       [] topic = "drift" -> [rows EXCEPT !["instances"] = Put(@, r.instance, r.at)]
       [] topic = "dlq" -> [rows EXCEPT !["dead_letters"] = Put(@, r.op, r.at)]
       [] topic = "events" ->
            [documents EXCEPT !["snapshots"] = settleSnapshot(@, r)]

(* admitCommand, admitReplayRequest, applyWorkflowEvent, applyDriftEvent   *)
(* and applyDeadLetterEvent: a receipt, and on a first delivery the        *)
(* record's effect.                                                        *)
Apply(l, m, r) ==
  LET topic == l[1] IN
  IF InsertReceipt(topic, r)
  THEN /\ inbox' = [inbox EXCEPT ![topic] = @ \cup {r.id}]
       /\ applied' = [applied EXCEPT ![topic] = Append(@, r.id)]
       /\ rows' = Project(topic, r)
       /\ Settle(l, m, "applied")
  ELSE Settle(l, m, "duplicate") /\ UNCHANGED storeVars

(* The orchestrator's quarantineRecord: by broker coordinates, no receipt. *)
quarantineCommand(l, m) ==
  Settle(l, m, "quarantined") /\ UNCHANGED <<log, storeVars>>

(* The projection's quarantineRecord also takes the receipt of the event   *)
(* whose envelope it could read, a finding of drift's in the name of the   *)
(* consumer of workflow events.                                            *)
quarantineRecord(l, m, r) ==
  /\ inbox' = IF HasEnvelope(r)
              THEN [inbox EXCEPT ![IF l[1] = "dlq" THEN "dlq" ELSE "events"] =
                     @ \cup {r.id}]
              ELSE inbox
  /\ Settle(l, m, "quarantined")
  /\ UNCHANGED <<log, applied, rows>>

(* mutant: the dead letter is recorded and not announced. *)
DeadLetterUnannounced(l, m, r) ==
  /\ inbox' = [inbox EXCEPT ![l[1]] = @ \cup {r.id}]
  /\ Settle(l, m, "dead_lettered")
  /\ UNCHANGED <<log, applied, rows>>

(* deadLetterCommand: evidence and its event, once per command.            *)
deadLetterCommand(l, m, r) ==
  IF InsertReceipt(l[1], r)
  THEN LET d == LaneOf("dlq", r) IN
       /\ inbox' = [inbox EXCEPT ![l[1]] = @ \cup {r.id}]
       /\ log' = [log EXCEPT ![d] = Append(@, DeadLetterRecord(r, clock))]
       /\ fate' = [fate EXCEPT ![d] = Append(@, "none"),
                               ![l][worker[l][m].off] = "dead_lettered"]
       /\ UNCHANGED <<applied, rows>>
  ELSE Settle(l, m, "duplicate") /\ UNCHANGED <<log, storeVars>>

(* The exhausted callbacks of the two consumers.                           *)
Exhausted(l, m, r) ==
  IF l[1] # "commands" THEN quarantineRecord(l, m, r)
  ELSE IF decodeError(r) # "none" THEN quarantineCommand(l, m)
  ELSE deadLetterCommand(l, m, r)

-----------------------------------------------------------------------------
(* KafkaConsumerRunner.                                                    *)

(* One record of the topic at a time, from the committed offset on.        *)
Fetch(l, m) ==
  /\ owner[l] = m
  /\ committed[l] < Len(log[l])
  /\ \A k \in Lanes : k[1] = l[1] => worker[k][m].phase = "idle"
  /\ worker' = [worker EXCEPT ![l][m] =
       [phase |-> "handling", off |-> committed[l] + 1, attempt |-> 1,
        epoch |-> epoch[l]]]
  /\ UNCHANGED <<logVars, committed, owner, epoch, storeVars, clock, faults>>

Current(l, m) == log[l][worker[l][m].off]
Done(l, m) == worker' = [worker EXCEPT ![l][m].phase = "done"]
Retry(l, m) == worker' = [worker EXCEPT ![l][m].attempt = @ + 1]

Handle(l, m) ==
  /\ worker[l][m].phase \in {"handling", "failing"}
  /\ Raised(l[1], Current(l, m)) = "none"
  /\ Apply(l, m, Current(l, m))
  /\ Done(l, m)
  /\ UNCHANGED <<log, committed, owner, epoch, clock, faults>>

GiveUp(l, m) ==
  /\ worker[l][m].phase = "handling"
  /\ Raised(l[1], Current(l, m)) # "none"
  /\ \/ /\ worker[l][m].attempt < MaximumAttempts
        /\ Retry(l, m)
        /\ UNCHANGED <<logVars, storeVars>>
     \/ /\ worker[l][m].attempt = MaximumAttempts
        /\ Exhausted(l, m, Current(l, m))
        /\ Done(l, m)
  /\ UNCHANGED <<committed, owner, epoch, clock, faults>>

(* mutant: a failure that outlasts the retries is settled like a poison    *)
(* record, by committing past it.                                          *)
CommitsPastOutage(l, m) == Done(l, m)

(* What is not a decode or a permanent error is thrown: the offset stays   *)
(* where it is, and Kafka delivers the record again.                       *)
Rethrow(l, m) == worker' = [worker EXCEPT ![l][m] = Idle]

(* The store's transaction fails: the database is away, for an attempt or  *)
(* from then on for all of them.  A record that cannot be read reaches the *)
(* database only once its attempts are used up.                            *)
Outage(l, m) ==
  /\ worker[l][m].phase \in {"handling", "failing"}
  /\ IF worker[l][m].phase = "failing" THEN faults' = faults ELSE Fault
  /\ \/ /\ worker[l][m].attempt < MaximumAttempts
        /\ Raised(l[1], Current(l, m)) = "none"
        /\ worker' = [worker EXCEPT ![l][m] =
             [@ EXCEPT !.phase = "failing", !.attempt = worker[l][m].attempt + 1]]
     \/ /\ worker[l][m].attempt = MaximumAttempts
        /\ Rethrow(l, m)
  /\ UNCHANGED <<logVars, committed, owner, epoch, storeVars, clock>>

(* The broker refuses the commit of a member that lost the partition.      *)
Commit(l, m) ==
  /\ worker[l][m].phase = "done"
  /\ committed' = IF worker[l][m].epoch = epoch[l]
                  THEN [committed EXCEPT ![l] = worker[l][m].off] ELSE committed
  /\ worker' = [worker EXCEPT ![l][m] = Idle]
  /\ UNCHANGED <<logVars, owner, epoch, storeVars, clock, faults>>

Crash(m) ==
  /\ Fault
  /\ \E l \in Lanes : worker[l][m].phase # "idle"
  /\ worker' = [l \in Lanes |-> [worker[l] EXCEPT ![m] = Idle]]
  /\ UNCHANGED <<logVars, committed, owner, epoch, storeVars, clock>>

(* A lane moves to another member, whatever its old one was doing.         *)
Rebalance(l, m) ==
  /\ Fault
  /\ owner[l] # m /\ log[l] # <<>>
  /\ owner' = [owner EXCEPT ![l] = m]
  /\ epoch' = [epoch EXCEPT ![l] = @ + 1]
  /\ UNCHANGED <<logVars, committed, worker, storeVars, clock>>

-----------------------------------------------------------------------------
IntakeInit ==
  /\ log = [l \in Lanes |-> <<>>]
  /\ committed = [l \in Lanes |-> 0]
  /\ owner = [l \in Lanes |-> CHOOSE m \in Members : TRUE]
  /\ epoch = [l \in Lanes |-> 0]
  /\ worker = [l \in Lanes |-> [m \in Members |-> Idle]]
  /\ inbox = [t \in Topics |-> {}]
  /\ applied = [t \in Topics |-> <<>>]
  /\ fate = [l \in Lanes |-> <<>>]
  /\ rows = Stored
  /\ clock = 1
  /\ faults = 0

Consume(l, m) == Fetch(l, m) \/ Handle(l, m) \/ GiveUp(l, m) \/ Commit(l, m)

IntakeNext ==
  \/ \E c \in Commands : Accept(c) \/ Progress(c) \/ End(c)
  \/ \E i \in Drifting : DetectDrift(i)
  \/ \E l \in Lanes : \E k \in DOMAIN log[l] :
       \/ PublishAgain(l, k)
       \/ \E wire \in Junk, p \in Partitions :
            PublishJunk(<<l[1], p>>, wire, log[l][k])
  \/ \E l \in Lanes, m \in Members :
       Consume(l, m) \/ Outage(l, m) \/ Rebalance(l, m)
  \/ \E m \in Members : Crash(m)

(* The orchestrator keeps working on what it admitted, and the members     *)
(* keep polling, handling and committing.  This is less than the code      *)
(* gives, where every group has a poll loop of its own, and enough: no     *)
(* group can be kept busy for ever.  Who crashes, when a group rebalances  *)
(* and when the database is away is not fair, only bounded.                *)
IntakeFairness ==
  /\ WF_intakeVars(\E c \in Commands : Progress(c) \/ End(c))
  /\ WF_intakeVars(\E l \in Lanes, m \in Members : Consume(l, m))

IntakeSpec == IntakeInit /\ [][IntakeNext]_intakeVars
FairIntakeSpec == IntakeSpec /\ IntakeFairness

-----------------------------------------------------------------------------
(* kafka-consumer.ts, "the offset advances only after the handler or       *)
(* exhaustion callback commits durable evidence": no crash, rebalance or   *)
(* outage makes a group step over a record nothing was made of.            *)
NothingSkipped ==
  \A l \in Lanes : \A k \in 1..committed[l] : fate[l][k] # "none"

(* A record of the event was set aside, its envelope read: the quarantine  *)
(* took the event's receipt, unless the event had it already.              *)
Quarantined(topic, id) ==
  \E l \in Lanes : l[1] = topic /\ \E k \in DOMAIN log[l] :
    log[l][k].id = id /\ HasEnvelope(log[l][k]) /\ fate[l][k] = "quarantined"

(* The read model takes in each event of an operation once, and its        *)
(* progress before its end, although members take lanes over from each     *)
(* other in the middle of a record and rows are published twice.  Only a   *)
(* damaged copy of the progress, quarantined before its original was read, *)
(* lets an end through alone.                                              *)
EventsInOrder ==
  LET a == applied["events"] IN
  \A k \in DOMAIN a :
    /\ \A j \in 1..(k - 1) : a[j] # a[k]
    /\ a[k][1] = "end" => \/ \E j \in 1..(k - 1) : a[j] = <<"progress", a[k][2]>>
                          \/ Quarantined("events", <<"progress", a[k][2]>>)

(* Producers and consumers agree on the contract: a record that one of the *)
(* system's own outboxes wrote is quarantined or dead-lettered only for a  *)
(* flavor's sizing in a command, or the sizing measured after a create,    *)
(* outside the contract's range; nothing keeps either out of a payload.    *)
OwnRecordsUnderstood ==
  \A l \in Lanes : \A k \in DOMAIN log[l] :
    (log[l][k].wire = "good" /\ fate[l][k] \in {"quarantined", "dead_lettered"})
    => \E f \in DOMAIN log[l][k].data : log[l][k].data[f] = "bad"

(* A poison record holds nobody up: every accepted mutation is answered in *)
(* the read model, by its operation's last event or by a dead letter,      *)
(* unless the projection quarantined that very event or letter, for what   *)
(* was measured or in the shape of a damaged copy.                         *)
Unanswered(i) ==
  \E c \in Commands :
    /\ c.instance = i /\ InLog(<<"command", c.op>>) /\ ~Answered(c)
    /\ \A k \in DOMAIN applied["dlq"] : applied["dlq"][k] # <<"dead_letter", c.op>>
    /\ ~Quarantined("events", <<"end", c.op>>)
    /\ ~Quarantined("dlq", <<"dead_letter", c.op>>)

EveryCommandAnswered == \A i \in Instances : Unanswered(i) ~> ~Unanswered(i)
=============================================================================
