---------------------------- MODULE IntakeProofs ----------------------------
(***************************************************************************)
(* What holds of Intake and of Listing for any commands, any number of     *)
(* members and partitions, any page size and any number of faults.         *)
(***************************************************************************)
EXTENDS Listing, SequenceFacts, TLAPS, SequenceTheorems, FiniteSetTheorems

Fates == {"none", "applied", "duplicate", "quarantined", "dead_lettered"}
EndSchemas == {"instance.mutation.completed", "instance.mutation.failed"}

(* What the system's own outboxes write to a topic at a time.              *)
Written(topic, at) ==
  {r \in {CommandRecord(c, at) : c \in Commands} : topic = "commands"}
    \cup {r \in {ProgressRecord(c, at) : c \in Commands} : topic = "events"}
    \cup {r \in {EndRecord(c, schema, measured, at) :
                  c \in Commands, schema \in EndSchemas, measured \in {"ok", "bad"}} :
            topic = "events"}
    \cup {r \in {DriftRecord(i, at) : i \in Drifting} : topic = "drift"}
    \cup {r \in {DeadLetterRecord(CommandRecord(c, at), at) : c \in Commands} :
            topic = "dlq"}
Records(topic, at) == {[r EXCEPT !.wire = w] : r \in Written(topic, at), w \in Wires}
AllRecords == UNION {Records(topic, at) : topic \in Topics, at \in Nat}
Ids == {r.id : r \in AllRecords}

-----------------------------------------------------------------------------
(* The inductive invariant, part by part.                                  *)

(* A lane has a fate for each of its records.                              *)
LogsOK ==
  /\ log \in [Lanes -> Seq(AllRecords)] /\ fate \in [Lanes -> Seq(Fates)]
  /\ \A l \in Lanes : Len(fate[l]) = Len(log[l])

WorkerStates ==
  [phase : {"idle", "handling", "failing", "done"}, off : Nat, attempt : Nat, epoch : Nat]
WorkersOK ==
  /\ worker \in [Lanes -> [Members -> WorkerStates]]
  /\ epoch \in [Lanes -> Nat] /\ committed \in [Lanes -> Nat]
  /\ DOMAIN owner = Lanes
  /\ clock \in Nat
  /\ \A l \in Lanes : committed[l] <= Len(log[l])

Busy(l, m) == worker[l][m].phase # "idle"

(* A member works on the first record its group has not committed, or,     *)
(* having lost the lane, on one that came before; a member that has not    *)
(* lost it is its owner.                                                   *)
OffsetsOK ==
  \A l \in Lanes, m \in Members : Busy(l, m) =>
    /\ worker[l][m].off \in 1..Len(log[l])
    /\ worker[l][m].off <= committed[l] + 1
    /\ worker[l][m].epoch <= epoch[l]
    /\ worker[l][m].epoch = epoch[l] =>
         worker[l][m].off = committed[l] + 1 /\ owner[l] = m
    /\ worker[l][m].phase = "done" => fate[l][worker[l][m].off] # "none"

DeliveryInv == LogsOK /\ WorkersOK /\ OffsetsOK /\ NothingSkipped

(* Every record is one an outbox wrote, in the lane of its instance, or    *)
(* the damaged copy, in any lane of the topic, of one that is there.       *)
RecordsOK ==
  \A l \in Lanes : \A k \in DOMAIN log[l] :
    /\ log[l][k] \in Records(l[1], log[l][k].at)
    /\ log[l][k].at \in Nat
    /\ log[l][k].wire = "good" => LaneOf(l[1], log[l][k]) = l

HasOriginal(topic, r) ==
  \E j \in DOMAIN log[LaneOf(topic, r)] :
    log[LaneOf(topic, r)][j].wire = "good" /\ log[LaneOf(topic, r)][j].id = r.id
Originals ==
  \A l \in Lanes : \A k \in DOMAIN log[l] : HasOriginal(l[1], log[l][k])

(* A workflow's end is behind its progress.                                *)
EndsBehind ==
  \A l \in Lanes : \A k \in DOMAIN log[l] : \A op :
    log[l][k].wire = "good" /\ log[l][k].id = <<"end", op>> =>
      \E j \in 1..(k - 1) : log[l][j].wire = "good" /\ log[l][j].id = <<"progress", op>>

(* An event that is refused is set aside and nothing else.                 *)
RefusedSetAside ==
  \A l \in Lanes : l[1] = "events" => \A k \in DOMAIN log[l] :
    Raised("events", log[l][k]) # "none" => fate[l][k] \in {"none", "quarantined"}

(* The receipts of the events: of each good record something was made of,  *)
(* of each applied one, and of no progress that was neither applied nor    *)
(* set aside.                                                              *)
StoresOK ==
  /\ inbox \in [Topics -> SUBSET Ids] /\ applied \in [Topics -> Seq(Ids)]
SettledHaveReceipts ==
  \A l \in Lanes : l[1] = "events" =>
    \A k \in DOMAIN log[l] :
      log[l][k].wire = "good" /\ fate[l][k] # "none" => log[l][k].id \in inbox["events"]
AppliedHaveReceipts ==
  \A k \in DOMAIN applied["events"] : applied["events"][k] \in inbox["events"]
ProgressApplied ==
  \A op : <<"progress", op>> \in inbox["events"] =>
    \/ \E k \in DOMAIN applied["events"] : applied["events"][k] = <<"progress", op>>
    \/ Quarantined("events", <<"progress", op>>)

IInv ==
  /\ DeliveryInv
  /\ RecordsOK /\ Originals /\ EndsBehind /\ RefusedSetAside
  /\ StoresOK /\ SettledHaveReceipts /\ AppliedHaveReceipts /\ ProgressApplied
  /\ EventsInOrder /\ OwnRecordsUnderstood

-----------------------------------------------------------------------------
(* Records and the contracts they are read by.                             *)

(* Only an undamaged record passes the Kafka consumer's checks.            *)
LEMMA GoodDecodes ==
  ASSUME NEW r, r.wire \in Wires
  PROVE  decodeError(r) = "none" <=> r.wire = "good"
<1> DEFINE checks == <<decodeEventEnvelope(r), decodeReplayGeneration(r),
                       decodeOutboxId(r), validateEventTransport(r)>>
           failed == {k \in 1..4 : checks[k] # "none"}
<1>1. r.wire = "good" <=> failed = {}
  <2>1. failed = {} <=> \A k \in 1..4 : checks[k] = "none"
    OBVIOUS
  <2>2. (\A k \in 1..4 : checks[k] = "none") <=>
          /\ decodeEventEnvelope(r) = "none" /\ decodeReplayGeneration(r) = "none"
          /\ decodeOutboxId(r) = "none" /\ validateEventTransport(r) = "none"
    OBVIOUS
  <2>3. decodeEventEnvelope(r) = "none" <=> r.wire \notin {"empty", "not_json", "not_envelope"}
    BY DEF decodeEventEnvelope, isEventEnvelope
  <2>4. QED  BY <2>1, <2>2, <2>3
             DEF decodeReplayGeneration, decodeOutboxId, validateEventTransport, Wires
<1>2. CASE failed = {}
  BY <1>1, <1>2 DEF decodeError
<1>3. CASE failed # {}
  <2> DEFINE first == CHOOSE k \in failed : \A j \in failed : k <= j
  <2>1. \E k \in failed : \A j \in failed : k <= j
    <3>1. failed \subseteq 1..4
      OBVIOUS
    <3> HIDE DEF failed
    <3>2. 1 \in failed \/ 2 \in failed \/ 3 \in failed \/ 4 \in failed
      <4>1. PICK x : x \in failed
        BY <1>3
      <4>2. x \in 1..4
        BY <3>1, <4>1
      <4>3. x = 1 \/ x = 2 \/ x = 3 \/ x = 4
        BY <4>2
      <4>4. QED  BY <4>1, <4>3
    <3>3. \A j \in failed : j \in Nat /\ (j = 1 \/ j = 2 \/ j = 3 \/ j = 4)
      BY <3>1
    <3>4. CASE 1 \in failed
      BY <3>3, <3>4
    <3>5. CASE 1 \notin failed /\ 2 \in failed
      BY <3>3, <3>5
    <3>6. CASE 1 \notin failed /\ 2 \notin failed /\ 3 \in failed
      BY <3>3, <3>6
    <3>7. CASE 1 \notin failed /\ 2 \notin failed /\ 3 \notin failed /\ 4 \in failed
      BY <3>3, <3>7
    <3>8. QED  BY <3>2, <3>4, <3>5, <3>6, <3>7
  <2>2. first \in failed
    <3> HIDE DEF failed
    <3>1. QED  BY <2>1
  <2>3. checks[first] # "none"
    BY <2>2
  <2>4. decodeError(r) = checks[first]
    BY <1>3 DEF decodeError
  <2>5. QED  BY <1>1, <1>3, <2>3, <2>4
<1>4. QED  BY <1>2, <1>3

DeadLetterData ==
  Ok({"originalEventId", "originalSchemaName", "originalSchemaVersion", "failure",
      "attempts", "replayAllowed", "deadLetteredAt"})

(* A dead letter has the envelope of the command it is about.              *)
LEMMA DeadLetterEnvelope ==
  ASSUME NEW c, NEW t, NEW at
  PROVE  DeadLetterRecord(CommandRecord(c, t), at) =
           Envelope(<<"dead_letter", c.op>>, "provisioning.dead_lettered", c, at,
                    DeadLetterData)
<1> DEFINE r == CommandRecord(c, t)
<1>1. DeadLetterRecord(r, at) =
        [r EXCEPT !.id = <<"dead_letter", r.op>>,
                  !.schemaName = "provisioning.dead_lettered",
                  !.schemaVersion = 1, !.aggregateType = "instance", !.at = at,
                  !.data = DeadLetterData]
  BY DEF DeadLetterRecord, DeadLetterData
<1>2. r = [id |-> <<"command", c.op>>, schemaName |-> c.schema, schemaVersion |-> 1,
           aggregateType |-> "instance", instance |-> c.instance, op |-> c.op,
           at |-> t, wire |-> "good", data |-> CommandData(c)]
  BY DEF CommandRecord, Envelope
<1>3. r.op = c.op
  BY <1>2
<1> HIDE DEF r
<1>4. DeadLetterRecord(r, at) =
        [id |-> <<"dead_letter", c.op>>, schemaName |-> "provisioning.dead_lettered",
         schemaVersion |-> 1, aggregateType |-> "instance", instance |-> c.instance,
         op |-> c.op, at |-> at, wire |-> "good", data |-> DeadLetterData]
  BY <1>1, <1>2, <1>3
<1>5. QED  BY <1>4 DEF Envelope, r

(* Whatever is written is an envelope of its topic.                        *)
LEMMA WrittenShape ==
  ASSUME NEW topic \in Topics, NEW at, NEW r \in Written(topic, at)
  PROVE  \E id, schema, c, data :
           /\ r = Envelope(id, schema, c, at, data) /\ c.instance \in Instances
           /\ topic = "events" => c \in Commands /\ id \in {<<"progress", c.op>>, <<"end", c.op>>}
           /\ topic # "events" => \E kind \in {"command", "drift", "dead_letter"} : id = <<kind, c.op>>
<1>1. CASE \E c \in Commands : topic = "commands" /\ r = CommandRecord(c, at)
  BY <1>1, IntakeAssumption DEF CommandRecord
<1>2. CASE \E c \in Commands : topic = "events" /\ r = ProgressRecord(c, at)
  BY <1>2, IntakeAssumption DEF ProgressRecord
<1>3. CASE \E c \in Commands, schema \in EndSchemas, measured \in {"ok", "bad"} :
             topic = "events" /\ r = EndRecord(c, schema, measured, at)
  BY <1>3, IntakeAssumption DEF EndRecord
<1>4. CASE \E i \in Drifting : topic = "drift" /\ r = DriftRecord(i, at)
  <2>1. PICK i \in Drifting : topic = "drift" /\ r = DriftRecord(i, at)
    BY <1>4
  <2> DEFINE c == [instance |-> i, op |-> i]
  <2>2. c.instance \in Instances /\ c.op = i
    BY IntakeAssumption
  <2>3. r = Envelope(<<"drift", c.op>>, "drift.detected", c, at, Ok({"classification"}))
    BY <2>1, <2>2 DEF DriftRecord
  <2> HIDE DEF c
  <2>4. QED  BY <2>1, <2>2, <2>3
<1>5. CASE \E c \in Commands : topic = "dlq" /\ r = DeadLetterRecord(CommandRecord(c, at), at)
  <2>1. PICK c \in Commands : topic = "dlq" /\ r = DeadLetterRecord(CommandRecord(c, at), at)
    BY <1>5
  <2>2. r = Envelope(<<"dead_letter", c.op>>, "provisioning.dead_lettered", c, at,
                     DeadLetterData)
    BY <2>1, DeadLetterEnvelope
  <2>3. QED  BY <2>1, <2>2, IntakeAssumption
<1>6. QED  BY <1>1, <1>2, <1>3, <1>4, <1>5 DEF Written

(* A record in a lane's log: written, or a damaged copy.                   *)
LEMMA RecordShape ==
  ASSUME NEW topic \in Topics, NEW at, NEW r \in Records(topic, at)
  PROVE  /\ r.at = at /\ r.wire \in Wires /\ r.instance \in Instances
         /\ r.wire = "good" => r \in Written(topic, at)
         /\ \A w \in Wires : /\ [r EXCEPT !.wire = w] \in Records(topic, at)
                             /\ [r EXCEPT !.wire = w].id = r.id
                             /\ [r EXCEPT !.wire = w].wire = w
                             /\ [r EXCEPT !.wire = w].instance = r.instance
         /\ topic = "events" => \E c \in Commands : /\ r.instance = c.instance
                                                    /\ r.id \in {<<"progress", c.op>>, <<"end", c.op>>}
         /\ topic # "events" => \A op : r.id \notin {<<"progress", op>>, <<"end", op>>}
<1>1. PICK q \in Written(topic, at), w \in Wires : r = [q EXCEPT !.wire = w]
  BY DEF Records
<1>2. PICK id, schema, c, data :
        /\ q = Envelope(id, schema, c, at, data) /\ c.instance \in Instances
        /\ topic = "events" => c \in Commands /\ id \in {<<"progress", c.op>>, <<"end", c.op>>}
        /\ topic # "events" => \E kind \in {"command", "drift", "dead_letter"} : id = <<kind, c.op>>
  BY <1>1, WrittenShape
<1>3. /\ r.id = id /\ r.instance = c.instance /\ r.at = at /\ r.wire = w
      /\ \A v : [r EXCEPT !.wire = v] = [q EXCEPT !.wire = v]
      /\ w = "good" => r = q
  <2>1. r = [Envelope(id, schema, c, at, data) EXCEPT !.wire = w]
    BY <1>1, <1>2
  <2>2. r.id = id /\ r.instance = c.instance /\ r.at = at /\ r.wire = w
    BY <2>1 DEF Envelope
  <2>3. ASSUME NEW v
        PROVE  [r EXCEPT !.wire = v] = [q EXCEPT !.wire = v]
    BY <1>2, <2>1 DEF Envelope
  <2>4. w = "good" => r = q
    BY <1>2, <2>1 DEF Envelope
  <2>5. QED  BY <2>2, <2>3, <2>4
<1>4. \A v : /\ [q EXCEPT !.wire = v].id = id /\ [q EXCEPT !.wire = v].wire = v
             /\ [q EXCEPT !.wire = v].instance = c.instance
  <2> TAKE v
  <2>1. [q EXCEPT !.wire = v] = [Envelope(id, schema, c, at, data) EXCEPT !.wire = v]
    BY <1>2
  <2>2. QED  BY <2>1 DEF Envelope
<1>5. \A v \in Wires : [q EXCEPT !.wire = v] \in Records(topic, at)
  BY DEF Records
<1>6. topic # "events" => \A op : r.id \notin {<<"progress", op>>, <<"end", op>>}
  BY <1>2, <1>3
<1>7. QED  BY <1>1, <1>2, <1>3, <1>4, <1>5, <1>6

(* What is written has no damage.                                          *)
LEMMA WrittenRecord ==
  ASSUME NEW topic \in Topics, NEW at, NEW r \in Written(topic, at)
  PROVE  r \in Records(topic, at) /\ r.wire = "good"
<1>1. PICK id, schema, c, data : r = Envelope(id, schema, c, at, data)
  BY WrittenShape
<1>2. r = [r EXCEPT !.wire = "good"] /\ r.wire = "good"
  BY <1>1 DEF Envelope
<1>3. QED  BY <1>2 DEF Records, Wires

(* A payload with a contract's fields, all in range, satisfies it.         *)
LEMMA OkSatisfies ==
  ASSUME NEW F, NEW required, NEW optional,
         required \subseteq F, F \subseteq required \cup optional
  PROVE  Satisfies(Ok(F), required, optional)
  BY DEF Satisfies, onlyKeys, Ok

(* The same where a field carries a sizing.                                *)
LEMMA SizedSatisfies ==
  ASSUME NEW F, NEW z, NEW size \in {"ok", "bad"}, NEW required, NEW optional,
         required \subseteq F, F \subseteq required \cup optional,
         \A f \in DOMAIN Sized(F, z, size) : Sized(F, z, size)[f] # "bad"
  PROVE  Satisfies(Sized(F, z, size), required, optional)
<1>1. \A f \in F : Sized(F, z, size)[f] = "ok"
  BY DEF Sized
<1>2. DOMAIN Sized(F, z, size) = F
  BY DEF Sized
<1>3. QED  BY <1>1, <1>2 DEF Satisfies, onlyKeys

(* What acceptance writes, the command consumer can read, sizings apart.   *)
LEMMA CommandUnderstood ==
  ASSUME NEW c \in Commands, NEW at,
         \A f \in DOMAIN CommandData(c) : CommandData(c)[f] # "bad"
  PROVE  commandError(CommandRecord(c, at)) = "none"
<1> DEFINE r == CommandRecord(c, at)
<1>1. /\ r.schemaName = c.schema /\ r.schemaVersion = 1
      /\ r.aggregateType = "instance" /\ r.data = CommandData(c)
  BY DEF CommandRecord, Envelope
<1>2. c.schema \in SUPPORTED_COMMAND_SCHEMAS /\ c.size \in {"ok", "bad"}
  BY IntakeAssumption
<1> HIDE DEF r
<1>3. commandError(r) = narrowCommand(r)
  BY <1>1, <1>2 DEF commandError, SUPPORTED_COMMAND_SCHEMAS
<1>4. CASE c.schema = "instance.create.requested"
  <2>1. CommandData(c) = CreateData(c.size)
    BY <1>4 DEF CommandData, SnapshotActions
  <2>2. Satisfies(CreateData(c.size),
                  {"imageId", "flavorId", "networkId", "providerProfileId", "hostname",
                   "resources", "ipv4"}, {"sshPublicKeys"})
    BY <1>2, <2>1, SizedSatisfies DEF CreateData
  <2>3. isInstanceCreateRequestedV1(r)
    BY <1>1, <1>4, <2>1, <2>2 DEF isInstanceCreateRequestedV1, InstanceHeader, Header
  <2>4. QED  BY <1>1, <1>3, <1>4, <2>3 DEF narrowCommand, createCommand, Rejects, r
<1>5. CASE c.schema = "instance.resize.requested"
  <2>1. CommandData(c) = ResizeData(c.size)
    BY <1>5 DEF CommandData, SnapshotActions
  <2>2. Satisfies(ResizeData(c.size), {"flavorId", "targetResources"} \cup snapshotRouting, {})
    BY <1>2, <2>1, SizedSatisfies DEF ResizeData, Routing, snapshotRouting
  <2>3. isInstanceResizeRequestedV1(r)
    BY <1>1, <1>5, <2>1, <2>2 DEF isInstanceResizeRequestedV1, InstanceHeader, Header
  <2>4. QED  BY <1>1, <1>3, <1>5, <2>3 DEF narrowCommand, resizeCommand, Rejects, r
<1>6. CASE c.schema = "instance.power.requested"
  <2>1. CommandData(c) = PowerData
    BY <1>6 DEF CommandData, SnapshotActions
  <2>2. Satisfies(PowerData, {"action"} \cup snapshotRouting, {})
    BY OkSatisfies DEF PowerData, Routing, snapshotRouting
  <2>3. isInstancePowerRequestedV1(r)
    BY <1>1, <1>6, <2>1, <2>2 DEF isInstancePowerRequestedV1, InstanceHeader, Header
  <2>4. QED  BY <1>1, <1>3, <1>6, <2>3 DEF narrowCommand, powerCommand, Rejects, r
<1>7. CASE c.schema = "snapshot.create.requested"
  <2>1. CommandData(c) = SnapshotCreateData
    BY <1>7 DEF CommandData, SnapshotActions
  <2>2. Satisfies(SnapshotCreateData, {"snapshotId", "name"} \cup snapshotRouting,
                  {"description"})
    BY OkSatisfies DEF SnapshotCreateData, Routing, snapshotRouting
  <2>3. isSnapshotCreateRequestedV1(r)
    BY <1>1, <1>7, <2>1, <2>2 DEF isSnapshotCreateRequestedV1, Header
  <2>4. QED  BY <1>1, <1>3, <1>7, <2>3 DEF narrowCommand, snapshotCommand, Rejects, r
<1>8. CASE c.schema \in SnapshotActions
  <2>1. CommandData(c) = SnapshotActionData
    BY <1>8 DEF CommandData, SnapshotActions
  <2>2. Satisfies(SnapshotActionData,
                  {"snapshotId", "providerSnapshotReference"} \cup snapshotRouting, {})
    BY OkSatisfies DEF SnapshotActionData, Routing, snapshotRouting
  <2>3. isSnapshotActionRequestedV1(r, r.schemaName)
    BY <1>1, <2>1, <2>2 DEF isSnapshotActionRequestedV1, Header
  <2>4. snapshotCommand(r) = "none"
    BY <1>1, <1>8, <2>3 DEF snapshotCommand, Rejects, SnapshotActions
  <2>5. QED  BY <1>1, <1>3, <1>8, <2>4 DEF narrowCommand, SnapshotActions, r
<1>9. CASE c.schema = "instance.retention.requested"
  <2>1. CommandData(c) = RetentionData
    BY <1>9 DEF CommandData, SnapshotActions
  <2>2. Satisfies(RetentionData, {"retentionDeadline", "leaseReleaseMode"} \cup snapshotRouting, {})
    BY OkSatisfies DEF RetentionData, Routing, snapshotRouting
  <2>3. isInstanceRetentionRequestedV1(r)
    BY <1>1, <1>9, <2>1, <2>2 DEF isInstanceRetentionRequestedV1, InstanceHeader, Header
  <2>4. QED  BY <1>1, <1>3, <1>9, <2>3 DEF narrowCommand, retentionCommand, Rejects, r
<1>10. CASE c.schema = "instance.purge.requested"
  <2>1. CommandData(c) = PurgeData
    BY <1>10 DEF CommandData, SnapshotActions
  <2>2. Satisfies(PurgeData, {"purgeAuthorizationId", "retentionDeadline", "reasonReference"}
                               \cup snapshotRouting, {})
    BY OkSatisfies DEF PurgeData, Routing, snapshotRouting
  <2>3. isInstancePurgeRequestedV1(r)
    BY <1>1, <1>10, <2>1, <2>2 DEF isInstancePurgeRequestedV1, InstanceHeader, Header
  <2>4. QED  BY <1>1, <1>3, <1>10, <2>3 DEF narrowCommand, purgeCommand, Rejects, r
<1>11. QED  BY <1>2, <1>4, <1>5, <1>6, <1>7, <1>8, <1>9, <1>10
            DEF SUPPORTED_COMMAND_SCHEMAS, SnapshotActions

(* The read model's consumers can read the events, measurements apart.     *)
LEMMA EventUnderstood ==
  ASSUME NEW at, NEW r \in Written("events", at),
         \A f \in DOMAIN r.data : r.data[f] # "bad"
  PROVE  workflowEvent(r) = "none"
<1>1. ASSUME NEW c \in Commands, r = ProgressRecord(c, at)
      PROVE  isWorkflowProgressedV1(r)
  <2> DEFINE data == Ok({"stage", "attempt", "operationState", "providerTaskReference"})
  <2>1. Satisfies(data, {"stage", "attempt", "operationState"},
                  {"providerTaskReference", "nextActionAt"})
    BY OkSatisfies
  <2> HIDE DEF data
  <2>2. r = Envelope(<<"progress", c.op>>, "workflow.progressed", c, at, data)
    BY <1>1 DEF ProgressRecord, data
  <2>3. /\ r.schemaName = "workflow.progressed" /\ r.schemaVersion = 1
        /\ r.aggregateType = "instance" /\ r.data = data
    BY <2>2 DEF Envelope
  <2>4. QED  BY <2>1, <2>3 DEF isWorkflowProgressedV1, InstanceHeader, Header
<1>2. ASSUME NEW c \in Commands, NEW measured \in {"ok", "bad"},
             r = EndRecord(c, "instance.mutation.completed", measured, at)
      PROVE  isInstanceMutationCompletedV1(r)
  <2>1. r = Envelope(<<"end", c.op>>, "instance.mutation.completed", c, at,
                     CompletedData(c, measured))
    BY <1>2 DEF EndRecord
  <2>2. /\ r.schemaName = "instance.mutation.completed" /\ r.schemaVersion = 1
        /\ r.aggregateType = "instance" /\ r.data = CompletedData(c, measured)
    BY <2>1 DEF Envelope
  <2>3. Satisfies(CompletedData(c, measured), {"action", "lifecycleState", "evidenceId"},
                  {"providerResourceId", "observed"})
    <3> DEFINE F == {"action", "lifecycleState", "evidenceId", "providerResourceId"}
                      \cup IF c.snapshot = 0 THEN {"observed"} ELSE {}
    <3>1. /\ {"action", "lifecycleState", "evidenceId"} \subseteq F
          /\ F \subseteq {"action", "lifecycleState", "evidenceId"}
                           \cup {"providerResourceId", "observed"}
      OBVIOUS
    <3>2. CompletedData(c, measured) = Sized(F, "observed", measured)
      BY DEF CompletedData
    <3> HIDE DEF F
    <3>3. \A f \in DOMAIN Sized(F, "observed", measured) : Sized(F, "observed", measured)[f] # "bad"
      BY <2>2, <3>2
    <3>4. QED  BY <3>1, <3>2, <3>3, SizedSatisfies
  <2>4. QED  BY <2>2, <2>3 DEF isInstanceMutationCompletedV1, InstanceHeader, Header
<1>3. ASSUME NEW c \in Commands, NEW measured,
             r = EndRecord(c, "instance.mutation.failed", measured, at)
      PROVE  isInstanceMutationFailedV1(r)
  <2>1. Satisfies(FailedData, {"action", "failure", "compensationState"}, {})
    BY OkSatisfies DEF FailedData
  <2>2. r = Envelope(<<"end", c.op>>, "instance.mutation.failed", c, at, FailedData)
    BY <1>3 DEF EndRecord
  <2>3. /\ r.schemaName = "instance.mutation.failed" /\ r.schemaVersion = 1
        /\ r.aggregateType = "instance" /\ r.data = FailedData
    BY <2>2 DEF Envelope
  <2>4. QED  BY <2>1, <2>3 DEF isInstanceMutationFailedV1, InstanceHeader, Header
<1>4. \/ \E c \in Commands : r = ProgressRecord(c, at)
      \/ \E c \in Commands, schema \in EndSchemas, measured \in {"ok", "bad"} :
           r = EndRecord(c, schema, measured, at)
  BY DEF Written
<1>5. QED  BY <1>1, <1>2, <1>3, <1>4 DEF EndSchemas, workflowEvent

(* Its consumer of dead letters can read those.                            *)
LEMMA DeadLetterUnderstood ==
  ASSUME NEW at, NEW r \in Written("dlq", at)
  PROVE  deadLetterEvent(r) = "none"
<1>1. PICK c \in Commands : r = DeadLetterRecord(CommandRecord(c, at), at)
  BY DEF Written
<1>2. r = Envelope(<<"dead_letter", c.op>>, "provisioning.dead_lettered", c, at,
                   DeadLetterData)
  BY <1>1, DeadLetterEnvelope
<1>3. /\ r.schemaName = "provisioning.dead_lettered" /\ r.schemaVersion = 1
      /\ r.aggregateType = "instance" /\ r.data = DeadLetterData
  BY <1>2 DEF Envelope
<1>4. Satisfies(DeadLetterData, {"originalEventId", "originalSchemaName",
                                 "originalSchemaVersion", "failure", "attempts",
                                 "replayAllowed", "deadLetteredAt"}, {})
  BY OkSatisfies DEF DeadLetterData
<1>5. QED  BY <1>3, <1>4
           DEF deadLetterEvent, isProvisioningDeadLetteredV1, InstanceHeader, Header

(* An own record is refused only for a sizing out of range.                *)
LEMMA WrittenUnderstood ==
  ASSUME NEW topic \in Topics, NEW at, NEW r \in Written(topic, at),
         Raised(topic, r) # "none"
  PROVE  \E f \in DOMAIN r.data : r.data[f] = "bad"
<1>1. decodeError(r) = "none"
  BY WrittenRecord, GoodDecodes DEF Wires
<1>2. CASE topic = "commands"
  <2>1. PICK c \in Commands : r = CommandRecord(c, at)
    BY <1>2 DEF Written
  <2>2. r.data = CommandData(c)
    BY <2>1 DEF CommandRecord, Envelope
  <2>3. (\A f \in DOMAIN r.data : r.data[f] # "bad") => commandError(r) = "none"
    BY <2>1, <2>2, CommandUnderstood
  <2>4. QED  BY <1>1, <1>2, <2>3 DEF Raised
<1>3. CASE topic = "events"
  BY <1>1, <1>3, EventUnderstood DEF Raised
<1>4. CASE topic = "dlq"
  BY <1>1, <1>4, DeadLetterUnderstood DEF Raised
<1>5. CASE topic = "drift"
  BY <1>1, <1>5 DEF Raised
<1>6. QED  BY <1>2, <1>3, <1>4, <1>5 DEF Topics

-----------------------------------------------------------------------------
(* What a step does to the logs and to the members at work.                *)

(* Logs only grow, and what was made of a record stays made of it.         *)
LogsGrow ==
  \A l \in Lanes :
    /\ Len(log[l]) <= Len(log'[l])
    /\ \A k \in DOMAIN log[l] :
         /\ log'[l][k] = log[l][k]
         /\ fate[l][k] # "none" => fate'[l][k] # "none"

(* A member goes on with its record, is done with it, or drops it.         *)
WorkerFollows(l, m) ==
  \/ ~Busy(l, m)'
  \/ /\ Busy(l, m)
     /\ worker'[l][m].off = worker[l][m].off
     /\ worker'[l][m].epoch = worker[l][m].epoch
     /\ worker'[l][m].phase = "done" =>
          fate'[l][worker[l][m].off] # "none" \/ worker[l][m].phase = "done"

(* Positions of a lane.                                                    *)
LEMMA LanePositions ==
  ASSUME LogsOK, NEW l \in Lanes
  PROVE  /\ log[l] \in Seq(AllRecords) /\ fate[l] \in Seq(Fates)
         /\ Len(log[l]) \in Nat /\ Len(fate[l]) = Len(log[l])
         /\ DOMAIN log[l] = 1..Len(log[l]) /\ DOMAIN fate[l] = 1..Len(log[l])
  BY DEF LogsOK

(* While members only follow their records, delivery stays in order.       *)
LEMMA DeliveryKept ==
  ASSUME DeliveryInv, LogsOK', LogsGrow, UNCHANGED <<committed, owner, epoch>>,
         clock' \in Nat, worker' \in [Lanes -> [Members -> WorkerStates]],
         \A l \in Lanes, m \in Members : WorkerFollows(l, m)
  PROVE  DeliveryInv'
<1>1. \A l \in Lanes :
        /\ Len(log[l]) \in Nat /\ Len(log'[l]) \in Nat
        /\ DOMAIN log[l] = 1..Len(log[l])
  BY LanePositions DEF DeliveryInv, LogsOK
<1>2. WorkersOK'
  <2>1. \A l \in Lanes : committed[l] <= Len(log'[l])
    BY <1>1 DEF DeliveryInv, WorkersOK, LogsGrow
  <2>2. QED  BY <2>1 DEF DeliveryInv, WorkersOK
<1>3. NothingSkipped'
  <2>1. SUFFICES ASSUME NEW l \in Lanes, NEW k \in 1..committed[l]
                 PROVE  fate'[l][k] # "none"
    BY DEF NothingSkipped
  <2>2. k \in DOMAIN log[l]
    BY <1>1 DEF DeliveryInv, WorkersOK
  <2>3. QED  BY <2>2 DEF DeliveryInv, NothingSkipped, LogsGrow
<1>4. OffsetsOK'
  <2>1. SUFFICES ASSUME NEW l \in Lanes, NEW m \in Members, Busy(l, m)'
                 PROVE  /\ worker'[l][m].off \in 1..Len(log'[l])
                        /\ worker'[l][m].off <= committed[l] + 1
                        /\ worker'[l][m].epoch <= epoch[l]
                        /\ worker'[l][m].epoch = epoch[l] =>
                             worker'[l][m].off = committed[l] + 1 /\ owner[l] = m
                        /\ worker'[l][m].phase = "done" =>
                             fate'[l][worker'[l][m].off] # "none"
    BY DEF OffsetsOK
  <2>2. /\ Busy(l, m)
        /\ worker'[l][m].off = worker[l][m].off
        /\ worker'[l][m].epoch = worker[l][m].epoch
        /\ worker'[l][m].phase = "done" =>
             fate'[l][worker[l][m].off] # "none" \/ worker[l][m].phase = "done"
    BY <2>1 DEF WorkerFollows
  <2>3. /\ worker[l][m].off \in 1..Len(log[l])
        /\ worker[l][m].off <= committed[l] + 1
        /\ worker[l][m].epoch <= epoch[l]
        /\ worker[l][m].epoch = epoch[l] =>
             worker[l][m].off = committed[l] + 1 /\ owner[l] = m
        /\ worker[l][m].phase = "done" => fate[l][worker[l][m].off] # "none"
    BY <2>2 DEF DeliveryInv, OffsetsOK
  <2>4. worker[l][m].off \in DOMAIN log[l]
    BY <1>1, <2>3
  <2>5. worker[l][m].off \in 1..Len(log'[l])
    BY <1>1, <2>3 DEF LogsGrow
  <2>6. worker[l][m].phase = "done" => fate'[l][worker[l][m].off] # "none"
    BY <2>3, <2>4 DEF LogsGrow
  <2>7. QED  BY <2>2, <2>3, <2>5, <2>6
<1>5. QED  BY <1>2, <1>3, <1>4 DEF DeliveryInv

(* An idle worker is a worker.                                             *)
LEMMA IdleWorker == Idle \in WorkerStates /\ Idle.phase = "idle"
  BY DEF Idle, WorkerStates

(* A member fetches the first record its group has not committed.          *)
LEMMA FetchDelivers ==
  ASSUME DeliveryInv, NEW l \in Lanes, NEW m \in Members, Fetch(l, m)
  PROVE  DeliveryInv'
<1> DEFINE w == [phase |-> "handling", off |-> committed[l] + 1, attempt |-> 1,
                 epoch |-> epoch[l]]
<1>1. /\ worker' = [worker EXCEPT ![l][m] = w] /\ owner[l] = m
      /\ committed[l] < Len(log[l])
      /\ log' = log /\ fate' = fate /\ committed' = committed /\ owner' = owner
      /\ epoch' = epoch /\ clock' = clock
  BY DEF Fetch, logVars
<1>2. /\ committed[l] \in Nat /\ epoch[l] \in Nat /\ w \in WorkerStates
      /\ worker \in [Lanes -> [Members -> WorkerStates]]
  BY DEF DeliveryInv, WorkersOK, WorkerStates
<1>3. w.off = committed[l] + 1 /\ w.epoch = epoch[l] /\ w.phase = "handling"
  OBVIOUS
<1> HIDE DEF w
<1>4. /\ worker' \in [Lanes -> [Members -> WorkerStates]]
      /\ worker'[l][m] = w
      /\ \A k \in Lanes, n \in Members : <<k, n>> # <<l, m>> => worker'[k][n] = worker[k][n]
  BY <1>1, <1>2
<1>5. LogsOK' /\ WorkersOK' /\ NothingSkipped'
  BY <1>1, <1>4 DEF DeliveryInv, LogsOK, WorkersOK, NothingSkipped
<1>6. OffsetsOK'
  <2>1. SUFFICES ASSUME NEW k \in Lanes, NEW n \in Members, Busy(k, n)'
                 PROVE  /\ worker'[k][n].off \in 1..Len(log[k])
                        /\ worker'[k][n].off <= committed[k] + 1
                        /\ worker'[k][n].epoch <= epoch[k]
                        /\ worker'[k][n].epoch = epoch[k] =>
                             worker'[k][n].off = committed[k] + 1 /\ owner[k] = n
                        /\ worker'[k][n].phase = "done" => fate[k][worker'[k][n].off] # "none"
    BY <1>1 DEF OffsetsOK
  <2>2. CASE <<k, n>> = <<l, m>>
    <3>1. Len(log[l]) \in Nat
      BY LanePositions DEF DeliveryInv
    <3>2. QED  BY <1>1, <1>2, <1>3, <1>4, <2>2, <3>1
  <2>3. CASE <<k, n>> # <<l, m>>
    <3>1. worker'[k][n] = worker[k][n]
      BY <1>4, <2>3
    <3>2. QED  BY <2>1, <3>1 DEF DeliveryInv, OffsetsOK, Busy
  <2>4. QED  BY <2>2, <2>3
<1>7. QED  BY <1>5, <1>6 DEF DeliveryInv

(* It commits a record it is done with, if the lane is still its own.      *)
LEMMA CommitDelivers ==
  ASSUME DeliveryInv, NEW l \in Lanes, NEW m \in Members, Commit(l, m)
  PROVE  DeliveryInv'
<1> DEFINE w == worker[l][m]
<1>1. /\ worker' = [worker EXCEPT ![l][m] = Idle] /\ w.phase = "done"
      /\ committed' = IF w.epoch = epoch[l] THEN [committed EXCEPT ![l] = w.off] ELSE committed
      /\ log' = log /\ fate' = fate /\ owner' = owner /\ epoch' = epoch /\ clock' = clock
  BY DEF Commit, logVars
<1>2. /\ committed \in [Lanes -> Nat] /\ worker \in [Lanes -> [Members -> WorkerStates]]
      /\ LogsOK
  BY DEF DeliveryInv, WorkersOK
<1>3. /\ worker' \in [Lanes -> [Members -> WorkerStates]]
      /\ worker'[l][m] = Idle
      /\ \A k \in Lanes, n \in Members : <<k, n>> # <<l, m>> => worker'[k][n] = worker[k][n]
  BY <1>1, <1>2, IdleWorker
<1>4. /\ w.off \in 1..Len(log[l]) /\ fate[l][w.off] # "none"
      /\ w.epoch = epoch[l] => w.off = committed[l] + 1 /\ owner[l] = m
  BY <1>1 DEF DeliveryInv, OffsetsOK, Busy
<1>5. Len(log[l]) \in Nat /\ committed[l] \in Nat
  BY <1>2, LanePositions
<1>6. /\ committed' \in [Lanes -> Nat]
      /\ \A k \in Lanes : k # l => committed'[k] = committed[k]
      /\ \/ committed'[l] = committed[l]
         \/ committed'[l] = committed[l] + 1 /\ w.epoch = epoch[l] /\ w.off = committed[l] + 1
  BY <1>1, <1>2, <1>4, <1>5
<1>7. LogsOK' /\ WorkersOK'
  <2>1. ASSUME NEW k \in Lanes  PROVE committed'[k] <= Len(log[k])
    <3>1. committed[k] <= Len(log[k])
      BY DEF DeliveryInv, WorkersOK
    <3>2. w.off = committed[l] + 1 => committed[l] + 1 <= Len(log[l])
      BY <1>4
    <3> HIDE DEF w
    <3>3. QED  BY <1>5, <1>6, <3>1, <3>2
  <2>2. QED  BY <1>1, <1>2, <1>3, <1>6, <2>1 DEF DeliveryInv, WorkersOK, LogsOK
<1>8. NothingSkipped'
  <2>1. SUFFICES ASSUME NEW k \in Lanes, NEW j \in 1..committed'[k]
                 PROVE  fate[k][j] # "none"
    BY <1>1 DEF NothingSkipped
  <2>2. CASE j \in 1..committed[k]
    BY <2>2 DEF DeliveryInv, NothingSkipped
  <2>3. CASE j \notin 1..committed[k]
    <3>1. k = l /\ j = w.off
      BY <1>5, <1>6, <2>3
    <3>2. QED  BY <1>4, <3>1
  <2>4. QED  BY <2>2, <2>3
<1>9. OffsetsOK'
  <2>1. SUFFICES ASSUME NEW k \in Lanes, NEW n \in Members, Busy(k, n)'
                 PROVE  /\ worker'[k][n].off \in 1..Len(log[k])
                        /\ worker'[k][n].off <= committed'[k] + 1
                        /\ worker'[k][n].epoch <= epoch[k]
                        /\ worker'[k][n].epoch = epoch[k] =>
                             worker'[k][n].off = committed'[k] + 1 /\ owner[k] = n
                        /\ worker'[k][n].phase = "done" => fate[k][worker'[k][n].off] # "none"
    BY <1>1 DEF OffsetsOK
  <2>2. <<k, n>> # <<l, m>> /\ worker'[k][n] = worker[k][n]
    BY <1>3, <2>1, IdleWorker DEF Busy
  <2>3. /\ worker[k][n].off \in 1..Len(log[k])
        /\ worker[k][n].off <= committed[k] + 1
        /\ worker[k][n].epoch <= epoch[k]
        /\ worker[k][n].epoch = epoch[k] =>
             worker[k][n].off = committed[k] + 1 /\ owner[k] = n
        /\ worker[k][n].phase = "done" => fate[k][worker[k][n].off] # "none"
    BY <2>1, <2>2 DEF DeliveryInv, OffsetsOK, Busy
  <2>4. CASE committed'[k] = committed[k]
    BY <2>2, <2>3, <2>4
  <2>5. CASE committed'[k] # committed[k]
    <3>1. k = l /\ n # m /\ owner[l] = m /\ committed'[l] = committed[l] + 1
      BY <1>4, <1>6, <2>2, <2>5
    <3>2. worker[k][n].epoch # epoch[k]
      BY <2>3, <3>1
    <3>3. worker[k][n].off <= committed'[k] + 1
      BY <1>5, <2>3, <3>1
    <3>4. QED  BY <2>2, <2>3, <3>2, <3>3
  <2>6. QED  BY <2>4, <2>5
<1>10. QED  BY <1>7, <1>8, <1>9 DEF DeliveryInv

(* After a rebalance nobody works under the lane's new generation.         *)
LEMMA RebalanceDelivers ==
  ASSUME DeliveryInv, NEW l \in Lanes, NEW m \in Members, Rebalance(l, m)
  PROVE  DeliveryInv'
<1>1. /\ owner' = [owner EXCEPT ![l] = m] /\ epoch' = [epoch EXCEPT ![l] = @ + 1]
      /\ log' = log /\ fate' = fate /\ committed' = committed /\ worker' = worker
      /\ clock' = clock
  BY DEF Rebalance, logVars
<1>2. DOMAIN owner = Lanes /\ epoch \in [Lanes -> Nat]
  BY DEF DeliveryInv, WorkersOK
<1>3. /\ epoch' \in [Lanes -> Nat] /\ DOMAIN owner' = Lanes
      /\ epoch'[l] = epoch[l] + 1 /\ epoch[l] \in Nat
      /\ \A k \in Lanes : k # l => epoch'[k] = epoch[k] /\ owner'[k] = owner[k]
  BY <1>1, <1>2
<1>4. LogsOK' /\ WorkersOK' /\ NothingSkipped'
  BY <1>1, <1>3 DEF DeliveryInv, LogsOK, WorkersOK, NothingSkipped
<1>5. OffsetsOK'
  <2>1. SUFFICES ASSUME NEW k \in Lanes, NEW n \in Members, Busy(k, n)
                 PROVE  /\ worker[k][n].off \in 1..Len(log[k])
                        /\ worker[k][n].off <= committed[k] + 1
                        /\ worker[k][n].epoch <= epoch'[k]
                        /\ worker[k][n].epoch = epoch'[k] =>
                             worker[k][n].off = committed[k] + 1 /\ owner'[k] = n
                        /\ worker[k][n].phase = "done" => fate[k][worker[k][n].off] # "none"
    BY <1>1 DEF OffsetsOK, Busy
  <2>2. worker[k][n].epoch \in Nat
    BY DEF DeliveryInv, WorkersOK, WorkerStates
  <2>3. /\ worker[k][n].off \in 1..Len(log[k])
        /\ worker[k][n].off <= committed[k] + 1
        /\ worker[k][n].epoch <= epoch[k]
        /\ worker[k][n].epoch = epoch[k] =>
             worker[k][n].off = committed[k] + 1 /\ owner[k] = n
        /\ worker[k][n].phase = "done" => fate[k][worker[k][n].off] # "none"
    BY <2>1 DEF DeliveryInv, OffsetsOK
  <2>4. CASE k = l
    <3>1. worker[k][n].epoch < epoch'[k]
      BY <1>3, <2>2, <2>3, <2>4
    <3>2. QED  BY <1>3, <2>2, <2>3, <2>4, <3>1
  <2>5. CASE k # l
    BY <1>3, <2>3, <2>5
  <2>6. QED  BY <2>4, <2>5
<1>6. QED  BY <1>4, <1>5 DEF DeliveryInv

-----------------------------------------------------------------------------
(* What a step adds to the logs and what it makes of records.              *)

(* A record its lane may take next.                                        *)
Fits(l, r) ==
  /\ r.at \in Nat /\ r \in Records(l[1], r.at)
  /\ IF r.wire = "good" THEN LaneOf(l[1], r) = l ELSE HasOriginal(l[1], r)
  /\ \A op : r.wire = "good" /\ r.id = <<"end", op>> =>
       \E j \in DOMAIN log[l] : log[l][j].wire = "good" /\ log[l][j].id = <<"progress", op>>

NewRecordsFit ==
  \A l \in Lanes : \A k \in DOMAIN log'[l] :
    \/ k \in DOMAIN log[l]
    \/ k = Len(log[l]) + 1 /\ Fits(l, log'[l][k]) /\ fate'[l][k] = "none"

(* At most one record gets a new fate.                                     *)
MarkedOnly(l, n, v) ==
  \A j \in Lanes : \A k \in DOMAIN log[j] :
    fate'[j][k] = fate[j][k] \/ (j = l /\ k = n /\ fate'[j][k] = v)

(* What was set aside stays set aside.                                     *)
FatesStay ==
  \A l \in Lanes : l[1] = "events" => \A k \in DOMAIN log[l] :
    fate[l][k] = "quarantined" => fate'[l][k] = "quarantined"
SetAsideStays == \A x : Quarantined("events", x) => Quarantined("events", x)'

(* A fitting record is a record.                                           *)
LEMMA FittingRecord ==
  ASSUME NEW l \in Lanes, NEW r, Fits(l, r)
  PROVE  r \in AllRecords
<1>1. l[1] \in Topics /\ r \in Records(l[1], r.at) /\ r.at \in Nat
  BY DEF Lanes, Fits
<1>2. QED  BY <1>1 DEF AllRecords

(* A lane is extended.                                                     *)
LEMMA ExtendGrows ==
  ASSUME LogsOK, NEW l \in Lanes, NEW r, Fits(l, r), Extend(l, r)
  PROVE  LogsOK' /\ LogsGrow /\ NewRecordsFit /\ \A j, k, v : MarkedOnly(j, k, v)
<1>1. /\ log' = [log EXCEPT ![l] = Append(log[l], r)]
      /\ fate' = [fate EXCEPT ![l] = Append(fate[l], "none")]
  BY DEF Extend
<1>2. /\ log[l] \in Seq(AllRecords) /\ fate[l] \in Seq(Fates) /\ r \in AllRecords
      /\ Len(log[l]) \in Nat /\ Len(fate[l]) = Len(log[l]) /\ "none" \in Fates
      /\ DOMAIN log[l] = DOMAIN fate[l]
  BY LanePositions, FittingRecord DEF Fates
<1>3. /\ Append(log[l], r) \in Seq(AllRecords)
      /\ Len(Append(log[l], r)) = Len(log[l]) + 1
      /\ DOMAIN Append(log[l], r) = DOMAIN log[l] \cup {Len(log[l]) + 1}
      /\ Append(log[l], r)[Len(log[l]) + 1] = r
      /\ \A j \in DOMAIN log[l] : Append(log[l], r)[j] = log[l][j]
  BY <1>2, ExtendedSeq
<1>4. /\ Append(fate[l], "none") \in Seq(Fates)
      /\ Len(Append(fate[l], "none")) = Len(log[l]) + 1
      /\ Append(fate[l], "none")[Len(log[l]) + 1] = "none"
      /\ \A j \in DOMAIN log[l] : Append(fate[l], "none")[j] = fate[l][j]
  BY <1>2, ExtendedSeq
<1>5. /\ DOMAIN log = Lanes /\ DOMAIN fate = Lanes
      /\ \A k \in Lanes : Len(log[k]) \in Nat
  BY LanePositions DEF LogsOK
<1>6. /\ log'[l] = Append(log[l], r) /\ fate'[l] = Append(fate[l], "none")
      /\ \A k \in Lanes : k # l => log'[k] = log[k] /\ fate'[k] = fate[k]
  BY <1>1, <1>5
<1>7. log' \in [Lanes -> Seq(AllRecords)] /\ fate' \in [Lanes -> Seq(Fates)]
  BY <1>1, <1>3, <1>4 DEF LogsOK
<1>8. LogsOK'
  BY <1>3, <1>4, <1>6, <1>7 DEF LogsOK
<1>9. LogsGrow
  BY <1>2, <1>3, <1>4, <1>5, <1>6 DEF LogsGrow
<1>10. NewRecordsFit
  BY <1>3, <1>4, <1>6 DEF NewRecordsFit
<1>11. \A j, k, v : MarkedOnly(j, k, v)
  BY <1>4, <1>6 DEF MarkedOnly
<1>12. QED  BY <1>8, <1>9, <1>10, <1>11

(* Something is made of a record.                                          *)
LEMMA MarkGrows ==
  ASSUME LogsOK, NEW l \in Lanes, NEW n \in DOMAIN log[l], NEW v \in Fates, v # "none",
         log' = log, fate' = [fate EXCEPT ![l][n] = v]
  PROVE  /\ LogsOK' /\ LogsGrow /\ NewRecordsFit /\ MarkedOnly(l, n, v)
         /\ fate'[l][n] = v
<1>1. /\ fate[l] \in Seq(Fates) /\ DOMAIN fate[l] = DOMAIN log[l]
      /\ Len(fate[l]) = Len(log[l])
  BY LanePositions
<1>2. fate' = [fate EXCEPT ![l] = [fate[l] EXCEPT ![n] = v]]
  OBVIOUS
<1>3. /\ [fate[l] EXCEPT ![n] = v] \in Seq(Fates)
      /\ Len([fate[l] EXCEPT ![n] = v]) = Len(log[l])
      /\ [fate[l] EXCEPT ![n] = v][n] = v
      /\ \A j \in DOMAIN log[l] : j # n => [fate[l] EXCEPT ![n] = v][j] = fate[l][j]
  BY <1>1, UpdatedSeq
<1>4. /\ fate'[l] = [fate[l] EXCEPT ![n] = v]
      /\ \A k \in Lanes : k # l => fate'[k] = fate[k]
      /\ fate' \in [Lanes -> Seq(Fates)]
  BY <1>2, <1>3 DEF LogsOK
<1>5. LogsOK'
  BY <1>3, <1>4 DEF LogsOK
<1>6. \A k \in Lanes : Len(log[k]) \in Nat
  BY LanePositions
<1>7. LogsGrow
  BY <1>3, <1>4, <1>6 DEF LogsGrow
<1>8. NewRecordsFit
  BY DEF NewRecordsFit
<1>9. MarkedOnly(l, n, v) /\ fate'[l][n] = v
  BY <1>3, <1>4 DEF MarkedOnly
<1>10. QED  BY <1>5, <1>7, <1>8, <1>9

(* Evidence of a command is announced in another lane.                     *)
LEMMA AnnounceGrows ==
  ASSUME LogsOK, NEW l \in Lanes, NEW n \in DOMAIN log[l], NEW d \in Lanes, d # l,
         NEW r, Fits(d, r),
         log' = [log EXCEPT ![d] = Append(log[d], r)],
         fate' = [fate EXCEPT ![d] = Append(fate[d], "none"),
                              ![l] = [fate[l] EXCEPT ![n] = "dead_lettered"]]
  PROVE  /\ LogsOK' /\ LogsGrow /\ NewRecordsFit /\ MarkedOnly(l, n, "dead_lettered")
         /\ fate'[l][n] = "dead_lettered"
<1>1. /\ log[d] \in Seq(AllRecords) /\ fate[d] \in Seq(Fates) /\ r \in AllRecords
      /\ Len(log[d]) \in Nat /\ Len(fate[d]) = Len(log[d]) /\ "none" \in Fates
      /\ "dead_lettered" \in Fates
      /\ DOMAIN log[d] = DOMAIN fate[d]
      /\ fate[l] \in Seq(Fates) /\ DOMAIN fate[l] = DOMAIN log[l]
      /\ Len(fate[l]) = Len(log[l])
      /\ DOMAIN log = Lanes /\ DOMAIN fate = Lanes
  BY LanePositions, FittingRecord DEF Fates, LogsOK
<1>2. /\ Append(log[d], r) \in Seq(AllRecords)
      /\ Len(Append(log[d], r)) = Len(log[d]) + 1
      /\ DOMAIN Append(log[d], r) = DOMAIN log[d] \cup {Len(log[d]) + 1}
      /\ Append(log[d], r)[Len(log[d]) + 1] = r
      /\ \A j \in DOMAIN log[d] : Append(log[d], r)[j] = log[d][j]
  BY <1>1, ExtendedSeq
<1>3. /\ Append(fate[d], "none") \in Seq(Fates)
      /\ Len(Append(fate[d], "none")) = Len(log[d]) + 1
      /\ Append(fate[d], "none")[Len(log[d]) + 1] = "none"
      /\ \A j \in DOMAIN log[d] : Append(fate[d], "none")[j] = fate[d][j]
  BY <1>1, ExtendedSeq
<1>4. /\ [fate[l] EXCEPT ![n] = "dead_lettered"] \in Seq(Fates)
      /\ Len([fate[l] EXCEPT ![n] = "dead_lettered"]) = Len(log[l])
      /\ [fate[l] EXCEPT ![n] = "dead_lettered"][n] = "dead_lettered"
      /\ \A j \in DOMAIN log[l] : j # n => [fate[l] EXCEPT ![n] = "dead_lettered"][j] = fate[l][j]
  BY <1>1, UpdatedSeq
<1>5. /\ log'[d] = Append(log[d], r)
      /\ \A k \in Lanes : k # d => log'[k] = log[k]
      /\ DOMAIN log' = Lanes
  BY <1>1
<1>6. /\ fate'[d] = Append(fate[d], "none")
      /\ fate'[l] = [fate[l] EXCEPT ![n] = "dead_lettered"]
      /\ \A k \in Lanes : k # d /\ k # l => fate'[k] = fate[k]
      /\ DOMAIN fate' = Lanes
  BY <1>1
<1>7. log' \in [Lanes -> Seq(AllRecords)] /\ fate' \in [Lanes -> Seq(Fates)]
  BY <1>1, <1>2, <1>3, <1>4 DEF LogsOK
<1>8. LogsOK'
  BY <1>1, <1>2, <1>3, <1>4, <1>5, <1>6, <1>7 DEF LogsOK
<1>9. \A k \in Lanes : Len(log[k]) \in Nat
  BY LanePositions
<1>10. LogsGrow
  BY <1>1, <1>2, <1>3, <1>4, <1>5, <1>6, <1>9 DEF LogsGrow
<1>11. NewRecordsFit
  BY <1>2, <1>3, <1>5, <1>6 DEF NewRecordsFit
<1>12. MarkedOnly(l, n, "dead_lettered") /\ fate'[l][n] = "dead_lettered"
  <2>1. ASSUME NEW j \in Lanes, NEW k \in DOMAIN log[j]
        PROVE  fate'[j][k] = fate[j][k] \/ (j = l /\ k = n /\ fate'[j][k] = "dead_lettered")
    <3>1. CASE j = d
      BY <1>3, <1>6, <3>1
    <3>2. CASE j = l
      BY <1>4, <1>6, <3>2
    <3>3. CASE j # d /\ j # l
      BY <1>6, <3>3
    <3>4. QED  BY <3>1, <3>2, <3>3
  <2>2. QED  BY <1>4, <1>6, <2>1 DEF MarkedOnly
<1>13. QED  BY <1>8, <1>10, <1>11, <1>12

-----------------------------------------------------------------------------
(* Each part of the invariant, from what a step adds and marks.            *)

(* The lane of a record is one.                                            *)
LEMMA LaneInLanes ==
  ASSUME NEW topic \in Topics, NEW at, NEW r \in Records(topic, at)
  PROVE  LaneOf(topic, r) \in Lanes
<1>1. r.instance \in Instances
  BY RecordShape
<1>2. QED  BY <1>1, IntakeAssumption DEF LaneOf, Lanes

(* What was set aside is still in its log.                                 *)
LEMMA SetAsideKept ==
  ASSUME LogsOK, LogsOK', LogsGrow, FatesStay
  PROVE  SetAsideStays
<1>1. SUFFICES ASSUME NEW x, Quarantined("events", x)
               PROVE  Quarantined("events", x)'
  BY DEF SetAsideStays
<1>2. PICK l \in Lanes : l[1] = "events" /\ \E k \in DOMAIN log[l] :
        log[l][k].id = x /\ HasEnvelope(log[l][k]) /\ fate[l][k] = "quarantined"
  BY <1>1 DEF Quarantined
<1>3. PICK k \in DOMAIN log[l] :
        log[l][k].id = x /\ HasEnvelope(log[l][k]) /\ fate[l][k] = "quarantined"
  BY <1>2
<1>4. /\ DOMAIN log[l] = 1..Len(log[l]) /\ Len(log[l]) \in Nat
      /\ DOMAIN log'[l] = 1..Len(log'[l]) /\ Len(log'[l]) \in Nat
  BY LanePositions DEF LogsOK
<1>5. log'[l][k] = log[l][k] /\ k \in DOMAIN log'[l] /\ fate'[l][k] = "quarantined"
  BY <1>2, <1>3, <1>4 DEF LogsGrow, FatesStay
<1>6. log'[l][k].id = x /\ HasEnvelope(log'[l][k])
  BY <1>3, <1>5
<1>7. QED  BY <1>2, <1>5, <1>6
           DEF Quarantined, HasEnvelope, decodeEventEnvelope, isEventEnvelope

(* A refused event is set aside, an event that is not refused is not.      *)
LEMMA RefusedKept ==
  ASSUME LogsGrow, NewRecordsFit, RefusedSetAside,
         \A l \in Lanes : l[1] = "events" => \A k \in DOMAIN log[l] :
           \/ fate'[l][k] = fate[l][k] \/ fate'[l][k] = "quarantined"
           \/ Raised("events", log[l][k]) = "none"
  PROVE  RefusedSetAside'
<1>1. SUFFICES ASSUME NEW l \in Lanes, l[1] = "events", NEW k \in DOMAIN log'[l],
                      Raised("events", log'[l][k]) # "none"
               PROVE  fate'[l][k] \in {"none", "quarantined"}
  BY DEF RefusedSetAside, Raised, decodeError, decodeEventEnvelope, isEventEnvelope,
         decodeReplayGeneration, decodeOutboxId, validateEventTransport
<1>2. CASE k \notin DOMAIN log[l]
  BY <1>2 DEF NewRecordsFit
<1>3. CASE k \in DOMAIN log[l]
  <2>1. log'[l][k] = log[l][k]
    BY <1>3 DEF LogsGrow
  <2>2. QED  BY <1>1, <1>3, <2>1 DEF RefusedSetAside
<1>4. QED  BY <1>2, <1>3

(* The logs stay in order when what is added fits.                         *)
LEMMA RecordsKept ==
  ASSUME LogsOK, RecordsOK, Originals, EndsBehind, LogsOK', LogsGrow, NewRecordsFit
  PROVE  RecordsOK' /\ Originals' /\ EndsBehind'
<1>1. \A l \in Lanes : /\ DOMAIN log[l] = 1..Len(log[l]) /\ Len(log[l]) \in Nat
                       /\ DOMAIN log'[l] = 1..Len(log'[l]) /\ Len(log'[l]) \in Nat
  BY LanePositions DEF LogsOK
<1>2. ASSUME NEW l \in Lanes, NEW k \in DOMAIN log'[l]
      PROVE  /\ log'[l][k] \in Records(l[1], log'[l][k].at)
             /\ log'[l][k].at \in Nat
             /\ IF log'[l][k].wire = "good" THEN LaneOf(l[1], log'[l][k]) = l
                ELSE HasOriginal(l[1], log'[l][k])
             /\ \A op : log'[l][k].wire = "good" /\ log'[l][k].id = <<"end", op>> =>
                  \E j \in 1..(k - 1) :
                    log'[l][j].wire = "good" /\ log'[l][j].id = <<"progress", op>>
  <2>1. CASE k \in DOMAIN log[l]
    <3>1. \A j \in 1..(k - 1) : j \in DOMAIN log[l]
      BY <1>1, <2>1
    <3>2. log'[l][k] = log[l][k] /\ \A j \in 1..(k - 1) : log'[l][j] = log[l][j]
      BY <2>1, <3>1 DEF LogsGrow
    <3>3. /\ log[l][k] \in Records(l[1], log[l][k].at)
          /\ log[l][k].at \in Nat
          /\ log[l][k].wire = "good" => LaneOf(l[1], log[l][k]) = l
      BY <2>1 DEF RecordsOK
    <3>4. HasOriginal(l[1], log[l][k])
      BY <2>1 DEF Originals
    <3>5. \A op : log[l][k].wire = "good" /\ log[l][k].id = <<"end", op>> =>
            \E j \in 1..(k - 1) : log[l][j].wire = "good" /\ log[l][j].id = <<"progress", op>>
      BY <2>1 DEF EndsBehind
    <3>6. QED  BY <3>2, <3>3, <3>4, <3>5
  <2>2. CASE k = Len(log[l]) + 1 /\ Fits(l, log'[l][k])
    <3>1. DOMAIN log[l] = 1..(k - 1)
      BY <1>1, <2>2
    <3>2. \A j \in DOMAIN log[l] : log'[l][j] = log[l][j]
      BY DEF LogsGrow
    <3>3. QED  BY <2>2, <3>1, <3>2 DEF Fits
  <2>3. QED  BY <2>1, <2>2 DEF NewRecordsFit
<1>3. RecordsOK' /\ EndsBehind'
  BY <1>2 DEF RecordsOK, EndsBehind
<1>4. Originals'
  <2>1. SUFFICES ASSUME NEW l \in Lanes, NEW k \in DOMAIN log'[l],
                        NEW d, d = LaneOf(l[1], log'[l][k])
                 PROVE  \E j \in DOMAIN log'[d] :
                          log'[d][j].wire = "good" /\ log'[d][j].id = log'[l][k].id
    BY DEF Originals, HasOriginal, LaneOf
  <2>2. CASE log'[l][k].wire = "good"
    BY <1>2, <2>1, <2>2
  <2>3. CASE log'[l][k].wire # "good"
    <3>1. PICK j \in DOMAIN log[d] : log[d][j].wire = "good" /\ log[d][j].id = log'[l][k].id
      BY <1>2, <2>1, <2>3 DEF HasOriginal
    <3>2. d \in Lanes
      BY <1>2, <2>1, LaneInLanes DEF Lanes
    <3>3. log'[d][j] = log[d][j] /\ j \in DOMAIN log'[d]
      BY <1>1, <3>2 DEF LogsGrow
    <3>4. QED  BY <3>1, <3>3
  <2>4. QED  BY <2>2, <2>3
<1>5. QED  BY <1>3, <1>4

(* Understood records stay so when only refused ones are given up.         *)
LEMMA UnderstoodKept ==
  ASSUME LogsGrow, NewRecordsFit, OwnRecordsUnderstood,
         \A l \in Lanes : \A k \in DOMAIN log[l] :
           \/ fate'[l][k] = fate[l][k] \/ fate'[l][k] \notin {"quarantined", "dead_lettered"}
           \/ log[l][k].wire = "good" =>
                \E f \in DOMAIN log[l][k].data : log[l][k].data[f] = "bad"
  PROVE  OwnRecordsUnderstood'
<1>1. SUFFICES ASSUME NEW l \in Lanes, NEW k \in DOMAIN log'[l],
                      log'[l][k].wire = "good",
                      fate'[l][k] \in {"quarantined", "dead_lettered"}
               PROVE  \E f \in DOMAIN log'[l][k].data : log'[l][k].data[f] = "bad"
  BY DEF OwnRecordsUnderstood
<1>2. k \in DOMAIN log[l]
  BY <1>1 DEF NewRecordsFit
<1>3. log'[l][k] = log[l][k]
  BY <1>2 DEF LogsGrow
<1>4. QED  BY <1>1, <1>2, <1>3 DEF OwnRecordsUnderstood

(* Settled events keep their receipts.                                     *)
LEMMA ReceiptsKept ==
  ASSUME LogsGrow, NewRecordsFit, SettledHaveReceipts,
         inbox["events"] \subseteq inbox'["events"],
         \A l \in Lanes : \A k \in DOMAIN log[l] :
           l[1] = "events" /\ log[l][k].wire = "good" =>
             fate'[l][k] = fate[l][k] \/ log[l][k].id \in inbox'["events"]
  PROVE  SettledHaveReceipts'
<1>1. SUFFICES ASSUME NEW l \in Lanes, l[1] = "events", NEW k \in DOMAIN log'[l],
                      log'[l][k].wire = "good", fate'[l][k] # "none"
               PROVE  log'[l][k].id \in inbox'["events"]
  BY DEF SettledHaveReceipts
<1>2. k \in DOMAIN log[l]
  BY <1>1 DEF NewRecordsFit
<1>3. log'[l][k] = log[l][k]
  BY <1>2 DEF LogsGrow
<1>4. QED  BY <1>1, <1>2, <1>3 DEF SettledHaveReceipts

ReadModelOK == AppliedHaveReceipts /\ ProgressApplied /\ EventsInOrder

(* An event is applied on its first delivery.                              *)
LEMMA ApplyKeeps ==
  ASSUME StoresOK, ReadModelOK, SetAsideStays, NEW id \in Ids, id \notin inbox["events"],
         inbox'["events"] = inbox["events"] \cup {id},
         applied'["events"] = Append(applied["events"], id),
         NEW op, id \in {<<"progress", op>>, <<"end", op>>},
         id = <<"end", op>> => <<"progress", op>> \in inbox["events"]
  PROVE  ReadModelOK'
<1> DEFINE a == applied["events"]
           b == applied'["events"]
           n == Len(a) + 1
<1>1. a \in Seq(Ids)
  BY DEF StoresOK, Topics
<1>2. /\ Len(a) \in Nat /\ DOMAIN a = 1..Len(a) /\ DOMAIN b = DOMAIN a \cup {n}
      /\ b[n] = id /\ \A k \in DOMAIN a : b[k] = a[k]
  BY <1>1, ExtendedSeq
<1>3. \A k \in DOMAIN a : a[k] \in inbox["events"]
  BY DEF ReadModelOK, AppliedHaveReceipts
<1>4. AppliedHaveReceipts'
  BY <1>2, <1>3 DEF AppliedHaveReceipts
<1>5. ASSUME NEW q, <<"progress", q>> \in inbox["events"]
      PROVE  \/ \E k \in DOMAIN a : a[k] = <<"progress", q>>
             \/ Quarantined("events", <<"progress", q>>)'
  BY <1>5 DEF ReadModelOK, ProgressApplied, SetAsideStays
<1> HIDE DEF b
<1>6. ProgressApplied'
  <2>1. SUFFICES ASSUME NEW q, <<"progress", q>> \in inbox'["events"]
                 PROVE  \/ \E k \in DOMAIN b : b[k] = <<"progress", q>>
                        \/ Quarantined("events", <<"progress", q>>)'
    BY DEF ProgressApplied, b
  <2>2. CASE <<"progress", q>> = id
    BY <1>2, <2>2
  <2>3. CASE <<"progress", q>> \in inbox["events"]
    BY <1>2, <1>5, <2>3
  <2>4. QED  BY <2>1, <2>2, <2>3
<1>7. EventsInOrder'
  <2>1. SUFFICES ASSUME NEW k \in DOMAIN b
                 PROVE  /\ \A j \in 1..(k - 1) : b[j] # b[k]
                        /\ b[k][1] = "end" =>
                             \/ \E j \in 1..(k - 1) : b[j] = <<"progress", b[k][2]>>
                             \/ \E x : x = <<"progress", b[k][2]>> /\ Quarantined("events", x)'
    BY DEF EventsInOrder, b
  <2>2. CASE k \in DOMAIN a
    <3>1. \A j \in 1..(k - 1) : j \in DOMAIN a
      BY <1>2, <2>2
    <3>2. b[k] = a[k] /\ \A j \in 1..(k - 1) : b[j] = a[j]
      BY <1>2, <2>2, <3>1
    <3>3. /\ \A j \in 1..(k - 1) : a[j] # a[k]
          /\ a[k][1] = "end" => \/ \E j \in 1..(k - 1) : a[j] = <<"progress", a[k][2]>>
                                \/ \E x : x = <<"progress", a[k][2]>> /\ Quarantined("events", x)'
      BY <2>2 DEF ReadModelOK, EventsInOrder, SetAsideStays
    <3>4. QED  BY <3>2, <3>3
  <2>3. CASE k = n
    <3>1. 1..(k - 1) = DOMAIN a
      BY <1>2, <2>3
    <3>2. \A j \in 1..(k - 1) : b[j] # b[k]
      BY <1>2, <1>3, <2>3, <3>1
    <3>3. ASSUME b[k][1] = "end"
          PROVE  \/ \E j \in 1..(k - 1) : b[j] = <<"progress", b[k][2]>>
                 \/ \E x : x = <<"progress", b[k][2]>> /\ Quarantined("events", x)'
      <4>1. id = <<"end", op>> /\ b[k][2] = op
        BY <1>2, <2>3, <3>3
      <4>2. \/ \E j \in DOMAIN a : a[j] = <<"progress", op>>
            \/ Quarantined("events", <<"progress", op>>)'
        BY <1>5, <4>1
      <4>3. QED  BY <1>2, <3>1, <4>1, <4>2
    <3>4. QED  BY <3>2, <3>3
  <2>4. QED  BY <1>2, <2>2, <2>3
<1>8. QED  BY <1>4, <1>6, <1>7 DEF ReadModelOK

(* A quarantined event takes a receipt, its own or the one its original    *)
(* would have taken.                                                       *)
LEMMA QuarantineKeeps ==
  ASSUME ReadModelOK, SetAsideStays, inbox["events"] \subseteq inbox'["events"],
         applied'["events"] = applied["events"],
         \A op : <<"progress", op>> \in inbox'["events"] =>
           \/ <<"progress", op>> \in inbox["events"]
           \/ Quarantined("events", <<"progress", op>>)'
  PROVE  ReadModelOK'
<1>1. AppliedHaveReceipts'
  BY DEF ReadModelOK, AppliedHaveReceipts
<1>2. ProgressApplied'
  BY DEF ReadModelOK, ProgressApplied, SetAsideStays
<1>3. EventsInOrder'
  BY DEF ReadModelOK, EventsInOrder, SetAsideStays
<1>4. QED  BY <1>1, <1>2, <1>3 DEF ReadModelOK

-----------------------------------------------------------------------------
(* The producers.                                                          *)

(* A record that fits is published.                                        *)
LEMMA PublishPreserves ==
  ASSUME IInv, NEW l \in Lanes, NEW r, Fits(l, r), Extend(l, r),
         UNCHANGED <<groupVars, inbox, applied>>, clock' \in Nat
  PROVE  IInv'
<1>1. LogsOK' /\ LogsGrow /\ NewRecordsFit /\ \A j, k, v : MarkedOnly(j, k, v)
  BY ExtendGrows DEF IInv, DeliveryInv
<1>2. /\ committed' = committed /\ owner' = owner /\ epoch' = epoch /\ worker' = worker
      /\ inbox' = inbox /\ applied' = applied
  BY DEF groupVars
<1>3. DeliveryInv'
  <2>1. \A j \in Lanes, m \in Members : WorkerFollows(j, m)
    BY <1>2 DEF WorkerFollows, Busy
  <2>2. worker' \in [Lanes -> [Members -> WorkerStates]]
    BY <1>2 DEF IInv, DeliveryInv, WorkersOK
  <2>3. QED  BY <1>1, <1>2, <2>1, <2>2, DeliveryKept DEF IInv
<1>4. RecordsOK' /\ Originals' /\ EndsBehind'
  BY <1>1, RecordsKept DEF IInv, DeliveryInv
<1>5. \A j \in Lanes : \A k \in DOMAIN log[j] : fate'[j][k] = fate[j][k]
  <2>1. MarkedOnly(l, 0, 0) /\ MarkedOnly(l, 0, 1)
    BY <1>1
  <2>2. QED  BY <2>1 DEF MarkedOnly
<1>6. OwnRecordsUnderstood' /\ RefusedSetAside'
  BY <1>1, <1>5, UnderstoodKept, RefusedKept DEF IInv
<1>7. SettledHaveReceipts'
  BY <1>1, <1>2, <1>5, ReceiptsKept DEF IInv
<1>8. StoresOK'
  BY <1>2 DEF IInv, StoresOK
<1>9. ReadModelOK'
  <2>1. SetAsideStays
    BY <1>1, <1>5, SetAsideKept DEF IInv, DeliveryInv, FatesStay
  <2>2. QED  BY <1>2, <2>1, QuarantineKeeps DEF IInv, ReadModelOK
<1>10. QED  BY <1>3, <1>4, <1>6, <1>7, <1>8, <1>9 DEF IInv, ReadModelOK

(* Debezium puts a written record into the lane of its instance.           *)
LEMMA WrittenFits ==
  ASSUME NEW topic \in Topics, NEW at \in Nat, NEW r \in Written(topic, at),
         NEW l, l = LaneOf(topic, r),
         \A op : r.id = <<"end", op>> =>
           \E j \in DOMAIN log[l] : log[l][j].wire = "good" /\ log[l][j].id = <<"progress", op>>
  PROVE  l \in Lanes /\ Fits(l, r)
<1>1. r \in Records(topic, at) /\ r.wire = "good"
  BY WrittenRecord
<1>2. r.at = at /\ r.instance \in Instances
  BY <1>1, RecordShape
<1>3. l = <<topic, PartitionOf[r.instance]>> /\ PartitionOf[r.instance] \in Partitions
  BY <1>2, IntakeAssumption DEF LaneOf
<1>4. l \in Lanes /\ l[1] = topic /\ LaneOf(l[1], r) = l
  BY <1>3 DEF Lanes, LaneOf
<1>5. QED  BY <1>1, <1>2, <1>4 DEF Fits

(* A workflow's progress, of which a record is found anywhere, is in the   *)
(* lane of its end.                                                        *)
LEMMA ProgressLane ==
  ASSUME RecordsOK, Originals, NEW c \in Commands, InLog(<<"progress", c.op>>),
         NEW l, l = <<"events", PartitionOf[c.instance]>>
  PROVE  \E j \in DOMAIN log[l] : log[l][j].wire = "good" /\ log[l][j].id = <<"progress", c.op>>
<1>1. PICK k \in Lanes : \E j \in DOMAIN log[k] : log[k][j].id = <<"progress", c.op>>
  BY DEF InLog
<1>2. PICK j \in DOMAIN log[k] : log[k][j].id = <<"progress", c.op>>
  BY <1>1
<1>3. /\ log[k][j] \in Records(k[1], log[k][j].at) /\ HasOriginal(k[1], log[k][j])
      /\ k[1] \in Topics
  BY <1>2 DEF RecordsOK, Originals, Lanes
<1>4. k[1] = "events"
  <2>1. log[k][j].id \in {<<"progress", c.op>>, <<"end", c.op>>}
    BY <1>2
  <2>2. k[1] # "events" => \A op : log[k][j].id \notin {<<"progress", op>>, <<"end", op>>}
    BY <1>3, RecordShape
  <2>3. QED  BY <2>1, <2>2
<1>5. PICK d \in Commands : /\ log[k][j].instance = d.instance
                            /\ log[k][j].id \in {<<"progress", d.op>>, <<"end", d.op>>}
  BY <1>3, <1>4, RecordShape
<1>6. d.op = c.op
  BY <1>2, <1>5
<1>7. d = c
  BY <1>6, IntakeAssumption
<1>8. l = LaneOf(k[1], log[k][j])
  BY <1>4, <1>5, <1>7 DEF LaneOf
<1>9. QED  BY <1>2, <1>3, <1>8 DEF HasOriginal

(* Every producer publishes what fits.                                     *)
LEMMA ProducersPreserve ==
  ASSUME IInv,
         \/ \E c \in Commands : Accept(c) \/ Progress(c) \/ End(c)
         \/ \E i \in Drifting : DetectDrift(i)
  PROVE  IInv'
<1>1. clock \in Nat /\ RecordsOK /\ Originals
  BY DEF IInv, DeliveryInv, WorkersOK
<1>2. ASSUME NEW c \in Commands, Accept(c)  PROVE IInv'
  <2> DEFINE r == CommandRecord(c, clock')
             l == LaneOf("commands", r)
  <2>1. clock' \in Nat /\ Extend(l, r) /\ UNCHANGED <<groupVars, inbox, applied>>
    BY <1>1, <1>2 DEF Accept, Passes, Publish
  <2>2. r \in Written("commands", clock')
    BY DEF Written
  <2>3. \A op : r.id # <<"end", op>>
    <3>1. r.id = <<"command", c.op>>
      BY DEF CommandRecord, Envelope
    <3>2. QED  BY <3>1
  <2>4. l \in Lanes /\ Fits(l, r)
    <3> HIDE DEF r
    <3>1. QED  BY <2>1, <2>2, <2>3, WrittenFits DEF Topics
  <2> HIDE DEF l, r
  <2>5. QED  BY <2>1, <2>4, PublishPreserves
<1>3. ASSUME NEW c \in Commands, Progress(c)  PROVE IInv'
  <2> DEFINE r == ProgressRecord(c, clock')
             l == LaneOf("events", r)
  <2>1. clock' \in Nat /\ Extend(l, r) /\ UNCHANGED <<groupVars, inbox, applied>>
    BY <1>1, <1>3 DEF Progress, Passes, Publish, storeVars
  <2>2. r \in Written("events", clock')
    BY DEF Written
  <2>3. \A op : r.id # <<"end", op>>
    <3>1. r.id = <<"progress", c.op>>
      BY DEF ProgressRecord, Envelope
    <3>2. QED  BY <3>1
  <2>4. l \in Lanes /\ Fits(l, r)
    <3> HIDE DEF r
    <3>1. QED  BY <2>1, <2>2, <2>3, WrittenFits DEF Topics
  <2> HIDE DEF l, r
  <2>5. QED  BY <2>1, <2>4, PublishPreserves
<1>4. ASSUME NEW c \in Commands, End(c)  PROVE IInv'
  <2>1. PICK schema \in EndSchemas, measured \in {"ok", "bad"} :
          Publish("events", EndRecord(c, schema, measured, clock'))
    BY <1>4 DEF End, EndSchemas, Measured
  <2> DEFINE r == EndRecord(c, schema, measured, clock')
             l == LaneOf("events", r)
  <2>2. clock' \in Nat /\ Extend(l, r) /\ UNCHANGED <<groupVars, inbox, applied>>
    BY <1>1, <1>4, <2>1 DEF End, Passes, Publish, storeVars
  <2>3. r \in Written("events", clock')
    BY DEF Written
  <2>4. r.id = <<"end", c.op>> /\ l = <<"events", PartitionOf[c.instance]>>
    BY DEF EndRecord, Envelope, LaneOf
  <2>5. \A op : r.id = <<"end", op>> =>
          \E j \in DOMAIN log[l] : log[l][j].wire = "good" /\ log[l][j].id = <<"progress", op>>
    <3>1. InLog(<<"progress", c.op>>)
      BY <1>4 DEF End
    <3> HIDE DEF l, r
    <3>2. \E j \in DOMAIN log[l] :
            log[l][j].wire = "good" /\ log[l][j].id = <<"progress", c.op>>
      BY <1>1, <2>4, <3>1, ProgressLane
    <3>3. QED  BY <2>4, <3>2
  <2>6. l \in Lanes /\ Fits(l, r)
    <3> HIDE DEF r
    <3>1. QED  BY <2>2, <2>3, <2>5, WrittenFits DEF Topics
  <2> HIDE DEF l, r
  <2>7. QED  BY <2>2, <2>6, PublishPreserves
<1>5. ASSUME NEW i \in Drifting, DetectDrift(i)  PROVE IInv'
  <2> DEFINE r == DriftRecord(i, clock')
             l == LaneOf("drift", r)
  <2>1. clock' \in Nat /\ Extend(l, r) /\ UNCHANGED <<groupVars, inbox, applied>>
    BY <1>1, <1>5 DEF DetectDrift, Passes, Publish, storeVars
  <2>2. r \in Written("drift", clock')
    BY DEF Written
  <2>3. \A op : r.id # <<"end", op>>
    <3>1. r.id = <<"drift", i>>
      BY DEF DriftRecord, Envelope
    <3>2. QED  BY <3>1
  <2>4. l \in Lanes /\ Fits(l, r)
    <3> HIDE DEF r
    <3>1. QED  BY <2>1, <2>2, <2>3, WrittenFits DEF Topics
  <2> HIDE DEF l, r
  <2>5. QED  BY <2>1, <2>4, PublishPreserves
<1>6. QED  BY <1>2, <1>3, <1>4, <1>5, Zenon

(* A copy of a record fits behind it, and a damaged one in any lane of its *)
(* topic.                                                                  *)
LEMMA CopiesPreserve ==
  ASSUME IInv, NEW l \in Lanes, NEW k \in DOMAIN log[l],
         \/ PublishAgain(l, k)
         \/ \E wire \in Junk, p \in Partitions : PublishJunk(<<l[1], p>>, wire, log[l][k])
  PROVE  IInv'
<1> DEFINE q == log[l][k]
<1>1. /\ clock \in Nat /\ l[1] \in Topics
      /\ q \in Records(l[1], q.at) /\ q.at \in Nat
      /\ q.wire = "good" => LaneOf(l[1], q) = l
  BY DEF IInv, DeliveryInv, WorkersOK, RecordsOK, Lanes
<1>2. DOMAIN log[l] = 1..Len(log[l]) /\ Len(log[l]) \in Nat
  BY LanePositions DEF IInv, DeliveryInv
<1>3. \A j \in 1..(k - 1) : j \in DOMAIN log[l]
  BY <1>2
<1>4. /\ HasOriginal(l[1], q)
      /\ \A op : q.wire = "good" /\ q.id = <<"end", op>> =>
           \E j \in DOMAIN log[l] : log[l][j].wire = "good" /\ log[l][j].id = <<"progress", op>>
  BY <1>3 DEF IInv, Originals, EndsBehind
<1>5. CASE PublishAgain(l, k)
  <2>1. /\ Extend(l, q) /\ q.wire = "good"
        /\ UNCHANGED <<groupVars, inbox, applied>> /\ clock' = clock
    BY <1>5 DEF PublishAgain, storeVars
  <2>2. Fits(l, q)
    BY <1>1, <1>4, <2>1 DEF Fits
  <2> HIDE DEF q
  <2>3. QED  BY <1>1, <2>1, <2>2, PublishPreserves
<1>6. ASSUME NEW wire \in Junk, NEW p \in Partitions, PublishJunk(<<l[1], p>>, wire, q)
      PROVE  IInv'
  <2> DEFINE r == [q EXCEPT !.wire = wire]
             d == <<l[1], p>>
  <2>1. Extend(d, r) /\ UNCHANGED <<groupVars, inbox, applied>> /\ clock' = clock
    BY <1>6 DEF PublishJunk, storeVars
  <2>2. wire \in Wires /\ wire # "good"
    BY IntakeAssumption
  <2>3. d \in Lanes /\ d[1] = l[1]
    BY <1>1 DEF Lanes
  <2> HIDE DEF q, d
  <2>4. /\ r \in Records(l[1], q.at) /\ r.id = q.id /\ r.instance = q.instance
        /\ r.wire = wire
    BY <1>1, <2>2, RecordShape
  <2> HIDE DEF r
  <2>5. r.at = q.at
    BY <1>1, <2>4, RecordShape
  <2>6. HasOriginal(d[1], r)
    BY <1>4, <2>3, <2>4 DEF HasOriginal, LaneOf
  <2>7. Fits(d, r)
    BY <1>1, <2>2, <2>3, <2>4, <2>5, <2>6 DEF Fits
  <2>8. QED  BY <1>1, <2>1, <2>3, <2>7, PublishPreserves
<1>7. QED  BY <1>5, <1>6

-----------------------------------------------------------------------------
(* The consumers.                                                          *)

(* The record a member works on.                                           *)
LEMMA AtWork ==
  ASSUME IInv, NEW l \in Lanes, NEW m \in Members, Busy(l, m),
         NEW n, n = worker[l][m].off
  PROVE  /\ n \in DOMAIN log[l] /\ l[1] \in Topics
         /\ log[l][n] \in Records(l[1], log[l][n].at) /\ log[l][n].at \in Nat
         /\ log[l][n] \in AllRecords /\ log[l][n].id \in Ids
         /\ \A k \in 1..(n - 1) : k \in DOMAIN log[l] /\ fate[l][k] # "none"
<1>1. /\ DOMAIN log[l] = 1..Len(log[l]) /\ Len(log[l]) \in Nat
      /\ committed[l] \in Nat /\ l[1] \in Topics
  BY LanePositions DEF IInv, DeliveryInv, WorkersOK, Lanes
<1>2. n \in 1..Len(log[l]) /\ n <= committed[l] + 1
  BY DEF IInv, DeliveryInv, OffsetsOK
<1>3. log[l][n] \in Records(l[1], log[l][n].at) /\ log[l][n].at \in Nat
  BY <1>1, <1>2 DEF IInv, RecordsOK
<1>4. log[l][n] \in AllRecords
  BY <1>1, <1>3 DEF AllRecords
<1>5. \A k \in 1..(n - 1) : k \in DOMAIN log[l] /\ k \in 1..committed[l]
  BY <1>1, <1>2
<1>6. \A k \in 1..(n - 1) : fate[l][k] # "none"
  BY <1>5 DEF IInv, DeliveryInv, NothingSkipped
<1>7. QED  BY <1>1, <1>2, <1>3, <1>4, <1>5, <1>6 DEF Ids

(* Whatever an outbox put before it in a lane of events has its receipt.   *)
LEMMA EarlierHaveReceipts ==
  ASSUME IInv, NEW l \in Lanes, l[1] = "events", NEW m \in Members, Busy(l, m),
         NEW k \in 1..(worker[l][m].off - 1), log[l][k].wire = "good"
  PROVE  log[l][k].id \in inbox["events"]
<1>1. \A j \in 1..(worker[l][m].off - 1) : j \in DOMAIN log[l] /\ fate[l][j] # "none"
  BY AtWork
<1>2. QED  BY <1>1 DEF IInv, SettledHaveReceipts

(* A member is done with a record once something was made of it.           *)
LEMMA DoneDelivers ==
  ASSUME IInv, NEW l \in Lanes, NEW m \in Members, Busy(l, m), Done(l, m),
         UNCHANGED <<committed, owner, epoch, clock>>,
         LogsOK', LogsGrow, fate'[l][worker[l][m].off] # "none"
  PROVE  DeliveryInv'
<1>1. worker \in [Lanes -> [Members -> WorkerStates]] /\ clock \in Nat
  BY DEF IInv, DeliveryInv, WorkersOK
<1>2. worker[l][m] \in WorkerStates
  BY <1>1
<1> DEFINE w == [worker[l][m] EXCEPT !.phase = "done"]
<1>3. /\ w \in WorkerStates /\ w.off = worker[l][m].off /\ w.epoch = worker[l][m].epoch
      /\ w.phase = "done"
  BY <1>2 DEF WorkerStates
<1>4. worker' = [worker EXCEPT ![l][m] = w]
  BY DEF Done
<1> HIDE DEF w
<1>5. /\ worker' \in [Lanes -> [Members -> WorkerStates]] /\ worker'[l][m] = w
      /\ \A k \in Lanes, n \in Members : <<k, n>> # <<l, m>> => worker'[k][n] = worker[k][n]
  BY <1>1, <1>3, <1>4
<1>6. ASSUME NEW k \in Lanes, NEW n \in Members  PROVE WorkerFollows(k, n)
  <2>1. CASE k = l /\ n = m
    BY <1>3, <1>5, <2>1 DEF WorkerFollows
  <2>2. CASE <<k, n>> # <<l, m>>
    BY <1>5, <2>2 DEF WorkerFollows, Busy
  <2>3. QED  BY <2>1, <2>2
<1>7. QED  BY <1>1, <1>5, <1>6, DeliveryKept DEF IInv

(* What Settle writes.                                                     *)
LEMMA SettleGrows ==
  ASSUME IInv, NEW l \in Lanes, NEW m \in Members, Busy(l, m),
         NEW outcome \in Fates, outcome # "none", Settle(l, m, outcome), log' = log
  PROVE  /\ LogsOK' /\ LogsGrow /\ NewRecordsFit
         /\ MarkedOnly(l, worker[l][m].off, outcome)
         /\ fate'[l][worker[l][m].off] # "none"
         /\ fate'[l][worker[l][m].off] \in {outcome, fate[l][worker[l][m].off]}
         /\ SetAsideStays
<1> DEFINE n == worker[l][m].off
           v == IF fate[l][n] = "none" THEN outcome ELSE fate[l][n]
<1>1. n \in DOMAIN log[l] /\ LogsOK
  BY AtWork DEF IInv, DeliveryInv
<1>2. v \in Fates /\ v # "none"
  <2>1. fate[l][n] \in Fates
    BY <1>1, LanePositions
  <2>2. QED  BY <2>1
<1>3. fate' = [fate EXCEPT ![l][n] = v]
  BY DEF Settle
<1> HIDE DEF v, n
<1>4. /\ LogsOK' /\ LogsGrow /\ NewRecordsFit /\ MarkedOnly(l, n, v) /\ fate'[l][n] = v
  BY <1>1, <1>2, <1>3, MarkGrows
<1>5. MarkedOnly(l, n, outcome) /\ FatesStay
  BY <1>4 DEF MarkedOnly, FatesStay, v
<1>6. SetAsideStays
  BY <1>1, <1>4, <1>5, SetAsideKept
<1>7. fate'[l][n] \in {outcome, fate[l][n]}
  BY <1>4 DEF v
<1>8. QED  BY <1>2, <1>4, <1>5, <1>6, <1>7 DEF n

(* A first delivery is applied, a later one has its receipt.               *)
LEMMA HandlePreserves ==
  ASSUME IInv, NEW l \in Lanes, NEW m \in Members, Handle(l, m)
  PROVE  IInv'
<1> DEFINE n == worker[l][m].off
           r == log[l][n]
<1>1. /\ Busy(l, m) /\ Apply(l, m, r) /\ Done(l, m) /\ log' = log
      /\ Raised(l[1], r) = "none"
      /\ UNCHANGED <<committed, owner, epoch, clock>>
  BY DEF Handle, Busy, Current
<1>2. /\ n \in DOMAIN log[l] /\ l[1] \in Topics
      /\ r \in Records(l[1], r.at) /\ r.id \in Ids
      /\ \A k \in 1..(n - 1) : k \in DOMAIN log[l] /\ fate[l][k] # "none"
  BY <1>1, AtWork
<1>3. inbox \in [Topics -> SUBSET Ids] /\ applied \in [Topics -> Seq(Ids)]
  BY DEF IInv, StoresOK
<1>4. ASSUME NEW outcome \in {"applied", "duplicate"}, Settle(l, m, outcome),
             inbox["events"] \subseteq inbox'["events"],
             l[1] = "events" => r.id \in inbox'["events"]
      PROVE  /\ DeliveryInv' /\ RecordsOK' /\ Originals' /\ EndsBehind' /\ RefusedSetAside'
             /\ OwnRecordsUnderstood' /\ SettledHaveReceipts' /\ SetAsideStays
  <2>1. /\ LogsOK' /\ LogsGrow /\ NewRecordsFit /\ MarkedOnly(l, n, outcome)
        /\ fate'[l][n] # "none" /\ SetAsideStays
    BY <1>1, <1>4, SettleGrows DEF Fates
  <2>2. DeliveryInv'
    BY <1>1, <2>1, DoneDelivers
  <2>3. RecordsOK' /\ Originals' /\ EndsBehind'
    BY <2>1, RecordsKept DEF IInv, DeliveryInv
  <2>4. OwnRecordsUnderstood'
    <3>1. \A k \in Lanes : \A j \in DOMAIN log[k] :
            fate'[k][j] = fate[k][j] \/ fate'[k][j] \notin {"quarantined", "dead_lettered"}
      BY <1>4, <2>1 DEF MarkedOnly
    <3>2. QED  BY <2>1, <3>1, UnderstoodKept DEF IInv
  <2>5. SettledHaveReceipts'
    <3>1. \A k \in Lanes : \A j \in DOMAIN log[k] :
            k[1] = "events" /\ log[k][j].wire = "good" =>
              fate'[k][j] = fate[k][j] \/ log[k][j].id \in inbox'["events"]
      BY <1>4, <2>1 DEF MarkedOnly
    <3>2. QED  BY <1>4, <2>1, <3>1, ReceiptsKept DEF IInv
  <2>6. RefusedSetAside'
    <3>1. \A k \in Lanes : k[1] = "events" => \A j \in DOMAIN log[k] :
            fate'[k][j] = fate[k][j] \/ Raised("events", log[k][j]) = "none"
      BY <1>1, <2>1 DEF MarkedOnly
    <3>2. QED  BY <2>1, <3>1, RefusedKept DEF IInv
  <2>7. QED  BY <2>1, <2>2, <2>3, <2>4, <2>5, <2>6
<1>5. CASE InsertReceipt(l[1], r)
  <2>1. /\ inbox' = [inbox EXCEPT ![l[1]] = @ \cup {r.id}]
        /\ applied' = [applied EXCEPT ![l[1]] = Append(@, r.id)]
        /\ Settle(l, m, "applied") /\ r.id \notin inbox[l[1]]
    BY <1>1, <1>5 DEF Apply, InsertReceipt
  <2>2. inbox["events"] \subseteq inbox'["events"] /\ r.id \in inbox'[l[1]]
    BY <1>2, <1>3, <2>1 DEF Topics
  <2>3. /\ DeliveryInv' /\ RecordsOK' /\ Originals' /\ EndsBehind' /\ RefusedSetAside'
        /\ OwnRecordsUnderstood' /\ SettledHaveReceipts' /\ SetAsideStays
    BY <1>4, <2>1, <2>2
  <2>4. StoresOK'
    <3>1. Append(applied[l[1]], r.id) \in Seq(Ids)
      BY <1>2, <1>3
    <3> HIDE DEF r
    <3>2. QED  BY <1>2, <1>3, <2>1, <3>1 DEF StoresOK
  <2>5. ReadModelOK'
    <3>1. CASE l[1] = "events"
      <4>1. /\ inbox'["events"] = inbox["events"] \cup {r.id}
            /\ applied'["events"] = Append(applied["events"], r.id)
            /\ r.id \notin inbox["events"]
        BY <1>2, <1>3, <2>1, <3>1
      <4>2. PICK c \in Commands : r.id \in {<<"progress", c.op>>, <<"end", c.op>>}
        BY <1>2, <3>1, RecordShape
      <4>3. r.id = <<"end", c.op>> => <<"progress", c.op>> \in inbox["events"]
        <5>1. SUFFICES ASSUME r.id = <<"end", c.op>>
                       PROVE  <<"progress", c.op>> \in inbox["events"]
          OBVIOUS
        <5>2. r.wire = "good"
          <6> HIDE DEF r
          <6>1. decodeError(r) = "none" /\ r.wire \in Wires
            BY <1>1, <1>2, RecordShape DEF Raised
          <6>2. QED  BY <6>1, GoodDecodes
        <5>3. PICK j \in 1..(n - 1) :
                log[l][j].wire = "good" /\ log[l][j].id = <<"progress", c.op>>
          BY <1>2, <5>1, <5>2 DEF IInv, EndsBehind
        <5>4. log[l][j].id \in inbox["events"]
          BY <1>1, <3>1, <5>3, EarlierHaveReceipts
        <5>5. QED  BY <5>3, <5>4
      <4> HIDE DEF r
      <4>4. QED  BY <1>2, <2>3, <4>1, <4>2, <4>3, ApplyKeeps DEF IInv, ReadModelOK
    <3>2. CASE l[1] # "events"
      <4>1. inbox'["events"] = inbox["events"] /\ applied'["events"] = applied["events"]
        BY <1>3, <2>1, <3>2 DEF Topics
      <4>2. QED  BY <2>3, <4>1, QuarantineKeeps DEF IInv, ReadModelOK
    <3>3. QED  BY <3>1, <3>2
  <2>6. QED  BY <2>3, <2>4, <2>5 DEF IInv, ReadModelOK
<1>6. CASE ~InsertReceipt(l[1], r)
  <2>1. /\ inbox' = inbox /\ applied' = applied
        /\ Settle(l, m, "duplicate") /\ r.id \in inbox[l[1]]
    BY <1>1, <1>6 DEF Apply, InsertReceipt, storeVars
  <2>2. /\ DeliveryInv' /\ RecordsOK' /\ Originals' /\ EndsBehind' /\ RefusedSetAside'
        /\ OwnRecordsUnderstood' /\ SettledHaveReceipts' /\ SetAsideStays
    BY <1>4, <2>1
  <2>3. StoresOK'
    BY <1>3, <2>1 DEF StoresOK
  <2>4. ReadModelOK'
    BY <2>1, <2>2, QuarantineKeeps DEF IInv, ReadModelOK
  <2>5. QED  BY <2>2, <2>3, <2>4 DEF IInv, ReadModelOK
<1>7. QED  BY <1>5, <1>6

(* A record whose attempts are used up is quarantined or dead-lettered.    *)
LEMMA ExhaustedPreserves ==
  ASSUME IInv, NEW l \in Lanes, NEW m \in Members, Busy(l, m),
         Raised(l[1], Current(l, m)) # "none", Exhausted(l, m, Current(l, m)),
         Done(l, m), UNCHANGED <<committed, owner, epoch, clock>>
  PROVE  IInv'
<1> DEFINE n == worker[l][m].off
           r == log[l][n]
<1>1. /\ n \in DOMAIN log[l] /\ l[1] \in Topics
      /\ r \in Records(l[1], r.at) /\ r.at \in Nat /\ r.id \in Ids
      /\ \A k \in 1..(n - 1) : k \in DOMAIN log[l] /\ fate[l][k] # "none"
  BY AtWork
<1>2. /\ inbox \in [Topics -> SUBSET Ids] /\ applied \in [Topics -> Seq(Ids)]
      /\ clock \in Nat /\ LogsOK
  BY DEF IInv, StoresOK, DeliveryInv, WorkersOK
<1>3. Raised(l[1], r) # "none" /\ Exhausted(l, m, r)
  BY DEF Current
<1>4. r.wire = "good" => \E f \in DOMAIN r.data : r.data[f] = "bad"
  <2> HIDE DEF r
  <2>1. r.wire = "good" => r \in Written(l[1], r.at)
    BY <1>1, RecordShape
  <2>2. QED  BY <1>1, <1>3, <2>1, WrittenUnderstood
<1>5. ASSUME LogsOK', LogsGrow, NewRecordsFit, NEW v, MarkedOnly(l, n, v),
             fate'[l][n] # "none", inbox["events"] \subseteq inbox'["events"],
             l[1] = "events" => /\ v = "quarantined"
                                /\ r.wire = "good" => r.id \in inbox'["events"]
      PROVE  /\ DeliveryInv' /\ RecordsOK' /\ Originals' /\ EndsBehind' /\ RefusedSetAside'
             /\ OwnRecordsUnderstood' /\ SettledHaveReceipts'
  <2>1. DeliveryInv'
    BY <1>5, DoneDelivers
  <2>2. RecordsOK' /\ Originals' /\ EndsBehind'
    BY <1>2, <1>5, RecordsKept DEF IInv
  <2>3. \A k \in Lanes : \A j \in DOMAIN log[k] :
          fate'[k][j] = fate[k][j] \/ (k = l /\ j = n)
    BY <1>5 DEF MarkedOnly
  <2>4. OwnRecordsUnderstood'
    BY <1>4, <1>5, <2>3, UnderstoodKept DEF IInv
  <2>5. SettledHaveReceipts'
    BY <1>5, <2>3, ReceiptsKept DEF IInv
  <2>6. RefusedSetAside'
    <3>1. \A k \in Lanes : k[1] = "events" => \A j \in DOMAIN log[k] :
            fate'[k][j] = fate[k][j] \/ fate'[k][j] = "quarantined"
      BY <1>5 DEF MarkedOnly
    <3>2. QED  BY <1>5, <3>1, RefusedKept DEF IInv
  <2>7. QED  BY <2>1, <2>2, <2>4, <2>5, <2>6
<1>6. CASE quarantineRecord(l, m, r) /\ l[1] # "commands"
  <2> DEFINE t == IF l[1] = "dlq" THEN "dlq" ELSE "events"
  <2>1. /\ Settle(l, m, "quarantined") /\ log' = log /\ applied' = applied
        /\ \/ inbox' = [inbox EXCEPT ![t] = @ \cup {r.id}] /\ HasEnvelope(r)
           \/ inbox' = inbox /\ ~HasEnvelope(r)
    BY <1>6 DEF quarantineRecord
  <2>2. t \in Topics /\ (t = "dlq" \/ t = "events")
    BY DEF Topics
  <2> HIDE DEF r
  <2>3. inbox["events"] \subseteq inbox'["events"] /\ StoresOK'
    <3>1. CASE inbox' = inbox
      BY <1>2, <2>1, <3>1 DEF StoresOK
    <3>2. CASE inbox' = [inbox EXCEPT ![t] = @ \cup {r.id}]
      <4> HIDE DEF t
      <4>1. QED  BY <1>1, <1>2, <2>1, <2>2, <3>2 DEF StoresOK, Topics
    <3>3. QED  BY <2>1, <3>1, <3>2
  <2>4. /\ LogsOK' /\ LogsGrow /\ NewRecordsFit /\ MarkedOnly(l, n, "quarantined")
        /\ fate'[l][n] # "none" /\ SetAsideStays
        /\ fate'[l][n] \in {"quarantined", fate[l][n]}
    BY <2>1, SettleGrows DEF Fates
  <2>5. ReadModelOK'
    <3>1. \A x \in inbox'["events"] :
            x \in inbox["events"] \/ (x = r.id /\ t = "events" /\ HasEnvelope(r))
      <4> HIDE DEF t
      <4>1. QED  BY <1>2, <2>1, <2>2 DEF Topics
    <3>2. ASSUME NEW op, r.id = <<"progress", op>>, t = "events", HasEnvelope(r)
          PROVE  Quarantined("events", <<"progress", op>>)'
      <4>1. l[1] = "events"
        <5>1. l[1] # "events" => \A q : r.id \notin {<<"progress", q>>, <<"end", q>>}
          BY <1>1, RecordShape
        <5>2. QED  BY <3>2, <5>1
      <4>2. fate[l][n] \in {"none", "quarantined"}
        BY <1>1, <1>3, <4>1 DEF IInv, RefusedSetAside, r
      <4>3. fate'[l][n] = "quarantined"
        BY <2>4, <4>2
      <4>4. log'[l][n] = r /\ n \in DOMAIN log'[l]
        BY <1>1, <2>1 DEF r
      <4>5. HasEnvelope(log'[l][n]) /\ log'[l][n].id = r.id
        BY <3>2, <4>4
      <4>6. QED  BY <3>2, <4>1, <4>3, <4>4, <4>5
                 DEF Quarantined, HasEnvelope, decodeEventEnvelope, isEventEnvelope
    <3>3. \A op : <<"progress", op>> \in inbox'["events"] =>
            \/ <<"progress", op>> \in inbox["events"]
            \/ Quarantined("events", <<"progress", op>>)'
      BY <3>1, <3>2
    <3>4. QED  BY <2>1, <2>3, <2>4, <3>3, QuarantineKeeps DEF IInv, ReadModelOK
  <2>6. l[1] = "events" /\ r.wire = "good" => r.id \in inbox'["events"]
    <3>1. r.wire = "good" => HasEnvelope(r)
      BY DEF HasEnvelope, decodeEventEnvelope, isEventEnvelope
    <3>2. QED  BY <1>2, <2>1, <3>1 DEF Topics
  <2>7. QED  BY <1>5, <2>3, <2>4, <2>5, <2>6 DEF IInv, ReadModelOK, r
<1>7. ASSUME l[1] = "commands",
             NEW outcome \in {"quarantined", "duplicate"}, Settle(l, m, outcome),
             log' = log, inbox' = inbox, applied' = applied
      PROVE  IInv'
  <2>1. /\ LogsOK' /\ LogsGrow /\ NewRecordsFit /\ MarkedOnly(l, n, outcome)
        /\ fate'[l][n] # "none" /\ SetAsideStays
    BY <1>7, SettleGrows DEF Fates
  <2>2. StoresOK'
    BY <1>2, <1>7 DEF StoresOK
  <2>3. ReadModelOK'
    BY <1>7, <2>1, QuarantineKeeps DEF IInv, ReadModelOK
  <2>4. QED  BY <1>5, <1>7, <2>1, <2>2, <2>3 DEF IInv, ReadModelOK
<1>8. ASSUME l[1] = "commands", decodeError(r) = "none", InsertReceipt(l[1], r),
             deadLetterCommand(l, m, r)
      PROVE  IInv'
  <2> DEFINE d == LaneOf("dlq", r)
             e == DeadLetterRecord(r, clock)
  <2>1. /\ inbox' = [inbox EXCEPT !["commands"] = @ \cup {r.id}]
        /\ log' = [log EXCEPT ![d] = Append(@, e)]
        /\ fate' = [fate EXCEPT ![d] = Append(@, "none"), ![l][n] = "dead_lettered"]
        /\ applied' = applied
    BY <1>8 DEF deadLetterCommand
  <2>2. PICK c \in Commands : r = CommandRecord(c, r.at)
    <3> HIDE DEF r
    <3>1. r.wire \in Wires /\ (r.wire = "good" => r \in Written(l[1], r.at))
      BY <1>1, RecordShape
    <3>2. r \in Written("commands", r.at)
      BY <1>8, <3>1, GoodDecodes
    <3>3. QED  BY <3>2 DEF Written
  <2>3. e = DeadLetterRecord(CommandRecord(c, clock), clock)
    <3> HIDE DEF r
    <3>1. e = Envelope(<<"dead_letter", c.op>>, "provisioning.dead_lettered", c, clock,
                       DeadLetterData)
      BY <2>2, DeadLetterEnvelope
    <3>2. QED  BY <3>1, DeadLetterEnvelope
  <2>4. e \in Written("dlq", clock)
    <3> HIDE DEF e
    <3>1. QED  BY <2>3 DEF Written
  <2>5. /\ r.instance = c.instance /\ e.instance = c.instance
        /\ e.id = <<"dead_letter", c.op>>
    <3>1. r.instance = c.instance
      <4> HIDE DEF r
      <4>1. QED  BY <2>2 DEF CommandRecord, Envelope
    <3>2. e = Envelope(<<"dead_letter", c.op>>, "provisioning.dead_lettered", c, clock,
                       DeadLetterData)
      BY <2>3, DeadLetterEnvelope
    <3> HIDE DEF e
    <3>3. QED  BY <3>1, <3>2 DEF Envelope
  <2>6. d = LaneOf("dlq", e) /\ d[1] = "dlq"
    <3> HIDE DEF r, e
    <3>1. QED  BY <2>5 DEF LaneOf
  <2>7. d \in Lanes /\ Fits(d, e)
    <3>1. \A op : e.id # <<"end", op>>
      BY <2>5
    <3> HIDE DEF d, e
    <3>2. QED  BY <1>2, <2>4, <2>6, <3>1, WrittenFits DEF Topics
  <2>8. d # l
    BY <1>8, <2>6
  <2> HIDE DEF d, e
  <2>9. /\ LogsOK' /\ LogsGrow /\ NewRecordsFit /\ MarkedOnly(l, n, "dead_lettered")
        /\ fate'[l][n] # "none"
    <3> HIDE DEF n
    <3>1. n \in DOMAIN log[l]
      BY <1>1
    <3>2. /\ log' = [log EXCEPT ![d] = Append(log[d], e)]
          /\ fate' = [fate EXCEPT ![d] = Append(fate[d], "none"),
                                  ![l] = [fate[l] EXCEPT ![n] = "dead_lettered"]]
      BY <1>2, <2>1, <2>7, <2>8 DEF LogsOK
    <3>3. QED  BY <1>2, <2>7, <2>8, <3>1, <3>2, AnnounceGrows
  <2>10. inbox'["events"] = inbox["events"] /\ StoresOK'
    <3> HIDE DEF r
    <3>1. QED  BY <1>1, <1>2, <2>1 DEF StoresOK, Topics
  <2>11. ReadModelOK'
    <3>1. FatesStay
      BY <1>8, <2>9 DEF MarkedOnly, FatesStay
    <3>2. SetAsideStays
      BY <1>2, <2>9, <3>1, SetAsideKept
    <3>3. QED  BY <2>1, <2>10, <3>2, QuarantineKeeps DEF IInv, ReadModelOK
  <2>12. QED  BY <1>5, <1>8, <2>9, <2>10, <2>11 DEF IInv, ReadModelOK
<1>9. CASE l[1] = "commands" /\ quarantineCommand(l, m)
  BY <1>7, <1>9 DEF quarantineCommand, storeVars
<1>10. CASE l[1] = "commands" /\ decodeError(r) = "none" /\ deadLetterCommand(l, m, r)
  <2>1. CASE InsertReceipt(l[1], r)
    BY <1>8, <1>10, <2>1
  <2>2. CASE ~InsertReceipt(l[1], r)
    <3>1. Settle(l, m, "duplicate") /\ UNCHANGED <<log, storeVars>>
      BY <1>10, <2>2 DEF deadLetterCommand
    <3>2. QED  BY <1>7, <1>10, <3>1 DEF storeVars
  <2>3. QED  BY <2>1, <2>2
<1>11. QED  BY <1>3, <1>6, <1>9, <1>10 DEF Exhausted

(* Steps of delivery alone.                                                *)
LEMMA DeliveryAlone ==
  ASSUME IInv, DeliveryInv', log' = log, fate' = fate, inbox' = inbox, applied' = applied
  PROVE  IInv'
<1>1. RecordsOK' /\ Originals' /\ EndsBehind' /\ RefusedSetAside'
  <2>1. RecordsOK' /\ Originals' /\ EndsBehind'
    BY DEF IInv, RecordsOK, Originals, HasOriginal, LaneOf, EndsBehind
  <2>2. LogsGrow /\ NewRecordsFit
    BY LanePositions DEF IInv, DeliveryInv, LogsGrow, NewRecordsFit
  <2>3. QED  BY <2>1, <2>2, RefusedKept DEF IInv
<1>2. OwnRecordsUnderstood'
  BY DEF IInv, OwnRecordsUnderstood
<1>3. StoresOK' /\ SettledHaveReceipts'
  BY DEF IInv, StoresOK, SettledHaveReceipts
<1>4. AppliedHaveReceipts' /\ ProgressApplied' /\ EventsInOrder'
  <2>1. LogsOK' /\ LogsGrow /\ FatesStay
    BY LanePositions DEF IInv, DeliveryInv, LogsGrow, FatesStay
  <2>2. SetAsideStays
    BY <2>1, SetAsideKept DEF IInv, DeliveryInv
  <2>3. QED  BY <2>2, QuarantineKeeps DEF IInv, ReadModelOK
<1>5. QED  BY <1>1, <1>2, <1>3, <1>4 DEF IInv

(* Members that only retry, drop or lose their records.                    *)
LEMMA WorkersPreserve ==
  ASSUME IInv, UNCHANGED <<logVars, committed, owner, epoch, inbox, applied, clock>>,
         worker' \in [Lanes -> [Members -> WorkerStates]],
         \A l \in Lanes, m \in Members : WorkerFollows(l, m)
  PROVE  IInv'
<1>1. /\ log' = log /\ fate' = fate /\ committed' = committed /\ owner' = owner
      /\ epoch' = epoch /\ inbox' = inbox /\ applied' = applied /\ clock' = clock
  BY DEF logVars
<1>2. \A l \in Lanes : Len(log[l]) \in Nat
  BY LanePositions DEF IInv, DeliveryInv
<1>3. LogsOK' /\ LogsGrow
  BY <1>1, <1>2 DEF IInv, DeliveryInv, LogsOK, LogsGrow
<1>4. clock' \in Nat
  BY <1>1 DEF IInv, DeliveryInv, WorkersOK
<1>5. DeliveryInv'
  BY <1>1, <1>3, <1>4, DeliveryKept DEF IInv
<1>6. QED  BY <1>1, <1>5, DeliveryAlone

(* One worker changes, and only its phase and its attempts.                *)
LEMMA OneWorker ==
  ASSUME IInv, NEW l \in Lanes, NEW m \in Members, NEW w \in WorkerStates,
         worker' = [worker EXCEPT ![l][m] = w],
         \/ w.phase = "idle"
         \/ /\ Busy(l, m) /\ w.phase # "done"
            /\ w.off = worker[l][m].off /\ w.epoch = worker[l][m].epoch
  PROVE  /\ worker' \in [Lanes -> [Members -> WorkerStates]]
         /\ \A k \in Lanes, n \in Members : WorkerFollows(k, n)
<1>1. worker \in [Lanes -> [Members -> WorkerStates]]
  BY DEF IInv, DeliveryInv, WorkersOK
<1>2. /\ worker' \in [Lanes -> [Members -> WorkerStates]] /\ worker'[l][m] = w
      /\ \A k \in Lanes, n \in Members : <<k, n>> # <<l, m>> => worker'[k][n] = worker[k][n]
  BY <1>1
<1>3. ASSUME NEW k \in Lanes, NEW n \in Members  PROVE WorkerFollows(k, n)
  <2>1. CASE k = l /\ n = m
    BY <1>2, <2>1 DEF WorkerFollows, Busy
  <2>2. CASE <<k, n>> # <<l, m>>
    BY <1>2, <2>2 DEF WorkerFollows, Busy
  <2>3. QED  BY <2>1, <2>2
<1>4. QED  BY <1>2, <1>3

(* A member's step on its lane.                                            *)
LEMMA ConsumersPreserve ==
  ASSUME IInv, NEW l \in Lanes, NEW m \in Members,
         Consume(l, m) \/ Outage(l, m) \/ Rebalance(l, m)
  PROVE  IInv'
<1>1. worker[l][m] \in WorkerStates
  BY DEF IInv, DeliveryInv, WorkersOK
<1>2. CASE Fetch(l, m)
  BY <1>2, FetchDelivers, DeliveryAlone DEF IInv, Fetch, logVars, storeVars
<1>3. CASE Handle(l, m)
  BY <1>3, HandlePreserves
<1>4. CASE GiveUp(l, m)
  <2>1. /\ worker[l][m].phase = "handling" /\ Raised(l[1], Current(l, m)) # "none"
        /\ UNCHANGED <<committed, owner, epoch, clock>>
    BY <1>4 DEF GiveUp
  <2>2. CASE Retry(l, m) /\ UNCHANGED <<logVars, storeVars>>
    <3> DEFINE w == [worker[l][m] EXCEPT !.attempt = @ + 1]
    <3>1. /\ w \in WorkerStates /\ w.phase = "handling"
          /\ w.off = worker[l][m].off /\ w.epoch = worker[l][m].epoch
      BY <1>1, <2>1 DEF WorkerStates
    <3>2. worker' = [worker EXCEPT ![l][m] = w]
      BY <2>2 DEF Retry
    <3> HIDE DEF w
    <3>3. /\ worker' \in [Lanes -> [Members -> WorkerStates]]
          /\ \A k \in Lanes, n \in Members : WorkerFollows(k, n)
      BY <2>1, <3>1, <3>2, OneWorker DEF Busy
    <3>4. QED  BY <2>1, <2>2, <3>3, WorkersPreserve DEF storeVars
  <2>3. CASE Exhausted(l, m, Current(l, m)) /\ Done(l, m)
    BY <2>1, <2>3, ExhaustedPreserves DEF Busy
  <2>4. QED  BY <1>4, <2>2, <2>3 DEF GiveUp
<1>5. CASE Commit(l, m)
  BY <1>5, CommitDelivers, DeliveryAlone DEF IInv, Commit, logVars, storeVars
<1>6. CASE Outage(l, m)
  <2>1. /\ worker[l][m].phase \in {"handling", "failing"}
        /\ UNCHANGED <<logVars, committed, owner, epoch, inbox, applied, clock>>
    BY <1>6 DEF Outage, storeVars
  <2>2. CASE worker' = [worker EXCEPT ![l][m] =
             [@ EXCEPT !.phase = "failing", !.attempt = worker[l][m].attempt + 1]]
    <3> DEFINE w == [worker[l][m] EXCEPT !.phase = "failing",
                                      !.attempt = worker[l][m].attempt + 1]
    <3>0. w = [phase |-> "failing", off |-> worker[l][m].off,
               attempt |-> worker[l][m].attempt + 1, epoch |-> worker[l][m].epoch]
      <4> DEFINE f == [worker[l][m] EXCEPT !.phase = "failing"]
      <4>1. f = [phase |-> "failing", off |-> worker[l][m].off,
                 attempt |-> worker[l][m].attempt, epoch |-> worker[l][m].epoch]
        BY <1>1 DEF WorkerStates
      <4>2. w = [f EXCEPT !.attempt = worker[l][m].attempt + 1]
        OBVIOUS
      <4> HIDE DEF f, w
      <4>3. QED  BY <4>1, <4>2
    <3>1. /\ w \in WorkerStates /\ w.phase = "failing"
          /\ w.off = worker[l][m].off /\ w.epoch = worker[l][m].epoch
      <4> HIDE DEF w
      <4> QED  BY <1>1, <3>0 DEF WorkerStates
    <3>2. worker' = [worker EXCEPT ![l][m] = w]
      BY <2>2
    <3> HIDE DEF w
    <3>3. /\ worker' \in [Lanes -> [Members -> WorkerStates]]
          /\ \A k \in Lanes, n \in Members : WorkerFollows(k, n)
      BY <2>1, <3>1, <3>2, OneWorker DEF Busy
    <3>4. QED  BY <2>1, <3>3, WorkersPreserve
  <2>3. CASE Rethrow(l, m)
    <3>1. /\ worker' \in [Lanes -> [Members -> WorkerStates]]
          /\ \A k \in Lanes, n \in Members : WorkerFollows(k, n)
      BY <2>3, IdleWorker, OneWorker DEF Rethrow
    <3>2. QED  BY <2>1, <3>1, WorkersPreserve
  <2>4. QED  BY <1>6, <2>2, <2>3 DEF Outage
<1>7. CASE Rebalance(l, m)
  BY <1>7, RebalanceDelivers, DeliveryAlone DEF IInv, Rebalance, logVars, storeVars
<1>8. QED  BY <1>2, <1>3, <1>4, <1>5, <1>6, <1>7 DEF Consume

(* A member that crashes drops whatever it was working on.                 *)
LEMMA CrashPreserves ==
  ASSUME IInv, NEW m \in Members, Crash(m)
  PROVE  IInv'
<1>1. /\ worker' = [l \in Lanes |-> [worker[l] EXCEPT ![m] = Idle]]
      /\ UNCHANGED <<logVars, committed, owner, epoch, inbox, applied, clock>>
  BY DEF Crash, storeVars
<1>2. worker \in [Lanes -> [Members -> WorkerStates]]
  BY DEF IInv, DeliveryInv, WorkersOK
<1>3. worker' \in [Lanes -> [Members -> WorkerStates]]
  BY <1>1, <1>2, IdleWorker
<1>4. ASSUME NEW l \in Lanes, NEW n \in Members  PROVE WorkerFollows(l, n)
  <2>1. worker'[l] = [worker[l] EXCEPT ![m] = Idle]
    BY <1>1
  <2>2. CASE n = m
    <3>1. worker'[l][n] = Idle
      BY <1>2, <2>1, <2>2
    <3>2. QED  BY <3>1, IdleWorker DEF WorkerFollows, Busy
  <2>3. CASE n # m
    <3>1. worker'[l][n] = worker[l][n]
      BY <1>2, <2>1, <2>3
    <3>2. QED  BY <3>1 DEF WorkerFollows, Busy
  <2>4. QED  BY <2>2, <2>3
<1>5. QED  BY <1>1, <1>3, <1>4, WorkersPreserve

-----------------------------------------------------------------------------
(* The empty logs satisfy the invariant.                                   *)
LEMMA InitIInv == IntakeInit => IInv
<1> SUFFICES ASSUME IntakeInit PROVE IInv
  OBVIOUS
<1>1. /\ log = [l \in Lanes |-> <<>>] /\ fate = [l \in Lanes |-> <<>>]
      /\ committed = [l \in Lanes |-> 0] /\ epoch = [l \in Lanes |-> 0]
      /\ worker = [l \in Lanes |-> [m \in Members |-> Idle]]
      /\ inbox = [t \in Topics |-> {}] /\ applied = [t \in Topics |-> <<>>]
      /\ clock = 1 /\ DOMAIN owner = Lanes
  BY DEF IntakeInit
<1>2. \A l \in Lanes : log[l] = <<>> /\ fate[l] = <<>> /\ committed[l] = 0
  BY <1>1
<1>3. LogsOK
  BY <1>1 DEF LogsOK
<1>4. WorkersOK /\ \A l \in Lanes, m \in Members : ~Busy(l, m)
  BY <1>1, <1>2, IdleWorker DEF WorkersOK, Busy
<1>5. DeliveryInv
  BY <1>2, <1>3, <1>4 DEF DeliveryInv, OffsetsOK, NothingSkipped
<1>6. /\ RecordsOK /\ Originals /\ EndsBehind /\ RefusedSetAside
      /\ SettledHaveReceipts /\ OwnRecordsUnderstood
  BY <1>2 DEF RecordsOK, Originals, EndsBehind, RefusedSetAside, SettledHaveReceipts,
              OwnRecordsUnderstood
<1>7. StoresOK
  BY <1>1 DEF StoresOK
<1>8. inbox["events"] = {} /\ applied["events"] = <<>>
  BY <1>1 DEF Topics
<1>9. AppliedHaveReceipts /\ ProgressApplied /\ EventsInOrder
  BY <1>8 DEF AppliedHaveReceipts, ProgressApplied, EventsInOrder
<1>10. QED  BY <1>5, <1>6, <1>7, <1>9 DEF IInv

(* The inductive invariant holds of every reachable state.                 *)
THEOREM Invariance == IntakeSpec => []IInv
<1>1. ASSUME IInv, IntakeNext  PROVE IInv'
  BY <1>1, ProducersPreserve, CopiesPreserve, ConsumersPreserve, CrashPreserves, Zenon
     DEF IntakeNext
<1>2. ASSUME IInv, UNCHANGED intakeVars  PROVE IInv'
  <2>1. worker' = worker
        /\ UNCHANGED <<logVars, committed, owner, epoch, inbox, applied, clock>>
    BY <1>2 DEF intakeVars, groupVars, storeVars, logVars
  <2>2. /\ worker' \in [Lanes -> [Members -> WorkerStates]]
        /\ \A l \in Lanes, m \in Members : WorkerFollows(l, m)
    BY <1>2, <2>1 DEF IInv, DeliveryInv, WorkersOK, WorkerFollows, Busy
  <2>3. QED  BY <1>2, <2>1, <2>2, WorkersPreserve
<1>3. QED  BY <1>1, <1>2, InitIInv, PTL DEF IntakeSpec

(* kafka-consumer.ts: whatever crashes, rebalances and outages come, no    *)
(* group's offset passes a record nothing was made of.                     *)
THEOREM NoRecordSkipped == IntakeSpec => []NothingSkipped
<1>1. IInv => NothingSkipped
  BY DEF IInv, DeliveryInv
<1>2. QED  BY <1>1, Invariance, PTL

(* The read model applies each event of an operation once and its progress *)
(* before its end, where no damaged copy took the progress's receipt.      *)
THEOREM OrderedOnce == IntakeSpec => []EventsInOrder
<1>1. IInv => EventsInOrder
  BY DEF IInv
<1>2. QED  BY <1>1, Invariance, PTL

(* Only a sizing out of range, a flavor's or a measured one, makes a       *)
(* consumer refuse what an outbox of the system wrote.                     *)
THEOREM ContractsAgree == IntakeSpec => []OwnRecordsUnderstood
<1>1. IInv => OwnRecordsUnderstood
  BY DEF IInv
<1>2. QED  BY <1>1, Invariance, PTL

(* A client that walks the lists changes nothing under it: the walk, with  *)
(* its reader hidden, is a behaviour of Intake, and so all of the above    *)
(* holds under Listing too.                                                *)
THEOREM ListingImplementsIntake == ListingSpec => IntakeSpec
<1>1. ListingInit => IntakeInit
  BY DEF ListingInit
<1>2. ASSUME ListingNext  PROVE [IntakeNext]_intakeVars
  <2>1. CASE Meanwhile
    BY <2>1 DEF Meanwhile
  <2>2. ASSUME NEW role, NEW t, NEW value, StartWalk(role, t, value)
        PROVE  UNCHANGED intakeVars
    BY <2>2, Zenon DEF StartWalk, AskFor
  <2>3. CASE NextPage
    BY <2>3, Zenon DEF NextPage, AskFor
  <2>4. QED  BY <1>2, <2>1, <2>2, <2>3, Zenon DEF ListingNext
<1>3. UNCHANGED listingVars => UNCHANGED intakeVars
  BY DEF listingVars
<1>4. QED  BY <1>1, <1>2, <1>3, PTL DEF ListingSpec, IntakeSpec

-----------------------------------------------------------------------------
(* Lists, walked while their rows are rewritten.                           *)

(* Ids and times are numbers, and a table has finitely many rows.          *)
TableOK(table) ==
  /\ IsFiniteSet(DOMAIN table) /\ DOMAIN table \subseteq Nat
  /\ \A id \in DOMAIN table : table[id] \in Nat
RowsOK == DOMAIN rows = Tables /\ \A t \in Tables : TableOK(rows[t])

Cursors == [v : {0, CURSOR_VERSION}, s : Nat, i : Nat]
Readers ==
  [phase : {"idle", "walking", "done"}, table : Tables \cup {"none"}, limit : Nat,
   cursor : Cursors, listed : Seq(SUBSET Nat), moved : SUBSET Nat]

ListedOnce(r, id) ==
  \E k \in DOMAIN r.listed : \A j \in DOMAIN r.listed : id \in r.listed[j] <=> j = k
NotListed(r, id) == \A j \in DOMAIN r.listed : id \notin r.listed[j]

(* A walk has shown each row that stayed put and lies before its cursor,   *)
(* once, and none that lies behind.                                        *)
WalkOK(r) ==
  /\ r.table \in Tables
  /\ r.cursor = NoCursor \/ ValidCursor(r.cursor)
  /\ \A id \in DOMAIN rows[r.table] \ r.moved :
       IF id \in Sought(r.table, r.cursor) THEN NotListed(r, id) ELSE ListedOnce(r, id)

WInv == RowsOK /\ reader \in Readers /\ (reader.phase = "walking" => WalkOK(reader))

(* An entry is written, and dropped.                                       *)
LEMMA TableKept ==
  ASSUME NEW table, TableOK(table), NEW id \in Nat, NEW at \in Nat
  PROVE  TableOK(Put(table, id, at)) /\ TableOK(Drop(table, id))
<1>1. IsFiniteSet(DOMAIN table \cup {id}) /\ IsFiniteSet(DOMAIN table \ {id})
  BY FS_AddElement, FS_RemoveElement DEF TableOK
<1>2. TableOK(Put(table, id, at))
  BY <1>1 DEF TableOK, Put
<1>3. TableOK(Drop(table, id))
  BY <1>1 DEF TableOK, Drop
<1>4. QED  BY <1>2, <1>3

(* The identifiers a record brings.                                        *)
LEMMA RecordIds ==
  ASSUME NEW topic \in Topics, NEW at \in Nat, NEW r \in Records(topic, at)
  PROVE  /\ r.instance \in Nat /\ r.op \in Nat /\ r.at \in Nat
         /\ topic = "events" => \E c \in Commands : r.op = c.op
<1>1. PICK q \in Written(topic, at), w \in Wires : r = [q EXCEPT !.wire = w]
  BY DEF Records
<1>2. \E id, schema, c, data :
        /\ q = Envelope(id, schema, c, at, data)
        /\ c.instance \in Instances /\ c.op \in Nat
        /\ topic = "events" => c \in Commands
  <2>1. CASE \E c \in Commands : topic = "commands" /\ q = CommandRecord(c, at)
    BY <2>1, IntakeAssumption, ListingAssumption DEF CommandRecord
  <2>2. CASE \E c \in Commands : topic = "events" /\ q = ProgressRecord(c, at)
    BY <2>2, IntakeAssumption, ListingAssumption DEF ProgressRecord
  <2>3. CASE \E c \in Commands, schema \in EndSchemas, measured \in {"ok", "bad"} :
               topic = "events" /\ q = EndRecord(c, schema, measured, at)
    BY <2>3, IntakeAssumption, ListingAssumption DEF EndRecord
  <2>4. CASE \E i \in Drifting : topic = "drift" /\ q = DriftRecord(i, at)
    <3>1. PICK i \in Drifting : topic = "drift" /\ q = DriftRecord(i, at)
      BY <2>4
    <3> DEFINE c == [instance |-> i, op |-> i]
    <3>2. c.instance \in Instances /\ c.op \in Nat /\ c.op = i
      BY IntakeAssumption, ListingAssumption
    <3>3. q = Envelope(<<"drift", i>>, "drift.detected", c, at, Ok({"classification"}))
      BY <3>1 DEF DriftRecord
    <3> HIDE DEF c
    <3>4. QED  BY <3>1, <3>2, <3>3
  <2>5. CASE \E c \in Commands :
               topic = "dlq" /\ q = DeadLetterRecord(CommandRecord(c, at), at)
    <3>1. PICK c \in Commands : topic = "dlq" /\ q = DeadLetterRecord(CommandRecord(c, at), at)
      BY <2>5
    <3>2. q = Envelope(<<"dead_letter", c.op>>, "provisioning.dead_lettered", c, at,
                       DeadLetterData)
      BY <3>1, DeadLetterEnvelope
    <3>3. QED  BY <3>1, <3>2, IntakeAssumption, ListingAssumption
  <2>6. QED  BY <2>1, <2>2, <2>3, <2>4, <2>5 DEF Written
<1>3. PICK id, schema, c, data :
        /\ q = Envelope(id, schema, c, at, data)
        /\ c.instance \in Instances /\ c.op \in Nat
        /\ topic = "events" => c \in Commands
  BY <1>2
<1>4. r = [Envelope(id, schema, c, at, data) EXCEPT !.wire = w]
  BY <1>1, <1>3
<1>5. r.instance = c.instance /\ r.op = c.op /\ r.at = at
  BY <1>4 DEF Envelope
<1>6. QED  BY <1>3, <1>5, ListingAssumption

(* Rewriting one table leaves the others.                                  *)
LEMMA RowsWritten ==
  ASSUME RowsOK, NEW t \in Tables, NEW table, TableOK(table),
         rows' = [rows EXCEPT ![t] = table]
  PROVE  RowsOK'
  BY DEF RowsOK, TableOK

(* What the consumers apply.                                               *)
LEMMA ProjectKeeps ==
  ASSUME RowsOK, NEW topic \in Topics, NEW at \in Nat, NEW r \in Records(topic, at),
         rows' = Project(topic, r)
  PROVE  RowsOK'
<1>1. /\ r.instance \in Nat /\ r.op \in Nat /\ r.at \in Nat
      /\ topic = "events" => \E c \in Commands : r.op = c.op
  BY RecordIds
<1>2. \A t \in Tables : /\ TableOK(Put(rows[t], r.instance, r.at))
                        /\ TableOK(Put(rows[t], r.op, r.at))
  BY <1>1, TableKept DEF RowsOK
<1>3. CASE topic = "commands"
  <2>1. rows' = rows
    BY <1>3 DEF Project
  <2>2. QED  BY <2>1 DEF RowsOK, TableOK
<1>4. CASE topic = "drift"
  <2>1. rows' = [rows EXCEPT !["instances"] = Put(rows["instances"], r.instance, r.at)]
    BY <1>4 DEF Project
  <2>2. QED  BY <1>2, <2>1, RowsWritten DEF Tables
<1>5. CASE topic = "dlq"
  <2>1. rows' = [rows EXCEPT !["dead_letters"] = Put(rows["dead_letters"], r.op, r.at)]
    BY <1>5 DEF Project
  <2>2. QED  BY <1>2, <2>1, RowsWritten DEF Tables
<1>6. CASE topic = "events"
  <2> DEFINE settled == settleSnapshot(rows["snapshots"], r)
  <2>1. TableOK(settled)
    <3> DEFINE c == CHOOSE d \in Commands : d.op = r.op
    <3>1. c \in Commands
      BY <1>1, <1>6
    <3> HIDE DEF c
    <3>2. c.snapshot \in Nat
      BY <3>1, ListingAssumption
    <3>3. /\ TableOK(rows["snapshots"])
          /\ TableOK(Put(rows["snapshots"], c.snapshot, r.at))
          /\ TableOK(Drop(rows["snapshots"], c.snapshot))
      BY <1>1, <3>2, TableKept DEF RowsOK, Tables
    <3>4. settled \in {rows["snapshots"], Put(rows["snapshots"], c.snapshot, r.at),
                       Drop(rows["snapshots"], c.snapshot)}
      BY DEF settleSnapshot, c
    <3>5. QED  BY <3>3, <3>4
  <2>2. /\ DOMAIN rows' = DOMAIN rows
        /\ rows'["instances"] = Put(rows["instances"], r.instance, r.at)
        /\ rows'["operations"] = Put(rows["operations"], r.op, r.at)
        /\ rows'["snapshots"] = settled
        /\ \A t \in Tables \ {"instances", "operations", "snapshots"} : rows'[t] = rows[t]
    BY <1>6 DEF Project, RowsOK, Tables
  <2> HIDE DEF settled
  <2>3. \A t \in Tables : TableOK(rows'[t])
    <3> TAKE t \in Tables
    <3>1. CASE t \in {"instances", "operations", "snapshots"}
      BY <1>2, <2>1, <2>2, <3>1
    <3>2. CASE t \notin {"instances", "operations", "snapshots"}
      BY <2>2, <3>2 DEF RowsOK
    <3>3. QED  BY <3>1, <3>2
  <2>4. QED  BY <2>2, <2>3 DEF RowsOK, TableOK
<1>7. QED  BY <1>3, <1>4, <1>5, <1>6 DEF Topics

(* No step of Intake spoils the tables.                                    *)
LEMMA RowsKept ==
  ASSUME IInv, RowsOK, IntakeNext
  PROVE  RowsOK'
<1>1. clock \in Nat
  BY DEF IInv, DeliveryInv, WorkersOK
<1>2. ASSUME rows' = rows  PROVE RowsOK'
  BY <1>2 DEF RowsOK, TableOK
<1>3. ASSUME NEW c \in Commands, Accept(c)  PROVE RowsOK'
  <2>1. clock' \in Nat
    BY <1>1, <1>3 DEF Accept, Passes
  <2>2. /\ c.instance \in Nat /\ c.op \in Nat /\ c.snapshot \in Nat
    BY IntakeAssumption, ListingAssumption
  <2>3. /\ TableOK(Put(rows["instances"], c.instance, clock'))
        /\ TableOK(Put(rows["operations"], c.op, clock'))
        /\ TableOK(Put(rows["audit"], c.op, clock'))
        /\ TableOK(IF c.snapshot = 0 THEN rows["snapshots"]
                   ELSE Put(rows["snapshots"], c.snapshot, clock'))
    BY <2>1, <2>2, TableKept DEF RowsOK, Tables
  <2>4. /\ DOMAIN rows' = DOMAIN rows
        /\ rows'["instances"] = Put(rows["instances"], c.instance, clock')
        /\ rows'["operations"] = Put(rows["operations"], c.op, clock')
        /\ rows'["audit"] = Put(rows["audit"], c.op, clock')
        /\ rows'["snapshots"] = IF c.snapshot = 0 THEN rows["snapshots"]
                                ELSE Put(rows["snapshots"], c.snapshot, clock')
        /\ \A t \in Tables \ {"instances", "operations", "audit", "snapshots"} :
             rows'[t] = rows[t]
    BY <1>3 DEF Accept, writeControlAudit, RowsOK, Tables
  <2>5. \A t \in Tables : TableOK(rows'[t])
    <3> TAKE t \in Tables
    <3>1. CASE t \in {"instances", "operations", "audit", "snapshots"}
      BY <2>3, <2>4, <3>1
    <3>2. CASE t \notin {"instances", "operations", "audit", "snapshots"}
      BY <2>4, <3>2 DEF RowsOK
    <3>3. QED  BY <3>1, <3>2
  <2>6. QED  BY <2>4, <2>5 DEF RowsOK, TableOK
<1>4. ASSUME NEW l \in Lanes, NEW m \in Members, Handle(l, m)  PROVE RowsOK'
  <2> DEFINE r == Current(l, m)
  <2>1. /\ worker[l][m].phase \in {"handling", "failing"} /\ Apply(l, m, r)
    BY <1>4 DEF Handle
  <2>2. l[1] \in Topics /\ r \in Records(l[1], r.at) /\ r.at \in Nat
    BY <2>1, AtWork DEF Busy, Current
  <2> HIDE DEF r
  <2>3. rows' = Project(l[1], r) \/ rows' = rows
    BY <2>1 DEF Apply, storeVars
  <2>4. QED  BY <1>2, <2>2, <2>3, ProjectKeeps
<1>5. ASSUME NEW l \in Lanes, NEW m \in Members, GiveUp(l, m)  PROVE rows' = rows
  <2>1. CASE Exhausted(l, m, Current(l, m))
    BY <2>1, Zenon DEF Exhausted, quarantineRecord, quarantineCommand, deadLetterCommand, storeVars
  <2>2. CASE UNCHANGED <<logVars, storeVars>>
    BY <2>2 DEF storeVars
  <2>3. QED  BY <1>5, <2>1, <2>2, Zenon DEF GiveUp
<1>6. ASSUME NEW c \in Commands, Progress(c) \/ End(c)  PROVE rows' = rows
  BY <1>6, Zenon DEF Progress, End, storeVars
<1>7. ASSUME NEW i \in Drifting, DetectDrift(i)  PROVE rows' = rows
  BY <1>7, Zenon DEF DetectDrift, storeVars
<1>8. ASSUME NEW l, NEW k, \/ PublishAgain(l, k)
                           \/ \E wire \in Junk, p \in Partitions :
                                PublishJunk(<<l[1], p>>, wire, log[l][k])
      PROVE  rows' = rows
  BY <1>8, Zenon DEF PublishAgain, PublishJunk, storeVars
<1>9. ASSUME NEW l \in Lanes, NEW m \in Members,
             Fetch(l, m) \/ Commit(l, m) \/ Outage(l, m) \/ Rebalance(l, m)
      PROVE  rows' = rows
  BY <1>9, Zenon DEF Fetch, Commit, Outage, Rebalance, storeVars
<1>10. ASSUME NEW m \in Members, Crash(m)  PROVE rows' = rows
  BY <1>10, Zenon DEF Crash, storeVars
<1>11. QED
  BY <1>2, <1>3, <1>4, <1>5, <1>6, <1>7, <1>8, <1>9, <1>10, Zenon DEF IntakeNext, Consume

(* A list's order.                                                         *)
Ahead(t, x, y) == Before(t, Position(t, x), Position(t, y))

LEMMA RowOrder ==
  ASSUME RowsOK, NEW t \in Tables,
         NEW x \in DOMAIN rows[t], NEW y \in DOMAIN rows[t], NEW z \in DOMAIN rows[t]
  PROVE  /\ ~Ahead(t, x, x)
         /\ Ahead(t, x, y) => ~Ahead(t, y, x)
         /\ Ahead(t, x, y) /\ Ahead(t, y, z) => Ahead(t, x, z)
         /\ x # y => Ahead(t, x, y) \/ Ahead(t, y, x)
<1>1. /\ x \in Nat /\ y \in Nat /\ z \in Nat
      /\ rows[t][x] \in Nat /\ rows[t][y] \in Nat /\ rows[t][z] \in Nat
  BY DEF RowsOK, TableOK
<1>2. CASE t \in Catalog
  BY <1>1, <1>2 DEF Ahead, Before, Position
<1>3. CASE t \notin Catalog
  <2>1. \A p, q \in DOMAIN rows[t] :
          Ahead(t, p, q) <=> \/ rows[t][q] < rows[t][p]
                             \/ rows[t][q] = rows[t][p] /\ q < p
    BY <1>3 DEF Ahead, Before, Position, RowLess
  <2>2. QED  BY <1>1, <2>1
<1>4. QED  BY <1>2, <1>3

(* How many rows of a set come before a row.                               *)
Rank(t, ids, x) == Cardinality({j \in ids : Ahead(t, j, x)})

LEMMA RankGrows ==
  ASSUME RowsOK, NEW t \in Tables, NEW ids \in SUBSET DOMAIN rows[t]
  PROVE  /\ IsFiniteSet(ids) /\ Cardinality(ids) \in Nat
         /\ \A x \in ids : Rank(t, ids, x) \in Nat /\ Rank(t, ids, x) <= Cardinality(ids)
         /\ \A x, y \in ids : Ahead(t, x, y) => Rank(t, ids, x) < Rank(t, ids, y)
<1>1. IsFiniteSet(ids) /\ Cardinality(ids) \in Nat
  BY FS_Subset, FS_CardinalityType DEF RowsOK, TableOK
<1>2. ASSUME NEW x \in ids
      PROVE  /\ IsFiniteSet({j \in ids : Ahead(t, j, x)})
             /\ Rank(t, ids, x) \in Nat /\ Rank(t, ids, x) <= Cardinality(ids)
  <2>1. {j \in ids : Ahead(t, j, x)} \in SUBSET ids
    OBVIOUS
  <2>2. QED  BY <1>1, <2>1, FS_Subset, FS_CardinalityType DEF Rank
<1>3. ASSUME NEW x \in ids, NEW y \in ids, Ahead(t, x, y)
      PROVE  Rank(t, ids, x) < Rank(t, ids, y)
  <2> DEFINE P == {j \in ids : Ahead(t, j, x)}
             Q == {j \in ids : Ahead(t, j, y)}
  <2>1. x \notin P /\ x \in Q /\ P \subseteq Q
    BY <1>3, RowOrder
  <2>2. IsFiniteSet(P) /\ IsFiniteSet(Q)
    BY <1>2
  <2>3. Rank(t, ids, x) = Cardinality(P) /\ Rank(t, ids, y) = Cardinality(Q)
    BY DEF Rank
  <2> HIDE DEF P, Q
  <2>4. Cardinality(P \cup {x}) = Cardinality(P) + 1 /\ P \cup {x} \in SUBSET Q
    BY <2>1, <2>2, FS_AddElement
  <2>5. Cardinality(P) + 1 <= Cardinality(Q)
    BY <2>2, <2>4, FS_Subset
  <2>6. Cardinality(P) \in Nat /\ Cardinality(Q) \in Nat
    BY <2>2, FS_CardinalityType
  <2>7. QED  BY <2>3, <2>5, <2>6
<1>4. QED  BY <1>1, <1>2, <1>3

(* The first and the last row of a set.                                    *)
LEMMA FirstAndLast ==
  ASSUME RowsOK, NEW t \in Tables, NEW ids \in SUBSET DOMAIN rows[t], ids # {}
  PROVE  /\ \E x \in ids : \A y \in ids \ {x} : Ahead(t, x, y)
         /\ \E x \in ids : \A y \in ids \ {x} : Ahead(t, y, x)
<1>1. /\ Cardinality(ids) \in Nat
      /\ \A x \in ids : Rank(t, ids, x) \in Nat /\ Rank(t, ids, x) <= Cardinality(ids)
      /\ \A x, y \in ids : Ahead(t, x, y) => Rank(t, ids, x) < Rank(t, ids, y)
  BY RankGrows
<1>2. \A x, y \in ids : x # y => Ahead(t, x, y) \/ Ahead(t, y, x)
  BY RowOrder
<1>3. \E x \in ids : \A y \in ids \ {x} : Ahead(t, x, y)
  <2> DEFINE R == {Rank(t, ids, x) : x \in ids}
  <2>1. R \in SUBSET Nat /\ R # {}
    BY <1>1
  <2>2. PICK n \in R : \A k \in R : n <= k
    <3> HIDE DEF R
    <3> QED  BY <2>1, LeastNatural
  <2>3. PICK x \in ids : n = Rank(t, ids, x)
    OBVIOUS
  <2>4. ASSUME NEW y \in ids \ {x}  PROVE Ahead(t, x, y)
    <3>1. Rank(t, ids, x) <= Rank(t, ids, y)
      BY <2>2, <2>3
    <3>2. QED  BY <1>1, <1>2, <3>1
  <2>5. QED  BY <2>4
<1>4. \E x \in ids : \A y \in ids \ {x} : Ahead(t, y, x)
  <2> DEFINE R == {Cardinality(ids) - Rank(t, ids, x) : x \in ids}
  <2>1. R \in SUBSET Nat /\ R # {}
    BY <1>1
  <2>2. PICK n \in R : \A k \in R : n <= k
    <3> HIDE DEF R
    <3> QED  BY <2>1, LeastNatural
  <2>3. PICK x \in ids : n = Cardinality(ids) - Rank(t, ids, x)
    OBVIOUS
  <2>4. ASSUME NEW y \in ids \ {x}  PROVE Ahead(t, y, x)
    <3>1. Cardinality(ids) - Rank(t, ids, x) <= Cardinality(ids) - Rank(t, ids, y)
      BY <2>2, <2>3
    <3>2. ~(Rank(t, ids, x) < Rank(t, ids, y))
      BY <1>1, <3>1
    <3>3. QED  BY <1>1, <1>2, <3>2
  <2>5. QED  BY <2>4
<1>5. QED  BY <1>3, <1>4

(* ORDER BY and LIMIT: a beginning of the list, and all of it if it is     *)
(* shorter than the limit.                                                 *)
LEMMA FirstFacts ==
  ASSUME RowsOK, NEW t \in Tables, NEW ids \in SUBSET DOMAIN rows[t], NEW n \in Nat
  PROVE  /\ First(t, ids, n) \subseteq ids
         /\ \A x \in First(t, ids, n), y \in ids : Ahead(t, y, x) => y \in First(t, ids, n)
         /\ n > 0 /\ ids # {} => First(t, ids, n) # {}
         /\ Cardinality(First(t, ids, n)) < n => First(t, ids, n) = ids
<1> DEFINE F == First(t, ids, n)
<1>1. /\ \A x \in ids : Rank(t, ids, x) \in Nat
      /\ \A x, y \in ids : Ahead(t, x, y) => Rank(t, ids, x) < Rank(t, ids, y)
  BY RankGrows
<1>2. F = {x \in ids : Rank(t, ids, x) < n}
  BY DEF First, Rank, Ahead
<1> HIDE DEF F
<1>3. F \subseteq ids /\ \A x \in F, y \in ids : Ahead(t, y, x) => y \in F
  BY <1>1, <1>2
<1>4. ASSUME n > 0, ids # {}  PROVE F # {}
  <2>1. PICK x \in ids : \A y \in ids \ {x} : Ahead(t, x, y)
    BY <1>4, FirstAndLast
  <2>2. {j \in ids : Ahead(t, j, x)} = {}
    BY <2>1, RowOrder
  <2>3. Rank(t, ids, x) = 0
    BY <2>2, FS_EmptySet DEF Rank
  <2>4. QED  BY <1>2, <1>4, <2>3
<1>5. ASSUME Cardinality(F) < n, F # ids  PROVE FALSE
  <2>1. ids \ F # {} /\ ids \ F \in SUBSET DOMAIN rows[t] /\ F \in SUBSET DOMAIN rows[t]
    BY <1>3, <1>5
  <2>2. PICK x \in ids \ F : \A y \in (ids \ F) \ {x} : Ahead(t, x, y)
    BY <2>1, FirstAndLast
  <2>3. {j \in ids : Ahead(t, j, x)} \in SUBSET F
    <3>1. ASSUME NEW j \in ids, Ahead(t, j, x), j \notin F  PROVE FALSE
      BY <2>2, <3>1, RowOrder
    <3>2. QED  BY <3>1
  <2>4. IsFiniteSet(F) /\ Cardinality(F) \in Nat
    BY <2>1, RankGrows
  <2>5. Rank(t, ids, x) <= Cardinality(F)
    BY <2>3, <2>4, FS_Subset DEF Rank
  <2>6. Rank(t, ids, x) < n
    BY <1>1, <1>5, <2>2, <2>4, <2>5
  <2>7. QED  BY <1>2, <2>2, <2>6
<1>6. QED  BY <1>3, <1>4, <1>5 DEF F

(* A page: what is left, or its beginning up to the row of the cursor.     *)
LEMMA PageFacts ==
  ASSUME RowsOK, NEW t \in Tables, NEW cursor, NEW lim \in Nat, lim > 0,
         NEW page, page = ListRows(t, [limit |-> lim, cursor |-> cursor])
  PROVE  \/ page.nextCursor = NoCursor /\ page.items = Sought(t, cursor)
         \/ \E last \in Sought(t, cursor) :
              /\ page.nextCursor = encodePageCursor(Position(t, last))
              /\ page.items \subseteq Sought(t, cursor)
              /\ \A x \in Sought(t, cursor) :
                   x \in page.items <=> x = last \/ Ahead(t, x, last)
<1> DEFINE S == Sought(t, cursor)
           fetched == First(t, S, lim + 1)
           items == First(t, fetched, lim)
           last == CHOOSE id \in items :
                     \A j \in items \ {id} : Before(t, Position(t, j), Position(t, id))
<1>1. S \in SUBSET DOMAIN rows[t]
  BY DEF Sought
<1>2. page = IF Cardinality(fetched) <= lim
             THEN [items |-> fetched, nextCursor |-> NoCursor]
             ELSE [items |-> items, nextCursor |-> encodePageCursor(Position(t, last))]
  BY DEF ListRows, paginate
<1> HIDE DEF S
<1>3. /\ fetched \subseteq S
      /\ \A x \in fetched, y \in S : Ahead(t, y, x) => y \in fetched
      /\ Cardinality(fetched) < lim + 1 => fetched = S
  BY <1>1, FirstFacts
<1> HIDE DEF fetched
<1>4. fetched \in SUBSET DOMAIN rows[t] /\ Cardinality(fetched) \in Nat
  BY <1>1, <1>3, RankGrows
<1>5. /\ items \subseteq fetched
      /\ \A x \in items, y \in fetched : Ahead(t, y, x) => y \in items
      /\ fetched # {} => items # {}
  BY <1>4, FirstFacts
<1> HIDE DEF items
<1>6. CASE Cardinality(fetched) <= lim
  <2>1. Cardinality(fetched) < lim + 1
    BY <1>4, <1>6
  <2>2. QED  BY <1>2, <1>3, <1>6, <2>1 DEF S
<1>7. CASE ~(Cardinality(fetched) <= lim)
  <2>1. fetched # {}
    <3>1. CASE fetched = {}
      <4>1. Cardinality(fetched) = 0
        BY <3>1, FS_EmptySet
      <4>2. QED  BY <1>7, <4>1
    <3>2. QED  BY <3>1
  <2>2. items # {} /\ items \in SUBSET DOMAIN rows[t]
    BY <1>4, <1>5, <2>1
  <2>3. \E x \in items : \A y \in items \ {x} : Ahead(t, y, x)
    BY <2>2, FirstAndLast
  <2>4. last \in items /\ \A y \in items \ {last} : Ahead(t, y, last)
    BY <2>3 DEF Ahead
  <2> HIDE DEF last
  <2>5. page.nextCursor = encodePageCursor(Position(t, last)) /\ page.items = items
    BY <1>2, <1>7
  <2>6. last \in S /\ items \subseteq S
    BY <1>3, <1>5, <2>4
  <2>7. \A x \in S : x \in items <=> x = last \/ Ahead(t, x, last)
    BY <1>3, <1>5, <2>4
  <2>8. QED  BY <2>5, <2>6, <2>7 DEF S
<1>8. QED  BY <1>6, <1>7

(* The cursor is where the next page begins: behind its row, and behind    *)
(* everything the walk has passed.                                         *)
LEMMA SeekFacts ==
  ASSUME RowsOK, NEW t \in Tables, NEW cursor \in Cursors,
         NEW last \in Sought(t, cursor), NEW next,
         next = encodePageCursor(Position(t, last))
  PROVE  /\ next \in Cursors /\ ValidCursor(next) /\ next # NoCursor
         /\ \A x \in DOMAIN rows[t] : x \in Sought(t, next) <=> Ahead(t, last, x)
         /\ Sought(t, next) \subseteq Sought(t, cursor)
<1>1. last \in DOMAIN rows[t] /\ last \in Nat /\ rows[t][last] \in Nat
  BY DEF Sought, RowsOK, TableOK
<1>2. Position(t, last).id = last /\ Position(t, last).sortKey \in Nat
  BY <1>1 DEF Position
<1>3. /\ next.v = CURSOR_VERSION /\ next.s = Position(t, last).sortKey /\ next.i = last
      /\ next \in Cursors /\ ValidCursor(next)
  BY <1>1, <1>2 DEF encodePageCursor, Cursors, ValidCursor
<1>4. next # NoCursor
  BY <1>3 DEF NoCursor, CURSOR_VERSION
<1>5. ASSUME NEW x \in DOMAIN rows[t]
      PROVE  x \in Sought(t, next) <=> Ahead(t, last, x)
  <2>1. CASE t \in Catalog
    BY <1>3, <1>4, <2>1 DEF Sought, seekAscending, decodePageCursor, Ahead, Before, Position
  <2>2. CASE t \notin Catalog
    BY <1>3, <1>4, <1>2, <2>2
       DEF Sought, seekDescending, decodePageCursor, Ahead, Before, RowLess
  <2>3. QED  BY <2>1, <2>2
<1>6. ASSUME NEW x \in DOMAIN rows[t], Ahead(t, last, x)
      PROVE  x \in Sought(t, cursor)
  <2>0. /\ x \in Nat /\ rows[t][x] \in Nat /\ cursor.s \in Nat /\ cursor.i \in Nat
    BY DEF RowsOK, TableOK, Cursors
  <2>1. CASE cursor = NoCursor
    BY <2>1 DEF Sought
  <2>2. CASE cursor # NoCursor /\ t \in Catalog
    BY <1>1, <1>6, <2>0, <2>2
       DEF Sought, seekAscending, decodePageCursor, Ahead, Before, Position
  <2>3. CASE cursor # NoCursor /\ t \notin Catalog
    <3>1. \/ rows[t][last] < cursor.s
          \/ rows[t][last] = cursor.s /\ last < cursor.i
      BY <2>3 DEF Sought, seekDescending, decodePageCursor, RowLess, Position
    <3>2. \/ rows[t][x] < rows[t][last]
          \/ rows[t][x] = rows[t][last] /\ x < last
      BY <1>6, <2>3 DEF Ahead, Before, RowLess, Position
    <3>3. \/ rows[t][x] < cursor.s
          \/ rows[t][x] = cursor.s /\ x < cursor.i
      BY <1>1, <2>0, <3>1, <3>2
    <3>4. QED  BY <2>3, <3>3 DEF Sought, seekDescending, decodePageCursor, RowLess, Position
  <2>4. QED  BY <2>1, <2>2, <2>3
<1>7. Sought(t, next) \subseteq Sought(t, cursor)
  BY <1>5, <1>6 DEF Sought
<1>8. QED  BY <1>3, <1>4, <1>5, <1>7

(* Each transport's route leads to the same page.                          *)
LEMMA RoutesAgree ==
  ASSUME NEW r, r.table \in Tables, r.limit \in Nat, NEW via \in Transports(r.table)
  PROVE  /\ limit(r.limit) \in Nat /\ limit(r.limit) > 0
         /\ Page(via, r) =
              ListRows(r.table, [limit |-> limit(r.limit), cursor |-> r.cursor])
<1>1. DEFAULT_PAGE_LIMIT \in Nat /\ DEFAULT_PAGE_LIMIT > 0
  BY ListingAssumption
<1>2. limit(r.limit) \in Nat /\ limit(r.limit) > 0
  BY <1>1, ListingAssumption DEF limit
<1>3. limit(RestLimit(r.limit)) = limit(r.limit)
  BY <1>1 DEF limit, RestLimit
<1> DEFINE asked == [limit |-> limit(r.limit), cursor |-> r.cursor]
<1>4. /\ PageRequest(r.limit, r.cursor) = asked
      /\ PageRequest(RestLimit(r.limit), r.cursor) = asked
  BY <1>3 DEF PageRequest
<1> HIDE DEF asked
<1>5. CASE r.table \in Catalog
  <2>1. CatalogPage(r.table, asked) = ListRows(r.table, asked)
    BY <1>5 DEF CatalogPage, Catalog, listImages, listFlavors, listNetworks
  <2>2. Page(via, r) = CatalogPage(r.table, asked)
    <3>1. GrpcPage(r) = CatalogGrpcController(r) /\ RestPage(r) = CatalogController(r)
      BY <1>5 DEF GrpcPage, RestPage, Catalog, Administrative
    <3>2. QED  BY <1>4, <3>1 DEF Page, CatalogGrpcController, CatalogController
  <2>3. QED  BY <1>2, <2>1, <2>2 DEF asked
<1>6. CASE r.table \in {"instances", "operations", "snapshots"}
  <2>1. TenantPage(r.table, asked) = ListRows(r.table, asked)
    BY <1>6 DEF TenantPage, listInstances, listOperations, listSnapshots
  <2>2. r.table = "snapshots" => via = "rest"
    BY DEF Transports
  <2>3. Page(via, r) = TenantPage(r.table, asked)
    <3>1. /\ InstanceGrpcController(r) = TenantPage(r.table, asked)
          /\ OperationGrpcController(r) = TenantPage(r.table, asked)
          /\ InstancesController(r) = TenantPage(r.table, asked)
          /\ SnapshotsRoute(r) = TenantPage(r.table, asked)
          /\ OperationsController(r) = TenantPage(r.table, asked)
      BY <1>4 DEF InstanceGrpcController, OperationGrpcController, InstancesController,
                  SnapshotsRoute, OperationsController
    <3>2. RestPage(r) = TenantPage(r.table, asked)
      BY <1>6, <3>1 DEF RestPage, Catalog
    <3>3. r.table # "snapshots" => GrpcPage(r) = TenantPage(r.table, asked)
      BY <1>6, <3>1 DEF GrpcPage, Catalog, Administrative
    <3>4. QED  BY <2>2, <3>2, <3>3 DEF Page
  <2>4. QED  BY <1>2, <2>1, <2>3 DEF asked
<1>7. CASE r.table \in Administrative
  <2>1. AdministratorPage(r.table, asked) = ListRows(r.table, asked)
    BY <1>7 DEF AdministratorPage, Administrative, listAuditEvents, listDeadLetters
  <2>2. Page(via, r) = AdministratorPage(r.table, asked)
    BY <1>4, <1>7
       DEF Page, GrpcPage, RestPage, AdministrationGrpcController, DeadLettersController,
           AdministrationController, Administrative, Catalog
  <2>3. QED  BY <1>2, <2>1, <2>2 DEF asked
<1>8. QED  BY <1>5, <1>6, <1>7 DEF Tables, Catalog, Administrative

(* A walk's next page: the last one, or one more.                          *)
LEMMA NextPageFacts ==
  ASSUME RowsOK, NEW r \in Readers, r.table \in Tables, NEW via \in Transports(r.table),
         NEW page, page = Page(via, r)
  PROVE  \/ page.nextCursor = NoCursor /\ page.items = Sought(r.table, r.cursor)
         \/ /\ page.nextCursor \in Cursors /\ ValidCursor(page.nextCursor)
            /\ page.nextCursor # NoCursor
            /\ page.items \subseteq Nat /\ page.items \subseteq Sought(r.table, r.cursor)
            /\ Sought(r.table, page.nextCursor) \subseteq Sought(r.table, r.cursor)
            /\ \A x \in Sought(r.table, r.cursor) :
                 x \in page.items <=> x \notin Sought(r.table, page.nextCursor)
<1> DEFINE t == r.table  S == Sought(t, r.cursor)
<1>1. r.limit \in Nat /\ r.cursor \in Cursors
  BY DEF Readers
<1>2. /\ limit(r.limit) \in Nat /\ limit(r.limit) > 0
      /\ page = ListRows(t, [limit |-> limit(r.limit), cursor |-> r.cursor])
  BY <1>1, RoutesAgree
<1>3. CASE page.nextCursor = NoCursor /\ page.items = S
  BY <1>3
<1>4. ASSUME NEW last \in S,
             page.nextCursor = encodePageCursor(Position(t, last)), page.items \subseteq S,
             \A x \in S : x \in page.items <=> x = last \/ Ahead(t, x, last)
      PROVE  /\ page.nextCursor \in Cursors /\ ValidCursor(page.nextCursor)
             /\ page.nextCursor # NoCursor
             /\ page.items \subseteq Nat /\ page.items \subseteq S
             /\ Sought(t, page.nextCursor) \subseteq S
             /\ \A x \in S : x \in page.items <=> x \notin Sought(t, page.nextCursor)
  <2>1. S \subseteq DOMAIN rows[t] /\ DOMAIN rows[t] \subseteq Nat
    BY DEF Sought, RowsOK, TableOK
  <2>2. /\ page.nextCursor \in Cursors /\ ValidCursor(page.nextCursor)
        /\ page.nextCursor # NoCursor
        /\ \A x \in DOMAIN rows[t] : x \in Sought(t, page.nextCursor) <=> Ahead(t, last, x)
        /\ Sought(t, page.nextCursor) \subseteq S
    BY <1>1, <1>4, SeekFacts
  <2>3. \A x \in S : /\ ~Ahead(t, last, last)
                     /\ Ahead(t, x, last) => ~Ahead(t, last, x)
                     /\ x # last => Ahead(t, x, last) \/ Ahead(t, last, x)
    BY <2>1, RowOrder
  <2> HIDE DEF S
  <2>4. QED  BY <1>4, <2>1, <2>2, <2>3
<1>5. QED  BY <1>2, <1>3, <1>4, PageFacts

(* One more page is shown.                                                 *)
LEMMA OneMore ==
  ASSUME NEW r \in Readers, NEW items \in SUBSET Nat, NEW q,
         q.listed = Append(r.listed, items)
  PROVE  /\ q.listed \in Seq(SUBSET Nat)
         /\ \A id : NotListed(r, id) /\ id \notin items => NotListed(q, id)
         /\ \A id : NotListed(r, id) /\ id \in items => ListedOnce(q, id)
         /\ \A id : ListedOnce(r, id) /\ id \notin items => ListedOnce(q, id)
<1> DEFINE n == Len(r.listed) + 1
<1>1. r.listed \in Seq(SUBSET Nat)
  BY DEF Readers
<1>2. /\ q.listed \in Seq(SUBSET Nat) /\ DOMAIN q.listed = DOMAIN r.listed \cup {n}
      /\ q.listed[n] = items /\ n \notin DOMAIN r.listed
      /\ \A j \in DOMAIN r.listed : q.listed[j] = r.listed[j]
  BY <1>1, ExtendedSeq
<1> HIDE DEF n
<1>3. ASSUME NEW id, NotListed(r, id), id \notin items  PROVE NotListed(q, id)
  BY <1>2, <1>3 DEF NotListed
<1>4. ASSUME NEW id, NotListed(r, id), id \in items  PROVE ListedOnce(q, id)
  BY <1>2, <1>4 DEF NotListed, ListedOnce
<1>5. ASSUME NEW id, ListedOnce(r, id), id \notin items  PROVE ListedOnce(q, id)
  BY <1>2, <1>5 DEF ListedOnce
<1>6. QED  BY <1>2, <1>3, <1>4, <1>5

(* The walk goes on from where its page ended, or is over.                 *)
LEMMA PageTurned ==
  ASSUME RowsOK, NEW r \in Readers, r.phase = "walking", WalkOK(r),
         NEW via \in Transports(r.table), AskFor(via, r)
  PROVE  WInv'
<1> DEFINE page == Page(via, r)  t == r.table
<1>1. rows' = rows
  BY DEF AskFor, intakeVars, storeVars
<1>2. RowsOK'
  BY <1>1 DEF RowsOK, TableOK
<1>3. CASE page.nextCursor = NoCursor
  <2>1. reader' = [NoReader EXCEPT !.phase = "done"]
    BY <1>3 DEF AskFor
  <2>2. NoReader.cursor \in Cursors /\ <<>> \in Seq(SUBSET Nat)
    BY DEF NoReader, NoCursor, Cursors
  <2>3. reader' \in Readers /\ reader'.phase = "done"
    BY <2>1, <2>2 DEF NoReader, Readers
  <2>4. QED  BY <1>2, <2>3 DEF WInv
<1>4. CASE page.nextCursor # NoCursor
  <2>1. reader' = [r EXCEPT !.listed = Append(r.listed, page.items),
                            !.cursor = page.nextCursor]
    BY <1>4 DEF AskFor, Shown
  <2>2. t \in Tables
    BY DEF WalkOK
  <2>3. /\ page.nextCursor \in Cursors /\ ValidCursor(page.nextCursor)
        /\ page.items \subseteq Nat /\ page.items \subseteq Sought(t, r.cursor)
        /\ Sought(t, page.nextCursor) \subseteq Sought(t, r.cursor)
        /\ \A x \in Sought(t, r.cursor) :
             x \in page.items <=> x \notin Sought(t, page.nextCursor)
    BY <1>4, <2>2, NextPageFacts
  <2> HIDE DEF page
  <2>4. r = [phase |-> r.phase, table |-> r.table, limit |-> r.limit, cursor |-> r.cursor,
             listed |-> r.listed, moved |-> r.moved]
    BY DEF Readers
  <2>5. reader' = [phase |-> r.phase, table |-> r.table, limit |-> r.limit,
                   cursor |-> page.nextCursor, listed |-> Append(r.listed, page.items),
                   moved |-> r.moved]
    BY <2>1, <2>4
  <2>6. /\ reader'.listed = Append(r.listed, page.items) /\ reader'.cursor = page.nextCursor
        /\ reader'.table = t /\ reader'.moved = r.moved
    BY <2>5
  <2>7. /\ reader'.listed \in Seq(SUBSET Nat)
        /\ \A id : NotListed(r, id) /\ id \notin page.items => NotListed(reader', id)
        /\ \A id : NotListed(r, id) /\ id \in page.items => ListedOnce(reader', id)
        /\ \A id : ListedOnce(r, id) /\ id \notin page.items => ListedOnce(reader', id)
    BY <2>3, <2>6, OneMore
  <2>8. reader' \in Readers
    BY <2>3, <2>5, <2>7 DEF Readers
  <2>9. ASSUME NEW id \in DOMAIN rows[t] \ r.moved
        PROVE  IF id \in Sought(t, page.nextCursor)
               THEN NotListed(reader', id) ELSE ListedOnce(reader', id)
    <3>1. IF id \in Sought(t, r.cursor) THEN NotListed(r, id) ELSE ListedOnce(r, id)
      BY DEF WalkOK
    <3>2. QED  BY <2>3, <2>7, <3>1
  <2>10. Sought(reader.table, reader.cursor)' = Sought(t, page.nextCursor)
    BY <1>1, <2>6 DEF Sought, seekAscending, seekDescending, Position
  <2>11. WalkOK(reader)'
    BY <1>1, <2>2, <2>3, <2>6, <2>9, <2>10 DEF WalkOK, NotListed, ListedOnce, ValidCursor
  <2>12. QED  BY <1>2, <2>8, <2>11 DEF WInv
<1>5. QED  BY <1>3, <1>4

(* Rows that stay put keep their place in a walk.                          *)
LEMMA MeanwhileKeeps ==
  ASSUME IInv, WInv, Meanwhile
  PROVE  WInv'
<1>1. RowsOK /\ RowsOK' /\ reader \in Readers
  BY RowsKept DEF WInv, Meanwhile
<1>2. CASE reader.phase # "walking"
  <2>1. reader' = reader
    BY <1>2 DEF Meanwhile
  <2>2. QED  BY <1>1, <1>2, <2>1 DEF WInv
<1>3. CASE reader.phase = "walking"
  <2> DEFINE t == reader.table
  <2>1. /\ WalkOK(reader) /\ t \in Tables
    BY <1>3 DEF WInv, WalkOK
  <2>2. reader' = [reader EXCEPT !.moved = @ \cup Changed(t)]
    BY <1>3 DEF Meanwhile
  <2>3. reader = [phase |-> reader.phase, table |-> t, limit |-> reader.limit,
                  cursor |-> reader.cursor, listed |-> reader.listed, moved |-> reader.moved]
    BY <1>1 DEF Readers
  <2>4. reader' = [phase |-> reader.phase, table |-> t, limit |-> reader.limit,
                   cursor |-> reader.cursor, listed |-> reader.listed,
                   moved |-> reader.moved \cup Changed(t)]
    BY <2>2, <2>3
  <2>5. Changed(t) \subseteq Nat
    BY <1>1, <2>1 DEF Changed, RowsOK, TableOK
  <2>6. reader' \in Readers
    BY <1>1, <2>4, <2>5 DEF Readers
  <2>7. /\ reader'.table = t /\ reader'.cursor = reader.cursor
        /\ reader'.listed = reader.listed /\ reader'.moved = reader.moved \cup Changed(t)
    BY <2>4
  <2>8. ASSUME NEW id \in DOMAIN rows'[t] \ (reader.moved \cup Changed(t))
        PROVE  /\ id \in DOMAIN rows[t] \ reader.moved
               /\ id \in Sought(t, reader.cursor)' <=> id \in Sought(t, reader.cursor)
    <3>1. id \in DOMAIN rows[t] /\ rows'[t][id] = rows[t][id]
      BY DEF Changed
    <3>2. Position(t, id)' = Position(t, id)
      BY <2>7, <3>1 DEF Position
    <3>3. QED  BY <2>7, <3>1, <3>2 DEF Sought, seekAscending, seekDescending
  <2>9. WalkOK(reader)'
    BY <2>1, <2>7, <2>8 DEF WalkOK, NotListed, ListedOnce, ValidCursor, Sought
  <2>10. QED  BY <1>1, <2>6, <2>9 DEF WInv
<1>4. QED  BY <1>2, <1>3

(* The walks of the lists keep their invariant.                            *)
THEOREM WalksInvariance == ListingSpec => []WInv
<1>1. ListingInit => WInv
  <2> SUFFICES ASSUME ListingInit PROVE WInv
    OBVIOUS
  <2>1. rows = Stored /\ reader = NoReader
    BY DEF ListingInit, IntakeInit
  <2>2. RowsOK
    BY <2>1, IntakeAssumption, ListingAssumption DEF RowsOK, TableOK
  <2>3. NoCursor \in Cursors /\ <<>> \in Seq(SUBSET Nat)
    BY DEF NoCursor, Cursors
  <2>4. reader \in Readers /\ reader.phase = "idle"
    BY <2>1, <2>3 DEF NoReader, Readers
  <2>5. QED  BY <2>2, <2>4 DEF WInv
<1>2. ASSUME IInv, WInv, ListingNext  PROVE WInv'
  <2>1. CASE Meanwhile
    BY <1>2, <2>1, MeanwhileKeeps
  <2>2. ASSUME NEW role, NEW t \in Tables, NEW value \in Limits, StartWalk(role, t, value)
        PROVE  WInv'
    <3> DEFINE r == [NoReader EXCEPT !.phase = "walking", !.table = t, !.limit = value]
    <3>1. PICK via \in Transports(t) : AskFor(via, r)
      BY <2>2, Zenon DEF StartWalk
    <3>2. NoCursor \in Cursors /\ <<>> \in Seq(SUBSET Nat) /\ value \in Nat
      BY ListingAssumption DEF NoCursor, Cursors
    <3>3. /\ NoReader \in Readers /\ NoReader.cursor = NoCursor /\ NoReader.listed = <<>>
      BY <3>2 DEF NoReader, Readers
    <3>4. /\ r \in Readers /\ r.phase = "walking" /\ r.table = t
          /\ r.cursor = NoCursor /\ r.listed = <<>>
      BY <3>2, <3>3 DEF Readers
    <3> HIDE DEF r
    <3>5. WalkOK(r)
      <4>1. DOMAIN rows[t] \subseteq Sought(t, r.cursor)
        BY <3>4 DEF Sought
      <4>2. \A id : NotListed(r, id)
        BY <3>4 DEF NotListed
      <4>3. QED  BY <3>4, <4>1, <4>2 DEF WalkOK
    <3>6. QED  BY <1>2, <3>1, <3>4, <3>5, PageTurned DEF WInv
  <2>3. CASE NextPage
    <3>1. reader.phase = "walking" /\ reader \in Readers /\ WalkOK(reader) /\ RowsOK
      BY <1>2, <2>3 DEF NextPage, WInv
    <3>2. PICK via \in Transports(reader.table) : AskFor(via, reader)
      BY <2>3 DEF NextPage
    <3>3. QED  BY <3>1, <3>2, PageTurned
  <2>4. QED  BY <1>2, <2>1, <2>2, <2>3, Zenon DEF ListingNext
<1>3. ASSUME WInv, UNCHANGED listingVars  PROVE WInv'
  <2>1. rows' = rows /\ reader' = reader
    BY <1>3 DEF listingVars, intakeVars, storeVars
  <2>2. QED
    BY <1>3, <2>1 DEF WInv, RowsOK, TableOK, WalkOK, NotListed, ListedOnce, ValidCursor, Sought,
                       seekAscending, seekDescending, Position
<1>4. QED
  BY <1>1, <1>2, <1>3, ListingImplementsIntake, Invariance, PTL DEF ListingSpec

(* page-cursor.ts: a walk to the last page, over either transport, shows   *)
(* every row nobody touched meanwhile, and shows it once, for any page     *)
(* size and however often the other rows are rewritten.                    *)
THEOREM UntouchedRowsListedOnce == ListingSpec => StableRowsListedOnce
<1> DEFINE Complete == \A via \in Transports(reader.table) :
             \A id \in DOMAIN rows[reader.table] \ reader.moved :
               Cardinality({k \in DOMAIN Shown(via, reader) : id \in Shown(via, reader)[k]}) = 1
<1>1. ASSUME WInv, NextPage, reader'.phase = "done",
             NEW via \in Transports(reader.table),
             NEW id \in DOMAIN rows[reader.table] \ reader.moved
      PROVE  Cardinality({k \in DOMAIN Shown(via, reader) : id \in Shown(via, reader)[k]}) = 1
  <2> DEFINE t == reader.table  page == Page(via, reader)
             q == [listed |-> Shown(via, reader)]
  <2>1. /\ RowsOK /\ reader \in Readers /\ reader.phase = "walking" /\ WalkOK(reader)
        /\ t \in Tables /\ reader.limit \in Nat
    BY <1>1 DEF NextPage, WInv, WalkOK, Readers
  <2>2. PICK used \in Transports(t) : AskFor(used, reader)
    BY <1>1 DEF NextPage
  <2>3. Page(used, reader) = page
    <3>1. \A v \in Transports(t) : Page(v, reader) =
            ListRows(t, [limit |-> limit(reader.limit), cursor |-> reader.cursor])
      BY <2>1, RoutesAgree
    <3>2. QED  BY <2>2, <3>1
  <2>4. page.nextCursor = NoCursor
    <3>1. CASE page.nextCursor # NoCursor
      <4>1. reader' = [reader EXCEPT !.listed = Shown(used, reader),
                                     !.cursor = page.nextCursor]
        BY <2>2, <2>3, <3>1 DEF AskFor
      <4>2. reader'.phase = "walking"
        BY <2>1, <4>1 DEF Readers
      <4>3. QED  BY <1>1, <4>2
    <3>2. QED  BY <3>1
  <2>5. page.items = Sought(t, reader.cursor)
    BY <2>1, <2>4, NextPageFacts
  <2>6. page.items \in SUBSET Nat
    BY <2>1, <2>5 DEF Sought, RowsOK, TableOK
  <2>7. q.listed = Append(reader.listed, page.items)
    BY DEF Shown
  <2>8. IF id \in page.items THEN NotListed(reader, id) ELSE ListedOnce(reader, id)
    BY <2>1, <2>5 DEF WalkOK
  <2> HIDE DEF page, q
  <2>9. ListedOnce(q, id)
    BY <2>1, <2>6, <2>7, <2>8, OneMore
  <2>10. PICK k \in DOMAIN q.listed : \A j \in DOMAIN q.listed : id \in q.listed[j] <=> j = k
    BY <2>9 DEF ListedOnce
  <2>11. {j \in DOMAIN q.listed : id \in q.listed[j]} = {k}
    BY <2>10
  <2>12. Cardinality({j \in DOMAIN q.listed : id \in q.listed[j]}) = 1
    BY <2>11, FS_Singleton
  <2>13. QED  BY <2>12 DEF q
<1>2. ASSUME WInv  PROVE [(NextPage /\ reader'.phase = "done") => Complete]_listingVars
  BY <1>1, <1>2
<1>3. QED  BY <1>2, WalksInvariance, PTL DEF StableRowsListedOnce
=============================================================================
