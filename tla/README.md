# Verification of the private cloud control plane

This directory specifies, in TLA+, how the control plane turns a request into changes
of virtual machines and reports back, and checks that crashes, redeliveries, stalled
workers, overlapping transactions and unhelpful providers do not make it do so twice,
lose it, or report something that is not so. The specifications are translated from
the code under `src/`; `PROJECT.json` maps every definition to the lines it stands for.

## 1. The system

A tenant's request reaches the Control API over REST or gRPC, often from the web
console through its server (the BFF). It is *accepted* in one PostgreSQL transaction
that also writes a command to an outbox. Debezium publishes the outbox to Kafka. The
provisioning orchestrator consumes the command into a *workflow row*, and its workers
advance the row one stage at a time, calling a provider between two transactions. What
they learn goes through a second outbox and Kafka back to the Control API, which
projects it into the instance and operation documents. The reconciler observes the
machines on its own and publishes the drift it finds.

| Component | State | Operations | Hard part |
| --- | --- | --- | --- |
| Console and BFF (`console-web`, `console-bff`) | sessions, what the page last fetched | sign in and out, submit, refetch, forward | keys derived from content; sessions that end between click and answer |
| Control API transports (`apps/control-api`) | none | authenticate, check, map each route | two transports that must mean the same |
| Acceptance (`control-plane-store.ts`, `instance-guard.ts`, `control-plane.ts`, `domain`) | instances, operations, idempotency records, quotas, IPv4 leases, snapshots, outbox | accept create / power / resize / snapshot / retention / purge, request a dead-letter replay | requests racing for one instance, one quota or one address; retries with the same key |
| Lists (`control-plane-store.ts`, `page-cursor.ts`) | none | eight lists, page by page | rows rewritten between two pages |
| Kafka consumer, codec, contracts (`kafka-consumer.ts`, `message-codec.ts`, `event-validation.ts`, `command-routing.ts`) | offsets, receipts, quarantine | fetch, attempt, exhaust, commit | rebalances, redelivery, records nobody understands |
| Workflow store (`workflow-store.ts`) | receipts, workflows, leases with fencing tokens, dead letters, replay requests, outbox | admitCommand, admitReplayRequest, deadLetterCommand, claimNext, checkpoint, complete, deadLetterWorkflow | stale workers, expired leases, shared worker ids, replay racing the workflow |
| Executors (`lifecycle-workflow.ts` and the five capability files) | the claim in memory | one stage transition per claim: submit, poll, observe | crash between the provider's effect and the checkpoint; unknown outcomes; retries |
| Provider client, controller and adapters (`fake-provider.ts`, `proxmox-provider.ts`, `terraform-proxmox-provider.ts`) | VMs, tasks, Terraform states and runs | mutations, GetTask, ObserveInstance | lost answers, handlers that outlive their caller, VMIDs reused, applies in the background |
| Projection (`projection-store.ts`) | instance and operation documents, inbox | apply progress / completed / failed / replay / drift events | events of different operations and topics, again or late |
| Reconciler (`reconciliation-worker.ts`, `reconciliation-store.ts`) | last_reconciled_at, drift | claim stale, observe, record; requestReconciliation | starvation; observations older than what they overwrite |
| Worker and registry (`provisioning-worker.ts`, `workflow-registry.ts`) | rotation cursor | tick | starvation |

What makes each part correct is written down by the repository as the safety
invariants SAFE-001..036 (`docs/architecture/safety-invariants.md`) and the state
invariants of `docs/architecture/state-machines.md`; the properties below name the ones
they are about. `PROJECT.json` lists the hazards, each at the line where it bites, with
the properties that would catch it.

## 2. The modules

```
OperationLifecycle  <--implements--  WorkflowStore  <--  Provisioning
        |
        |  (assumed by)
        v
ControlApi <-- Acceptance <-- Projection <-- Reconciliation
                   ^
                   +--------- Console
Contracts <-- Intake <-- Listing
ProviderPort <-- ProxmoxProvider, TerraformProvider <-- ProviderAdapters
```

(`A <-- B`: B EXTENDS A.) Each has an `MC` module with its finite instances; `Intake` is
checked through `ListingMC`, the two adapters through `ProviderAdaptersMC`. The proofs are in
modules of their own: `WorkflowStoreProofs`, `ProvisioningProofs` (which extends it),
`AcceptanceProofs`, `QuotaProofs` and `ProjectionProofs` (which extend that one),
`IntakeProofs` (about `Intake` and `Listing`) and `AdaptersProofs`, with their common lemmas
in `SequenceFacts`.

### WorkflowStore, OperationLifecycle

Every public method of `PostgresWorkflowStore` is one database transaction that locks
what it reads, so it is one action. The variables are the tables of the `workflow`
schema, plus `published` (the records of `provisioning.commands.v1`) and `claim` (the
`ClaimedWorkflow` each process keeps in memory between its two transactions).

* *Delivery.* A published record stays in `published`, and any consumer action may take
  it again at any time. This allows more than a Kafka partition does; what a partition
  guarantees is in `Intake`.
* *Leases.* `lease[i].live` says whether `leased_until` is in the future; `LeaseLapses`
  is time passing. With `ClocksAgree = FALSE` the worker's clock and the database's
  disagree: `assertLease` then accepts a lapsed lease and `releaseLease` may leave a
  released one live.
* *Worker ids.* `WorkerIdOf` may map two processes to one id, and then `claimNext` lets
  each take over the other's live lease, as the code does.
* *Callers.* `checkpoint` and `complete` may be called with any stage, resource and task.
  What is checked and proved of this module therefore does not depend on the executors
  being right.
* *Facts.* `facts` is what the transactions write to the outbox for the Control API.
* *Replay.* A message's `request` stands for the payload hash and outbox id that
  `admitAuthorizedReplayCommand` compares. `ForeignRecords` claim
  a replay nobody authorised; the proofs cover them for every operation, the runs for a
  create (`provisioning_create`). `MixedDeployments` lets a consumer find a command's schema
  unsupported and dead-letter it.
* *Updates that match nothing.* `executeTakeFirstOrThrow` on an update without
  `RETURNING` does not throw when no row matches (it returns the result object), so
  closing a receipt or a dead letter is modelled as changing nothing in that case. That
  this case does not arise is a property (`ReceiptCoversWorkflow`,
  `ReplayFindsItsDeadLetter`), not an assumption.

`OperationLifecycle` is the abstract specification: an operation is started once, ends
once in each generation, success and review are final, and a failure is reopened only as
the next generation. `ImplementsLifecycle` is the refinement; it is checked by the run
`store` and proved (`StoreImplementsLifecycle`). `Projection` uses this specification in
place of the orchestrator.

Left out: timestamps other than the lease, telemetry, audit rows and the order in which
`readyWorkflow` prefers rows (any ready row may be claimed).

### Provisioning

A worker's turn is `ClaimNext` (transaction), a provider call (`SubmitMutation`,
`GetTask`, `Observe`) whose answer is kept in `response`, and one handler (`HandleAccepted`
... `Succeed`) that is one `Checkpoint`, `Complete` or `DeadLetterWorkflow`. Between them the
lease may lapse, another worker may take over, the caller's deadline may pass (`GiveUp`), or
the process may die (`Abandon`).

A mutation is two steps of the provider, because `#mutation` awaits between looking up the
request id and carrying the call out (`fake-provider.ts:723`, `:756`, `:789`; 20 ms in
`compose.phase4.yaml:270`). `CacheMiss` puts the call into `calls`, and `FinishMutation` carries
it out and remembers its result, whether or not its caller is still there. A call of a worker
that gave up or lost its lease can so overlap its successor's call with the same request id, and
both are carried out: `overlapped` records the requests this happened to. No action reads it; the
properties name it as their exception. A script that times out after its effect acts before it
awaits, and is one step. Tasks are known by their step, so two executions of one step share the
polls left to them.

The stage machines are tables (`Submit`, `Poll`, `FirstStage`), one entry per `case` of
the `execute` methods. The provider is `fake-provider.ts` with its script free: each
mutation succeeds, is refused, times out before or after its effect, or ends with an
unknown outcome with or without effect. `cache` is its memory of request ids, with the
parts of the request that its comparison sees. Three answers come from the provider port
and not from the fake: a synchronous success (`SyncSteps`), a failed task and a forgotten
task (`QueryFaults`). `OutOfBand` removes, stops or re-marks a VM behind the control
plane's back. A restart of the fake, which would lose its memory, is left out. `Acceptable` is the condition under which the Control API accepts an
operation; it reads workflow rows where the code reads the projection of their facts,
which lags behind, so acceptance is never later here than in the code.

### ControlApi, Acceptance

`ControlApi` gives, for each mutating route of REST and each gRPC method, the set of
inputs it passes on: authentication, DTO checks, defaults and conversions; empty when the
call is refused. `Acceptance` is what happens then. PostgreSQL runs at READ COMMITTED, so
a transaction that decides on rows it has not locked (the sums of a quota check, the scan
for a free address, the insert behind an idempotency lookup) is taken apart at its reads:
`tx[h]` is what handler `h` has read and holds locked. A transaction that touches only a
row it has locked is one action. The domain rules (quota arithmetic, lifecycle guards,
IPv4 ranges, resize) are operators. A refused request changes nothing and is no action.
Here the events of an operation are applied directly, in order; `Projection` puts the
pipeline in between.

### Projection, Reconciliation

`log[t][i]` is a topic's records about an instance: topics are partitioned by instance,
order holds within a log and not between two, and a record handled once may come again.
`Consume` is one handler transaction of `projection-store.ts` with its inbox receipt. The
orchestrator is `OperationLifecycle`'s; `Work` publishes its facts. An administrator may
replay what was dead-lettered, and resolutions travel on another topic than dead letters.

`Reconciliation` adds the sweep. `stamped` orders the instances by `last_reconciled_at`.
`ClaimStaleInstances` takes the batch and then drops rows without a provider resource, in
this order; `RecordObservation` comes later, outside that transaction;
`requestReconciliation` clears the stamp. What the provider answers is free.

### Contracts, Intake, Listing

`Contracts` has the contract of each event: what producers put into a record and what the
codec and the validators demand. A value is in its range or not, and so is what a create
measures before it reports success: it sends the provider's sizing as it came (`Measured`), while
a resize sends only a sizing equal to its command's and the others send none. `Intake` runs it:
Debezium publishes outbox rows, perhaps twice, into lanes (topic and partition); members
of a group own lanes, fetch, try a bounded number of times, quarantine or dead-letter, and
commit; a rebalance may come in the middle of a record; the database may be away for an
attempt. A damaged copy of a record (`PublishJunk`) may land in any partition of its topic and so
be read before its original. Between admission and last event a workflow is two steps here.

`Listing` lets a reader walk any list page by page, changing transport if it likes, while
`Intake`'s consumers rewrite the rows. Each controller's list routes are operators, as is the rule for a limit out of range.

### ProviderPort, ProxmoxProvider, TerraformProvider, ProviderAdapters

`ProviderPort` has the cluster (external: VMs, their locks and tasks), the slots in which
the controller serves calls, and the callers: one call at a time for an instance, each
under a token of its own; a caller may give up (`Abandon`) while its handler runs on. A call
keeps in `alone` whether it began with nothing of an earlier one still at work (`Quiet`); no
handler looks at it, the properties do. Statuses and reasons are translated as `rpcError` and `transportError` do.

`ProxmoxProvider` describes each mutation by what it reads first, where there is nothing
to do, and the requests it then sends; every request is a step of its own. The answer to a
request may be lost, or arrive and be unreadable (`UnreadableAnswer`: no JSON, no `data`, no task
id, or a JSON `null`), after the cluster carried the request out; `garbled` records that.
`TerraformProvider` has the state per workspace, the plan and its gate, the fenced run
row, the background job that plans again and applies, the direct calls with their
refresh, and the inventory. A Terraform command holds the state lock and is one step. The run
row of a refused plan is inserted as running (`insertRun`) and closed by a transaction of its own
(`completeRefused`); either write may fail, and the insert also after it was committed.
`ProviderAdapters` chooses the adapter in the initial state and never again.

### Console

A user who waits for each answer, in front of `Acceptance`: `KeyParts` is the content an
idempotency key is derived from; `Click`, `Forward` and `Serve` take it through the BFF's
session to the API, `Reported` or `Failed` is what the page then says, and `Fetched` is
the refetching of what it shows. The BFF's sessions live in memory and may
disappear (`EndSessions`).

## 3. The runs

`MaxToken` bounds the claims of an instance, `MaxFaults` the crashes, early lapses, calls given
up, failed writes and outages, `MaxPolls` the polls a task stays running, `MaxAttempts` stands for the code's 8,
`MaxCalls` bounds the calls for an instance, `MaxClock` the times rows may have. Deadlock
is not checked: a system whose operations have all ended may stop.

| Run | Instance | Shows |
| --- | --- | --- |
| `store` | 2 operations on one instance, 3 processes (two with one WORKER_ID), 2 replay requests, clocks apart, mixed deployments, 3 claims; 619 622 states | `UniqueLeaseHolder` (SAFE-010), `FreshClaim`, `ReceiptCoversWorkflow`, `OneOutcomePerGeneration`, `ReplayFindsItsDeadLetter`, `GenerationNotReused`, `AuthorityNotStranded`, `TerminalIsFinal`, and the refinement `ImplementsLifecycle` |
| `provisioning_create` | a create, its replay and an unauthorised one, 2 workers, every outcome, every query fault, drift, 1 fault; 1 239 538 states | `EffectAtMostOnce` (SAFE-015), `UnknownOutcomeGoesToReview` (SAFE-018), `SucceededMeansCarriedOut`, `PollingHasItsTask` (SAFE-014), `PTypeOK` (which contains the store's `TypeOK`) |
| `provisioning_day_two` | create, snapshot, rollback, refusals, timeouts, unavailable queries, 1 fault, fair; 175 127 states | `EveryWorkflowEnds`, `MutationsKnowTheirResource` |
| `provisioning_decommission` | create, stop, resize, retain, purge, refusals, drift, 1 fault; 775 741 states | `PurgedMeansAbsent` (SAFE-006) |
| `acceptance_life` | 2 database connections, three creates of a project with room for one, over both transports, the whole life of the first instance and a power action on the third, each request any number of times; 547 094 states | `RetryFindsItsOperation` (SAFE-008, 009), `InsertsDoNotConflict`, `AddressesDistinct` (SAFE-023, 024), `QuotaOverrunBounded`, `PurgedAfterRetention`, `SnapshotsSettle` |
| `pipeline` | acceptance, orchestrator and projection: a create, a power action and a retention, dead letters and a replay, fair; 195 270 states | `OperationIsItsLastEvent`, `OneWorkflowUnlessReplayed` (SAFE-010 end to end), `DocumentsFollowRows`, `InstanceNotLeftBusy`, `ReplayIsAnswered` |
| `provider_adapters` | either adapter, 2 instances that want one VMID, 2 slots, 3 calls, one abandoned call, one fault; 1 974 161 states | `RefusedMeansUnchanged`, `MutatesOwnVm` (SAFE-006), `SecondVmOnlyBefore`, `OnlyPurgeDestroys`, `RunningHasItsJob`, `RunsInTokenOrder` |
| `intake` | 2 instances, 2 partitions, 2 members, one damaged copy anywhere in its topic, sizing out of contract, 2 attempts, 1 fault, a reader of the operations list, fair; 118 768 states | `NothingSkipped` (SAFE-012), `EventsInOrder` (SAFE-013), `OwnRecordsUnderstood`, `StableRowsListedOnce`, `EveryCommandAnswered` |

Four runs expect a violation; they are described below.

*What some properties leave out.* Each exception is part of the property's definition; these are
the ones a reader might overlook.

* `EffectAtMostOnce`, `UnknownOutcomeGoesToReview`, `SucceededMeansCarriedOut` and
  `PurgedMeansAbsent` except a request two of whose calls waited in the provider at once.
* `UnknownOutcomeGoesToReview` is about the fake provider, which never answers INTERNAL. An INTERNAL
  after an effect is in the adapters' model and an exception of `RefusedMeansUnchanged`.
* `MutationsKnowTheirResource` is checked without replays; a replay resets the row it reopens.
* `SnapshotsSettle` is about success.
* `RunsInTokenOrder` compares a run with those seen when its token was compared; a lease that moves
  between that and the insert is outside it.
* `MutatesOwnVm` is about the requests of a handler, not about the applies of a background job.
* `OnlyPurgeDestroys` says nothing of the direct adapter, which has no runs, and is content with
  any purge run that was ever begun for the VM's owner.
* `EventsInOrder` and `EveryCommandAnswered` except events whose receipt a quarantined record took.

*Why the bounds are enough.* Every hazard of the store needs at most a holder, a successor
and one more claim of an instance; three claims by three processes give every order of
take-over and late write, and three generations of one operation cover a replay of a
replay. One fault per behaviour puts a crash or a lapse at each point of each workflow; a
second one repeats the situation with a larger token. Two attempts have both a retry and
an exhaustion. In the provisioning runs `MaxToken` is above what the behaviours use. In
`store` the token bound cuts behaviours off; the theorems cover what lies beyond it. Two
connections are enough for a lost update between two transactions; a third would widen the
overrun that `QuotaOverrunBounded` allows and nothing else. Two VMIDs and two instances
that hash to the same one have every collision, and a freed VMID before an occupied one;
three calls for an instance are a create, its repetition and a call that relies on them. (A
fourth has one more case, which the proof found; section 4.)
Two partitions and two members have a rebalance in both directions; a page of one row puts
every row at a page boundary. Deletion of snapshots and a power action to running share the
code paths of the actions in the provisioning runs and are not instantiated there.
`provider_adapters` leaves out shutdown, which takes the path of start; stop, reboot and the other
snapshot calls, which take the path of rollback; and retain, which takes that of configure. Its
view leaves out the workspace's drift column, which the adapter writes and nothing reads.

*Fairness.*

* `provisioning_day_two`. A worker's loop reschedules itself after every tick and every
  provider call has a deadline (`WF` of `Worker`); Kafka delivers uncommitted records again
  (`WF` of `Consumer`); a claim whose write the fence refuses is dropped (`WF` of
  `Abandon`); a lease nobody holds runs out (`WF` of `Lapse`). Nothing is assumed of which
  worker crashes or which lease lapses early. A provider that reports a task as running for
  ever keeps its workflow polling for ever: the retry counter is reset by each such poll,
  and there is no other limit in the code.
* `pipeline`. `WF` of the orchestrator's work, of replay resolutions and of a transaction's
  next step. `SF` of each topic's consumer: its transaction waits for row locks that come
  and go, PostgreSQL queues the waiters of a row, and an aborted one is delivered again.
* `reconciler_starvation`. The sweep is rescheduled whatever it ran into. It skips locked
  rows; locks last for milliseconds and a sweep comes every thirty seconds, hence `SF`.
* `intake`. One `WF` over all workflows' progress and end and one over all consumer steps.
  Each group has a poll loop of its own, so this is less than the code guarantees.

### Disagreements between the code and what is written about it

With a run:

* `failed_create_leaves_vm` (`FailedCreateLeavesNoVM`). When the retries of a polling or
  observing stage run out the create is reported failed, not for review, with its VM in
  existence; `state-machines.md` defines failed as leaving none.
* `replay_races_next_operation` (`OneWorkflowPerInstance`). Replaying a dead-lettered
  operation does not look at the instance, which may have accepted another operation
  since. The lease still serialises their transitions (`UniqueLeaseHolder` is proved), but
  two workflows are in progress on one instance. `OneWorkflowUnlessReplayed` shows that
  this is the only way.
* `reconciler_starvation` (`ManagedInstancesAreReconciled`). The batch limit is applied
  before rows without a provider resource are dropped, and those are never stamped: a
  create that failed early takes a place in every batch, for ever.
* `console_power` (`LastAcceptedActionStands`). The console's key is a function of the
  request's content, so the third of *start, stop, start* is answered from the record of
  the first and does nothing, while the console says it was accepted.

Without a run, met while modelling:

* Two overlapping calls with one request id are both carried out (above), against
  `fake-provider.ts:232-237`: a replayed create "must leave this at 1, however many times the
  call was made". A create finds the first call's VM; after a purge in between it makes a new one.
* An answer that cannot be read after a mutation was carried out is thrown as `protocol_error`
  (`proxmox-provider.ts:1532-1545`, `required()` at 212-219, `direct-client.ts:316-328`), which the
  client reports as a refusal. `direct-client.ts:305` says "Only `protocol_error` implies nothing
  happened", `grpc-provider.client.ts:169` that it "means the request was malformed and rejected
  before the provider acted". INTERNAL, as which an unforeseen exception arrives, is read the same way.
* A create submitted again clones a second VM when a VMID before its own in the probe sequence was
  freed; `proxmox-provider.ts:510-512` says an existing VM with the markers is "reused, rather than
  cloned again". `SecondVmOnlyBefore` says that this is the only way.
* A purge's ownership check does not prove that the VM "is still ours at the instant of the call"
  (`proxmox-provider.ts:1121-1123`): the check and the delete are two requests. `MutatesOwnVm` says
  for which handlers nothing comes between them.
* A running Terraform run can be left without a job: by a crash, by two failed writes of the
  background job, or by one failed write of `startApply` (`terraform-proxmox-provider.ts:823-842`).
  "Every path here ends in `completeRun`" (870) holds of the background job only, and nothing takes
  such a run up again.
* `state-machines.md:60` has `MANUAL_REVIEW` as not terminal and `operation-lifecycle.mmd:18-20`
  gives it three exits (resume, observed success, observed failure). The code has none of them:
  `manual_review` is terminal in `workflow-store.ts`, and in `TerminalIsFinal` and
  `OperationLifecycle`. Nothing in the code compensates either (`COMPENSATING` in the same table).
* The sizing measured after a create goes into its last event unchecked
  (`lifecycle-workflow.ts:956-977`), and `event-validation.ts:334-340` refuses one outside 1..64,
  512..262144 and 8..2048: the create succeeded, its event is quarantined, and the operation stays
  as it is in the read model.
* The projection's quarantine takes the receipt of the event a record claims to be
  (`projection-store.ts:156`). A damaged copy in another partition that is read first has the good
  event skipped as a duplicate.
* The fake provider excludes the fencing token from its comparison of requests only where
  `context` is at the top level (`fake-provider.ts:161-173`). Resize, snapshot, retain and
  purge nest it, so their resubmission after a crash is refused as a reused request id and
  the workflow ends as failed although its mutation was carried out. Only the fake does so.
* The direct adapter's `assertOwnership` compares the operation that created the VM with
  the calling one (`proxmox-provider.ts:1273`), while the executors send their own
  (`lifecycle-workflow.ts:630`, `:659`): a later operation is refused. The model has both
  kinds of call. `assertResources` (1297-1322) also refuses a flavor whose disk differs from
  the template's.
* The Terraform adapter observes a state it cannot read as an absent machine, and ignores
  the exit code of a refresh; a purge workflow takes absence, or an answer without an
  observation (`purge-instance-workflow.ts:106`), as its success.
* `recordWorkspace` compares no fencing token (`terraform-proxmox-provider.ts:900`), which
  `terraform-inventory-store.ts:80-81` says every write does; no decision reads the column.
  The background job's `discard` is given the workspace's name instead of its directory and
  so removes nothing (949). The runner's untaint is never called, so a create that
  failed half way is planned as a replacement and refused by the gate from then on.
* Quota (SRS-FR-012) is summed without a lock that two requests of a project share;
  `QuotaOverrunBounded` says by how much it can be passed.
* An idempotency record's expiry is written and never tested (`control-plane-store.ts:72-73`
  and 1732). `releaseIpv4Lease` (691-735) has no caller.
* Over gRPC a resize is not held to the 8..2048 GiB of REST
  (`instance-grpc.controller.ts:124-130`); `tracestate` is taken over unchecked there and
  checked in `request-context.ts:55-57`; a list limit out of range is replaced in silence.
* A failed snapshot operation leaves its snapshot in transition (`projection-store.ts:548`).
  A sweep that finds no drift publishes nothing (`reconciliation-store.ts:125`), so a
  document shows old drift until an operation completes.
* The comment at `workflow-store.ts:223` says that only a create can be dead-lettered by
  exhausted retries, but every capability can (`retryOrDeadLetter` is shared); a replay then
  resets its row's provider resource. The comment at `workflow-store.ts:500` ("a stale token
  matches no row and the update throws") counts on an exception that does not come;
  `assertLease` is what protects the write.
* `AuthorityNotStranded` has one exception, which its definition states: when a consumer
  that does not support a replay dead-letters it, the next request authorises a generation
  the workflow row, still one behind, refuses as a state conflict.
* A record that claims a replay nobody authorised is rejected, but a consumer that does not
  support its schema dead-letters it under the generation it claims; `ReplayFindsItsDeadLetter`
  does not hold then, so the run `store` has no such record. Nothing in the system writes one.
* An executor that throws ends the registry's tick before its cursor moves
  (`workflow-registry.ts:68`), so the next tick meets it first again.

## 4. The proofs

Each theorem holds for every value of the constants that satisfies the `ASSUME` of the
module it is about: any number of operations, instances, workers, connections, members,
VMIDs and calls, and any number of faults. The assumptions say which values the constants
have, not how many: `StoreAssumption` says nothing of worker ids being distinct or of
clocks; `AcceptanceAssumption` takes for granted what the DTOs and the gRPC wire types
guarantee of a request (a list of keys is a list, a disk size a natural number) and what the
catalog's columns hold; `ProvisioningAssumption` ties the store's free parameters
to the executors'; `IntakeAssumption` gives each command an operation of its own;
`PortAssumption` has a range that is not empty and a seed for each instance. Three
assumptions are about finiteness: `PoolAssumption` (the connection pool and the catalog's
flavors are finite and not empty, without which the quota bound has no meaning),
`ProjectionAssumption` (the requests ever made are finite, so that the model's tables of
operations have room) and `ListingAssumption` (a table starts finite; ids are numbers, in the
order PostgreSQL gives them).

`SequenceFacts` has the lemmas on appending to and updating a table or a log, and that some
natural numbers have a least one. The latter replaces induction: the library's induction
theorems take an operator as a parameter, which the provers cannot instantiate, and a least
counterexample does the same work.

| Module | Theorem | Statement |
| --- | --- | --- |
| `WorkflowStoreProofs` | `TypeCorrect` | `Spec => []TypeOK` |
| | `LeaseHolderIsUnique` | `Spec => []UniqueLeaseHolder` |
| | `ClaimIsFresh` | `Spec => []FreshClaim` |
| | `ReceiptsCoverWorkflows` | `Spec => []ReceiptCoversWorkflow` |
| | `OutcomeIsUnique` | `Spec => []OneOutcomePerGeneration` |
| | `TerminalRowsAreFinal` | `Spec => TerminalIsFinal` |
| | `StoreImplementsLifecycle` | `Spec => ImplementsLifecycle` |
| | `Inductive` | `Spec => []IInv`, the invariant behind them |
| | `LetterAwaitsReplay` | `Governed => (Spec => []ReplayFindsItsDeadLetter)` |
| | `GenerationIsNew` | `Governed => (Spec => []GenerationNotReused)` |
| | `AuthorityStands` | `Governed => (Spec => []AuthorityNotStranded)` |
| | `ReplaysInOrder` | `Governed => (Spec => []Replays)`, the invariant behind them |
| `ProvisioningProofs` | `WorkersUseTheStore` | `PSpec => Spec` |
| | `WorkersTypeCorrect` | `PSpec => []PTypeOK` |
| | `EffectsHappenOnce` | `PSpec => []EffectAtMostOnce` |
| | `TasksAreKept` | `PSpec => []PollingHasItsTask` |
| | `SuccessIsReal` | `PSpec => []SucceededMeansCarriedOut` |
| | `PurgeIsReal` | `PSpec => []PurgedMeansAbsent` |
| | `UnknownIsReviewed` | `PSpec => []PlainUnknownGoesToReview` |
| | `UnknownOutcomesReviewed` | `(\A o \in Ops : Plain(o)) => (PSpec => []UnknownOutcomeGoesToReview)` |
| | `ProvisioningInvariance` | `PSpec => []PInv` |
| | `UnreplayedKnowTheirVm` | `PSpec => []VmsKnown` |
| | `MutationsAreAddressed` | `Requests = {} => (PSpec => []MutationsKnowTheirResource)` |
| | `OneWorkflowButForReplays` | `PSpec => []UnreplayedAreSerial` |
| | `OneWorkflowWithoutReplays` | `Requests = {} => (PSpec => []OneWorkflowPerInstance)` |
| | `VmsAreTracked` | `PSpec => []KInv`, the invariant behind these four |
| `AcceptanceProofs` | `TypeCorrect` | `Spec => []ATypeOK` |
| | `Idempotent` | `Spec => []RetryFindsItsOperation` |
| | `NoConflict` | `Spec => []InsertsDoNotConflict` |
| | `DistinctAddresses` | `~ReleaseOnRetain => (Spec => []AddressesDistinct)` |
| | `RetentionFirst` | `Spec => []PurgedAfterRetention` |
| | `Settled` | `Spec => []SnapshotsSettle` |
| | `Invariance` | `Spec => []AInv` |
| `QuotaProofs` | `OverrunBounded` | `Spec => []QuotaOverrunBounded` |
| | `QuotaInvariance` | `Spec => []QInv`, the invariant behind it |
| `ProjectionProofs` | `LastEventDecides` | `ProjectionSpec => []OperationIsItsLastEvent` |
| | `OneWorkflow` | `ProjectionSpec => []OneWorkflowUnlessReplayed` |
| | `DocumentsAgree` | `ProjectionSpec => []DocumentsFollowRows` |
| | `PipelineInvariance` | `ProjectionSpec => []PInv` |
| `IntakeProofs` | `NoRecordSkipped` | `IntakeSpec => []NothingSkipped` |
| | `OrderedOnce` | `IntakeSpec => []EventsInOrder` |
| | `ContractsAgree` | `IntakeSpec => []OwnRecordsUnderstood` |
| | `Invariance` | `IntakeSpec => []IInv` |
| | `ListingImplementsIntake` | `ListingSpec => IntakeSpec` |
| | `UntouchedRowsListedOnce` | `ListingSpec => StableRowsListedOnce` |
| | `WalksInvariance` | `ListingSpec => []WInv`, the invariant behind it |
| `AdaptersProofs` | `RefusalsAreSafe` | `AdaptersSpec => []RefusedMeansUnchanged` |
| | `ChangesOwnVm` | `AdaptersSpec => MutatesOwnVm` |
| | `SecondVmOnlyAhead` | `AdaptersSpec => SecondVmOnlyBefore` |
| | `PurgesAloneDestroy` | `AdaptersSpec => OnlyPurgeDestroys` |
| | `RunsAreWorkedOn` | `AdaptersSpec => []RunningHasItsJob` |
| | `FenceHolds` | `AdaptersSpec => []RunsInTokenOrder` |
| | `AdaptersInvariance`, `SearchesPass` | `AdaptersSpec => []AInv`, `AdaptersSpec => [](AInv /\ Searches)` |

### The store

`IInv == TypeOK /\ Fence /\ Ledger`.

*Fence.* `UniqueLeaseHolder` and `FreshClaim` are not inductive: they say nothing of claims
that do not pass the fence now. `Fence` adds where tokens come from: a row's and a claim's
token were issued by the instance's lease (`RowTokens`, `ClaimTokens`), no token went to two
processes (`TokensDistinct`), and a row still bearing a claim's token is as the claim read
it (`ClaimsMirrorRows`). The one argument: `claimNext` issues a token above all earlier
ones, and everything else that changes a row either presents the row's token and forgets
the claim that held it (`FenceWrite`), or touches a row that no claim mirrors because it is
absent or failed (`FenceAdmit`). Whether a lease is live plays no part, which is why neither
the clocks nor `LeaseLapses` matter to safety.

*Ledger.* Outcomes are unique because ending a generation closes its receipt, the receipt of
a running row is open (`ReceiptCoversWorkflow`), every outcome's receipt is closed
(`OutcomesAreCompleted`) and a closed receipt exists (`CompletedHaveReceipts`), so that a
replay's new receipt is open. `LedgerEnd` is the step that ends a workflow; it needs `Fence`
to know that the worker's generation is the row's.

*Replays.* A replay goes through four tables, and each of the three properties relates two of
them. The invariant orders all four: each replay command was published under its request
(`CommandsAuthorised`), a request's generation is not above its dead letter's
(`RequestsBounded`), every generation up to the dead letter's has its receipt except the one
it waits for (`LettersDelivered`), and the row has the dead letter's generation, or fails one
behind, or more than one behind a generation dead-lettered unread (`RowsFollowLetters`).
So a generation without a receipt is the one that is awaited (`UndeliveredIsAwaited`), and
the update of the dead letter finds it. `Governed == ForeignReplays = {} \/
~MixedDeployments` is needed: where a forged replay reaches a consumer that does not support
its schema TLC shows `ReplayFindsItsDeadLetter` violated (section 3).

*Refinement.* The mapping gives each operation the status of its row, with a retry wait
counted as running, and the row's generation. Each action
of the store maps to the start, end or reopening of one operation or to a stutter; `Fence`
is what makes the end a step from running, since a worker ends what its claim mirrors.

### The workers and the provider

`PInv` adds to `Fence` and `Ledger` where rows, claims, unhandled answers and the provider's
memory (`cache`) stand to each other. A row is at a stage of its own capability and the steps
behind that stage were carried out (`RowsInStep`); an answer belongs to the stage of its
claim (`ResponsesFit`); a step was not carried out if the provider does not remember it, and was
if it is remembered as accepted (`CachesFit`); a call in flight that overlapped no other is the
only one of a request nothing is remembered of (`CallsFit`), which is why its effect is the first.
The part that carries the proof is `ClaimsAhead`: a step of which the provider remembers nothing is
still ahead of the row, at the claim's own stage and generation, so a worker that lost its lease
long ago and submits it late does nothing a row has moved past. `CallsAhead` says the same of the
calls in flight, whose caller may have gone: the row is at that step or in review. Once calls of a
request overlapped, the second may be remembered over the first; what is left then is that the
step was carried out at least once, which is all that `SucceededMeansCarriedOut` and
`PollingHasItsTask` say of it. The inductive step goes by whether the claim passes the fence: if it does,
`FreshClaim` makes the row the claim's; if it does not, the write is dropped.

`WorkersUseTheStore` is a refinement with the identity mapping: each worker step is a
transaction of the store with arguments of the right type, or leaves the store alone.

`UnknownOutcomeGoesToReview` is proved where a resubmission is recognised (`Plain`: creates
and power actions). For the other kinds it does not hold of the fake provider, which compares
the fencing token of a nested context and refuses the resubmission as a reused request id
(section 3); the workflow then fails.

*Which VM a workflow acts on.* A command of a later operation carries the resource that its
instance's create recorded. That it is there when the VM is rests on three facts, which `KInv`
puts together: an instance's commands are accepted one after the other (`OneAtATime`); a VM
exists only if the provider remembers a create it did not refuse (`MadeByCreate`); and such a
create stays at its submission, or in review, until its row has the resource (`CreatesStay`).
A replay ends this: `admitAuthorizedReplayCommand` resets the row it reopens, its resource
included, while the VM and perhaps a later operation exist. So `KInv` speaks of
instances none of whose operations was replayed (`Unreplayed`), whatever is replayed elsewhere,
and the two properties as the runs state them follow where nobody requests a replay at all
(`Requests = {}`). `OneWorkflowWithoutReplays` is the other half of the run
`replay_races_next_operation`: without the replay the race does not exist.

### Acceptance

The invariant says what the locks exclude: two open transactions have different idempotency
scopes, lock different instance rows and reserve on different networks (`ScopesHeldOnce`,
`RowsHeldOnce`, `NetworksHeldOnce`). `LInv` is the part that holds in whatever order the events
of operations are applied, and `AInv` adds what needs their order; `Projection`, where they
come late and again, builds on the former. So what each of them read under its lock is still so when
it writes: the record, the name and the address are still absent (`InsertsDoNotConflict`), the
instance is still idle (`RowsHeldAreFree`), and an operation that has not ended is the only
one its instance names (`UnfinishedIsActive`). Each operation then has its own idempotency record
(`OperationsRecorded`). Addresses are distinct because leases in use are
(`LeasesUnique`) and a retained machine's lease is in use under the quarantine policy
(`LeasesKept`): hence `~ReleaseOnRetain`. Under the other policy a retained machine's address
is given away while the machine exists, which is what that policy says.

### Quota

Nothing excludes two transactions that have both summed the usage, so `QuotaOverrunBounded` is
a counting argument. Each open transaction had room for its own charge when it read the sum, and
whatever was charged since then was charged by another connection, at most once each and at
most the largest amount. `Within` states this so that it is inductive: if no transaction of the
project is open the usage is within the bound; otherwise some open transaction still has room for
its charge, apart from one largest charge for each connection that has no transaction open. A
transaction that opens has room by its check; one that closes turns its own charge into usage and
itself into a connection that has none open; the rows released by a purge or a deletion only
lower the usage. The same lemmas serve the instances, the virtual CPUs and the snapshots.

The sums are folds (`MapThenSumSet`). What adding, changing or dropping one row does to such a
sum is proved from the fold's recursion equation (`TotalAdded`, `TotalChanged`, `TotalDropped`),
whose solution exists and is unique by a least counterexample on the size of the set.

### Projection

`PInv` joins acceptance's `LInv`, the orchestrator's tables and the logs. The logs are what the
proof is about. What was published of an operation of generation 0 follows its workflow, one
progress and then one outcome (`FactsFollowStatus`); the operation's state is what the last
of its facts among the handled ones says (`OperationSaysItsLast`); redelivery changes
nothing because the record has its receipt. Until something of an instance is
replayed, the instance names its one unfinished operation (`UnfinishedIsActiveUnlessReplayed`),
so a second command is not accepted before the first workflow's end has been projected, which
is `OneWorkflowUnlessReplayed`. A document differs from its row only while the row's own
operation waits for its first event (`DocumentsWait`).

### Intake

`DeliveryInv` is the protocol of offsets: a member that still owns its lane works on the first
uncommitted record, a member that lost it on one at or before, and it commits only what has a
fate (`OffsetsOK`); the epoch of a rebalance is what tells the two apart. `EventsInOrder`
needs to know that the end of a workflow is behind its progress in the same lane
(`EndsBehind`, of good records), that a damaged record is the copy of a good one somewhere in its
topic (`Originals`), that a refused event is set aside and nothing else (`RefusedSetAside`), and
that a receipt exists of each good record that has a fate. The receipt of a progress then means
that it was applied or that a copy of it was quarantined: the latter is the property's exception.

*Lists.* `WInv` says where a walk stands: a row nobody touched was shown exactly once if it lies
before the cursor, and not at all if it lies behind. One page is enough for the step
(`NextPageFacts`): it is everything behind the cursor, or a beginning of it that ends with the
row of the next cursor. That needs the order of the list to be total, ties of `updated_at`
included (`RowOrder`), the extra row of the query to tell whether there is a next page
(`FirstFacts`), and both transports to ask for the same page (`RoutesAgree`). A row rewritten
meanwhile may be shown twice or not at all, and the property does not speak of it.

### The adapters

`AInv` has, for each handler, what it has sent and still has to send (`CallsFit`), tokens
(`TokensFit`), runs and jobs (`RunsFit`), the Terraform states (`StatesFit`: a state that names
a VM names one of its own instance, and a plan that is still fresh was made for the VM that is
there), and who is alone. `CallsFit` says that a handler which answers with a refusal has sent
nothing, one of two requests, or something whose answer it could not read; `RunsFit` that a running
run has its job, is stranded, or is the one a handler at `refuse` is about to close (`Refusing`),
which is why the two transactions of a refused plan can be apart. `Sole`: a handler with a caller is the one that caller waits for,
and one that began alone stays the only one of its instance. `Undisturbed`: from the
ownership check to the last request no task is at work on its VM and no other handler is past
its own check there, so the VM cannot be destroyed and its VMID taken between the two.

The proof of `MutatesOwnVm` failed at first for a good reason. The property excused only
handlers whose caller had gone. A handler with a caller may begin while an earlier purge of the
same instance, whose caller gave up, is still in flight; it passes the ownership check, the
purge destroys the VM, another instance is cloned at the VMID, and the handler's request goes
there. That takes four calls; the run had three and had not found it (TLC finds it with four).
The property now names this exception too (`alone`), and its new form has been checked with
four calls as well as proved.

`SecondVmOnlyBefore` needs `Searches`: no VM of the instance is at a VMID its search has passed,
and none comes to be there while it searches; and arithmetic: the probe sequence
`(seed + k) % size` visits each VMID exactly once (`ProbesVisitOnce`), so that a position
before another is a VMID passed.

### Only model-checked

* Liveness (`EveryWorkflowEnds`, `InstanceNotLeftBusy`, `ReplayIsAnswered`,
  `EveryCommandAnswered`): out of the prover's reach.
* `UnknownOutcomeGoesToReview` for the kinds of operation whose resubmission the fake provider
  refuses, where it is false, and `MutationsKnowTheirResource` with replays, where it is false
  too: the theorems say for which operations and instances they hold.
* The runs that show a disagreement.

Every safety property of a passing run is otherwise proved.

## 5. Not modelled, and the plan

Not modelled: the workflow registry's rotation (a worker of `Provisioning` may claim any
ready workflow, which includes every order of the registry); reads of a single document;
`validateProfile` and `getCapabilities` of the adapters; the wording of error documents,
trace and correlation headers; rendering of Terraform variables, credentials and
diagnostics; presentation in the console; telemetry, generated types, deployment. None of
them decides what happens to an operation.

What is left to do, in this order:

1. `Provisioning` over `ProviderAdapters` instead of the fake, which the untruthful
   observations of the Terraform adapter make worth asking.
2. The registry's rotation under fairness.
