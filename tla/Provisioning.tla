---------------------------- MODULE Provisioning ----------------------------
(***************************************************************************)
(* The workflow executors (packages/application/src/lifecycle-workflow.ts  *)
(* and the power, resize, snapshot, retain and purge workflows) running on *)
(* WorkflowStore against a provider.  A worker claims a workflow in one    *)
(* transaction, calls the provider, and writes what it learned in another; *)
(* between the two the lease may lapse, another worker may take over, or   *)
(* the process may die.                                                    *)
(*                                                                         *)
(* The provider is packages/provider-adapters/src/fake-provider.ts with    *)
(* its script left free: every mutation may succeed, be refused, time out  *)
(* before or after taking effect, or end in an unknown outcome.  A call    *)
(* waits between looking up its request id and carrying it out, and is not *)
(* told when its caller gave up or died, so that calls may overlap.  VMs   *)
(* may also change behind the control plane's back.                        *)
(***************************************************************************)
EXTENDS WorkflowStore

CONSTANTS
  KindOf,       \* what an operation asks for
  MaxAttempts,  \* MAXIMUM_RETRY_ATTEMPTS
  MaxPolls,     \* bound on the polls a provider task stays running
  MaxFaults,    \* bound on crashes, early lapses and calls given up
  Modes,        \* provider outcomes the script may choose, of ScriptModes
  QueryFaults,  \* unwelcome answers to queries, of QueryFaultKinds
  SyncSteps,    \* steps the provider completes without a task
  Drift         \* VMs may change out of band

-----------------------------------------------------------------------------
(* The stage machines, as tables.                                          *)

(* A mutation stage: the step submitted, the stage after an asynchronous   *)
(* acceptance and the stage after a synchronous success.                   *)
SubmitStage(step, accepted, sync) ==
  [step |-> step, accepted |-> accepted, sync |-> sync]

SubmitCreate == SubmitStage("create", "polling_create", "configuring")
Configure == SubmitStage("configure", "polling_configuration", "starting")
Start == SubmitStage("start", "polling_start", "observing")
SubmitPower == SubmitStage("mutate", "polling_power", "observing_power")
SubmitResize == SubmitStage("mutate", "polling_resize", "observing_resize")
SubmitSnapshot == SubmitStage("mutate", "polling_snapshot", "observing_snapshot")
SubmitRetention == SubmitStage("mutate", "polling_retention", "observing_retention")
SubmitPurge == SubmitStage("mutate", "polling_purge", "observing_purge")

Submit ==
  [submitting_create    |-> SubmitCreate,   configuring         |-> Configure,
   starting             |-> Start,          submitting_power    |-> SubmitPower,
   submitting_resize    |-> SubmitResize,   submitting_snapshot |-> SubmitSnapshot,
   submitting_retention |-> SubmitRetention, submitting_purge   |-> SubmitPurge]

(* mutant: polling the create hands over to the start, unconfigured. *)
PollSkipsConfiguration ==
  [polling_create        |-> "starting",
   polling_configuration |-> "starting",
   polling_start         |-> "observing",
   polling_power         |-> "observing_power",
   polling_resize        |-> "observing_resize",
   polling_snapshot      |-> "observing_snapshot",
   polling_retention     |-> "observing_retention",
   polling_purge         |-> "observing_purge"]

(* mutant: a stage name the capability does not declare. *)
PollUndeclaredStage == [PollSkipsConfiguration EXCEPT !.polling_create = "configured"]

(* Polling stages: the stage that follows the task's success.              *)
Poll ==
  [polling_create        |-> "configuring",
   polling_configuration |-> "starting",
   polling_start         |-> "observing",
   polling_power         |-> "observing_power",
   polling_resize        |-> "observing_resize",
   polling_snapshot      |-> "observing_snapshot",
   polling_retention     |-> "observing_retention",
   polling_purge         |-> "observing_purge"]

(* The stage each capability enters from `accepted'.                       *)
FirstStage ==
  [create   |-> "submitting_create",
   start    |-> "submitting_power",    stop       |-> "submitting_power",
   reboot   |-> "submitting_power",    shutdown   |-> "submitting_power",
   resize   |-> "submitting_resize",
   snapshot |-> "submitting_snapshot", unsnapshot |-> "submitting_snapshot",
   rollback |-> "submitting_snapshot",
   retain   |-> "submitting_retention",
   purge    |-> "verifying_purge"]

Kinds == DOMAIN FirstStage
PowerKinds == {"start", "shutdown", "stop", "reboot"}
MutationStages == DOMAIN Submit
PollStages == DOMAIN Poll
ObserveStages == {"observing", "observing_power", "observing_resize",
                  "observing_snapshot", "observing_retention",
                  "observing_purge", "verifying_purge"}
StepNames == {"create", "configure", "start", "mutate"}
Keys == Ops \X StepNames
StepsOf(o) == IF KindOf[o] = "create" THEN {"create", "configure", "start"}
              ELSE {"mutate"}

ScriptModes == {"success", "failure", "timeout", "timeout_applied",
                "unknown", "unknown_applied"}
QueryFaultKinds == {"unavailable", "task_lost", "task_failed"}

ASSUME ProvisioningAssumption ==
  /\ KindOf \in [Ops -> Kinds]
  /\ \A o \in Ops : o \in CreateOps <=> KindOf[o] = "create"
  /\ Stages = MutationStages \cup PollStages \cup ObserveStages
  /\ Resources = CreateOps
  /\ Tasks = Keys
  /\ MaxAttempts \in Nat \ {0}
  /\ StageAttempts = 0..MaxAttempts
  /\ MaxPolls \in Nat /\ MaxFaults \in Nat
  /\ Modes \subseteq ScriptModes /\ "success" \in Modes
  /\ QueryFaults \subseteq QueryFaultKinds
  /\ SyncSteps \subseteq StepNames
  /\ Drift \in BOOLEAN

VARIABLES
  response,  \* what each process's provider call returned, until it is handled
  vm,        \* the provider's resources, by the operation that created them
  cache,     \* the provider's request deduplication, by request id
  polls,     \* polls a task will still report as running
  effects,   \* how often the provider carried out each request
  calls,     \* calls the provider has looked up and not yet carried out
  overlapped, \* requests two of whose calls were in flight at once; only
             \* the properties read it
  faults     \* crashes, early lapses and calls given up so far

providerVars == <<vm, cache, polls, effects, calls, overlapped>>
pvars == <<vars, response, providerVars, faults>>

VMs == [present : BOOLEAN, owned : BOOLEAN, power : {"running", "stopped"},
        resized : BOOLEAN, snapshot : BOOLEAN, retained : BOOLEAN]
ResponseKinds ==
  {"none", "calling", "accepted", "succeeded", "rejected", "unknown",
   "transport", "reused", "running", "done", "task_lost", "task_failed",
   "proved", "unproved", "verified", "no_listing"}
(* A call as the provider received it: the fencing token, one per claim,   *)
(* tells the calls for one request id apart.                               *)
Calls == [key : Keys, target : CreateOps, gen : Nat, token : Nat]
(* gen and token are the correlation id and fencing token in the request   *)
(* the provider remembers, 0 where it leaves them out of the comparison.   *)
CacheEntries == [state : {"none", "accepted", "succeeded", "rejected", "unknown"},
                 gen : Nat, token : Nat]

PTypeOK ==
  /\ TypeOK
  /\ response \in [Procs -> ResponseKinds]
  /\ vm \in [CreateOps -> VMs]
  /\ cache \in [Keys -> CacheEntries]
  /\ polls \in [Keys -> 0..MaxPolls]
  /\ effects \in [Keys -> Nat]
  /\ calls \subseteq Calls
  /\ overlapped \subseteq Keys
  /\ faults \in 0..MaxFaults

NewVM == [present |-> TRUE, owned |-> TRUE, power |-> "stopped",
          resized |-> FALSE, snapshot |-> FALSE, retained |-> FALSE]

PInit ==
  /\ Init
  /\ response = [p \in Procs |-> "none"]
  /\ vm = [r \in CreateOps |-> [NewVM EXCEPT !.present = FALSE]]
  /\ cache = [k \in Keys |-> [state |-> "none", gen |-> 0, token |-> 0]]
  /\ polls = [k \in Keys |-> 0]
  /\ effects = [k \in Keys |-> 0]
  /\ calls = {}
  /\ overlapped = {}
  /\ faults = 0

-----------------------------------------------------------------------------
(* The provider.                                                           *)

Waiting(p) == claim[p].op # None /\ response[p] = "none"
KeyOf(p) == <<claim[p].op, Submit[claim[p].stage].step>>
Target(p) == IF KeyOf(p)[2] = "create" THEN claim[p].op ELSE claim[p].resource

CallOf(p) == [key |-> KeyOf(p), target |-> Target(p),
              gen |-> claim[p].gen, token |-> claim[p].token]

(* requestJson drops the fencing token from requests that carry `context'  *)
(* at the top level: create, configure and the power calls.  The others    *)
(* nest it under `request', and keep it.                                   *)
CanonicalRequest(c) ==
  [gen |-> c.gen,
   token |-> IF KindOf[c.key[1]] \in PowerKinds \cup {"create"} THEN 0 ELSE c.token]

(* The markers a call presents name the create operation of the instance,  *)
(* which only a create takes from its own id.                              *)
createOperationId(o) ==
  IF o \in CreateOps THEN o
  ELSE CHOOSE q \in CreateOps : InstanceOf[q] = InstanceOf[o]
markersMatch(o, r) == vm[r].owned /\ r = createOperationId(o)
ownedResource(o, r) == vm[r].present /\ markersMatch(o, r)

(* The methods of the provider: what operation o makes of VM r, and        *)
(* whether the call is accepted or rejected.                               *)
Accepted(v) == [state |-> "accepted", vm |-> v]
Rejected(r) == [state |-> "rejected", vm |-> vm[r]]
IfOwned(o, r, v) == IF ownedResource(o, r) THEN Accepted(v) ELSE Rejected(r)

(* A second execution finds the VM of the instance, if it is still there.  *)
submitCreateInstance(o, r) == Accepted(IF vm[r].present THEN vm[r] ELSE NewVM)
(* The configuration itself is not part of the modelled state.             *)
applyInstanceConfiguration(o, r) == IfOwned(o, r, vm[r])
power(o, r, state) == IfOwned(o, r, [vm[r] EXCEPT !.power = state])
startInstance(o, r) == power(o, r, "running")
shutdownInstance(o, r) == power(o, r, "stopped")
stopInstance(o, r) == power(o, r, "stopped")
rebootInstance(o, r) == power(o, r, "running")
(* The accepted target never shrinks the disk: Acceptance!DiskNeverShrinks. *)
resizeInstance(o, r) == IfOwned(o, r, [vm[r] EXCEPT !.resized = TRUE])
createSnapshot(o, r) == IfOwned(o, r, [vm[r] EXCEPT !.snapshot = TRUE])
snapshotMutation(o, r, remove) ==
  IF vm[r].snapshot
  THEN IfOwned(o, r, [vm[r] EXCEPT !.snapshot = ~remove])
  ELSE Rejected(r)
rollbackSnapshot(o, r) == snapshotMutation(o, r, FALSE)
deleteSnapshot(o, r) == snapshotMutation(o, r, TRUE)
markInstanceRetained(o, r) == IfOwned(o, r, [vm[r] EXCEPT !.retained = TRUE])
(* The workflow always carries the authorisation and the deadline.         *)
purgeInstance(o, r) ==
  IfOwned(o, r, [vm[r] EXCEPT !.present = FALSE, !.snapshot = FALSE])

(* The power call of each requested action.                                *)
powerCall(o, r) ==
  CASE KindOf[o] = "start"    -> startInstance(o, r)
    [] KindOf[o] = "shutdown" -> shutdownInstance(o, r)
    [] KindOf[o] = "stop"     -> stopInstance(o, r)
    [] KindOf[o] = "reboot"   -> rebootInstance(o, r)

Execute(key, r) ==
  LET o == key[1]
      kind == KindOf[o] IN
  CASE key[2] = "create"    -> submitCreateInstance(o, r)
    [] key[2] = "configure" -> applyInstanceConfiguration(o, r)
    [] key[2] = "start"     -> startInstance(o, r)
    [] kind \in PowerKinds  -> powerCall(o, r)
    [] kind = "resize"      -> resizeInstance(o, r)
    [] kind = "snapshot"    -> createSnapshot(o, r)
    [] kind = "rollback"    -> rollbackSnapshot(o, r)
    [] kind = "unsnapshot"  -> deleteSnapshot(o, r)
    [] kind = "retain"      -> markInstanceRetained(o, r)
    [] kind = "purge"       -> purgeInstance(o, r)

(* A repeated request id is answered from the cache, or refused when the   *)
(* request differs from the one remembered.                                *)
AnswerFromCache(p) ==
  LET m == cache[KeyOf(p)] IN
  /\ m.state # "none"
  /\ response' = [response EXCEPT ![p] =
       IF [gen |-> m.gen, token |-> m.token] = CanonicalRequest(CallOf(p))
       THEN m.state ELSE "reused"]
  /\ UNCHANGED providerVars

(* mutant: a request that timed out after its effect is not remembered. *)
RememberedAnswers(mode) == mode \notin {"timeout", "timeout_applied"}

(* A request that timed out before its effect leaves no trace.             *)
Remembered(mode) == mode # "timeout"

(* What a call does once its wait is over, and what it leaves remembered,  *)
(* over whatever an overlapping call remembered before it.                 *)
ResultOf(c, mode) ==
  LET executed == mode \in {"success", "timeout_applied", "unknown_applied"}
      result == Execute(c.key, c.target)
      applied == executed /\ result.state = "accepted"
  IN [applied |-> applied, vm |-> result.vm,
      state |-> IF mode \in {"unknown", "unknown_applied"} THEN "unknown"
                ELSE IF ~applied THEN "rejected"
                ELSE IF c.key[2] \in SyncSteps THEN "succeeded" ELSE "accepted"]

CarryOut(c, mode) ==
  LET key == c.key
      result == ResultOf(c, mode)
      canon == CanonicalRequest(c)
  IN /\ vm' = IF result.applied THEN [vm EXCEPT ![c.target] = result.vm] ELSE vm
     /\ effects' = IF result.applied THEN [effects EXCEPT ![key] = @ + 1] ELSE effects
     /\ cache' = IF Remembered(mode)
                 THEN [cache EXCEPT ![key] = [state |-> result.state,
                                              gen |-> canon.gen, token |-> canon.token]]
                 ELSE cache
     /\ IF result.state = "accepted"
        THEN \E n \in 0..MaxPolls : polls' = [polls EXCEPT ![key] = n]
        ELSE UNCHANGED polls

(* A request id not remembered: a script that times out after the effect   *)
(* carries the call out at once, any other waits first.                    *)
CacheMiss(p) ==
  LET c == CallOf(p) IN
  /\ cache[c.key].state = "none"
  /\ overlapped' = IF \E d \in calls : d.key = c.key
                   THEN overlapped \cup {c.key} ELSE overlapped
  /\ \/ /\ calls' = calls \cup {c}
        /\ response' = [response EXCEPT ![p] = "calling"]
        /\ UNCHANGED <<vm, cache, polls, effects>>
     \/ /\ "timeout_applied" \in Modes
        /\ CarryOut(c, "timeout_applied")
        /\ response' = [response EXCEPT ![p] = "transport"]
        /\ UNCHANGED calls

SubmitMutation(p) ==
  /\ Waiting(p)
  /\ claim[p].stage \in MutationStages
  /\ Target(p) # None
  /\ AnswerFromCache(p) \/ CacheMiss(p)
  /\ UNCHANGED <<vars, faults>>

Awaits(p, c) == response[p] = "calling" /\ CallOf(p) = c

(* The wait of a call is over, whether or not its caller is still there.   *)
FinishMutation(c) ==
  /\ \E mode \in Modes \ {"timeout_applied"} :
       /\ CarryOut(c, mode)
       /\ response' = [p \in Procs |->
            IF ~Awaits(p, c) THEN response[p]
            ELSE IF mode = "timeout" THEN "transport" ELSE ResultOf(c, mode).state]
  /\ calls' = calls \ {c}
  /\ UNCHANGED <<overlapped, vars, faults>>

(* The caller's own deadline passes first; the provider is not told.       *)
GiveUp(p) ==
  /\ response[p] = "calling"
  /\ faults < MaxFaults
  /\ faults' = faults + 1
  /\ response' = [response EXCEPT ![p] = "transport"]
  /\ UNCHANGED <<vars, providerVars>>

(* A query answers, or is scripted to fail or to time out.                 *)
Query(p, answer) ==
  \/ response' = [response EXCEPT ![p] = answer]
  \/ /\ "unavailable" \in QueryFaults
     /\ response' = [response EXCEPT ![p] = "transport"]

GetTask(p) ==
  /\ Waiting(p)
  /\ claim[p].stage \in PollStages
  /\ claim[p].task # None
  /\ LET t == claim[p].task IN
     \/ /\ polls[t] > 0
        /\ polls' = [polls EXCEPT ![t] = @ - 1]
        /\ response' = [response EXCEPT ![p] = "running"]
     \/ /\ polls[t] = 0
        /\ response' = [response EXCEPT ![p] = "done"]
        /\ UNCHANGED polls
     \/ \E fault \in QueryFaults :
          /\ response' = [response EXCEPT ![p] =
               IF fault = "unavailable" THEN "transport" ELSE fault]
          /\ UNCHANGED polls
  /\ UNCHANGED <<vars, vm, cache, effects, calls, overlapped, faults>>

ProvedIf(b) == IF b THEN "proved" ELSE "unproved"

(* What each executor concludes from operation o's observation of VM r.    *)
ObserveCreated(o, r) == ProvedIf(ownedResource(o, r) /\ vm[r].power = "running")
ExpectedPowerState ==
  [start |-> "running", shutdown |-> "stopped", stop |-> "stopped", reboot |-> "running"]
ObservePower(o, r) ==
  ProvedIf(ownedResource(o, r) /\ vm[r].power = ExpectedPowerState[KindOf[o]])
ObserveResize(o, r) == ProvedIf(ownedResource(o, r) /\ vm[r].resized)
(* A snapshot listing of a VM that is gone or foreign is a protocol error; *)
(* a rollback is confirmed by its task alone.                              *)
listSnapshots(o, r) ==
  IF ~ownedResource(o, r) THEN "protocol_error"
  ELSE IF vm[r].snapshot THEN "listed" ELSE "empty"
ObserveSnapshot(o, r) ==
  LET listing == listSnapshots(o, r) IN
  IF listing = "protocol_error" THEN "no_listing"
  ELSE IF KindOf[o] = "rollback" THEN "proved"
  ELSE ProvedIf((listing = "listed") <=> KindOf[o] = "snapshot")
ObserveRetention(o, r) == ProvedIf(ownedResource(o, r))

(* mutant: a purge takes a foreign VM for an absent one. *)
ForeignIsAbsent(o, r) == IF ownedResource(o, r) THEN "verified" ELSE "proved"

VerifyOwnership(o, r) ==
  CASE ~vm[r].present     -> "proved"
    [] ownedResource(o, r) -> "verified"
    [] OTHER              -> "unproved"
ObserveAbsence(o, r) == ProvedIf(~vm[r].present)

Verdict(o, stage, r) ==
  CASE stage = "observing"           -> ObserveCreated(o, r)
    [] stage = "observing_power"     -> ObservePower(o, r)
    [] stage = "observing_resize"    -> ObserveResize(o, r)
    [] stage = "observing_snapshot"  -> ObserveSnapshot(o, r)
    [] stage = "observing_retention" -> ObserveRetention(o, r)
    [] stage = "verifying_purge"     -> VerifyOwnership(o, r)
    [] stage = "observing_purge"     -> ObserveAbsence(o, r)

Observe(p) ==
  /\ Waiting(p)
  /\ claim[p].stage \in ObserveStages
  /\ claim[p].resource # None
  /\ Query(p, Verdict(claim[p].op, claim[p].stage, claim[p].resource))
  /\ UNCHANGED <<vars, providerVars, faults>>

(* An operator edits the notes, stops or removes the VM by hand.           *)
OutOfBand(r) ==
  /\ Drift
  /\ vm[r].present
  /\ \/ vm' = [vm EXCEPT ![r].present = FALSE]
     \/ vm[r].owned /\ vm' = [vm EXCEPT ![r].owned = FALSE]
     \/ vm[r].power = "running" /\ vm' = [vm EXCEPT ![r].power = "stopped"]
  /\ UNCHANGED <<vars, response, cache, polls, effects, calls, overlapped, faults>>

-----------------------------------------------------------------------------
(* The executors.  Each handles one response, or a stage that needs no     *)
(* provider call, with exactly one store transaction.                      *)

Handled(p) ==
  /\ response' = [response EXCEPT ![p] = "none"]
  /\ UNCHANGED <<providerVars, faults>>

(* progress: the resource is carried forward; a retry counter, a delay and *)
(* the task are the caller's.                                              *)
Progress(p, stage, wait, attempt, res, task) ==
  /\ Checkpoint(p, stage, wait, attempt,
                IF res # None THEN res ELSE claim[p].resource, task)
  /\ Handled(p)

Advance(p) ==
  /\ Waiting(p)
  /\ claim[p].stage = "accepted"
  /\ Progress(p, FirstStage[KindOf[claim[p].op]], FALSE, 0, None, claim[p].task)

(* mutant: the accepted task's reference is not persisted. *)
AcceptedWithoutTask(p) ==
  /\ response[p] = "accepted"
  /\ Progress(p, Submit[claim[p].stage].accepted, FALSE, 0, Target(p), claim[p].task)

HandleAccepted(p) ==
  /\ response[p] = "accepted"
  /\ Progress(p, Submit[claim[p].stage].accepted, FALSE, 0, Target(p), KeyOf(p))

(* mutant: any definite answer counts as a synchronous success. *)
RejectionCountsAsSuccess(p) ==
  /\ response[p] \in {"succeeded", "rejected"}
  /\ Progress(p, Submit[claim[p].stage].sync, FALSE, 0, Target(p), claim[p].task)

HandleSucceeded(p) ==
  /\ response[p] = "succeeded"
  /\ Progress(p, Submit[claim[p].stage].sync, FALSE, 0, Target(p), claim[p].task)

HandleTaskRunning(p) ==
  /\ response[p] = "running"
  /\ Progress(p, claim[p].stage, TRUE, 0, None, claim[p].task)

HandleTaskDone(p) ==
  /\ response[p] = "done"
  /\ Progress(p, Poll[claim[p].stage], FALSE, 0, None, None)

HandleVerified(p) ==
  /\ response[p] = "verified"
  /\ Progress(p, "submitting_purge", FALSE, 0, None, claim[p].task)

NextAttempt(p) == claim[p].stageAttempt + 1

(* A transport failure of a query is retried; the retry budget, like the   *)
(* maximum number of attempts, may run out, but not at the first failure.  *)
RetryOrDeadLetter(p) ==
  LET attempt == NextAttempt(p) IN
  /\ response[p] = "transport"
  /\ claim[p].stage \notin MutationStages
  /\ \/ /\ attempt < MaxAttempts
        /\ Progress(p, claim[p].stage, TRUE, attempt, None, claim[p].task)
     \/ /\ attempt = MaxAttempts \/ attempt > 1
        /\ DeadLetterWorkflow(p, attempt)
        /\ Handled(p)

(* mutant: a mutation's transport failure is nobody's case. *)
ReviewButForTransport(p) ==
  /\ response[p] \in {"unknown", "task_lost", "unproved"}
  /\ Complete(p, "manual_review")
  /\ Handled(p)

(* The outcome of a mutation is unknown, or an observation did not prove   *)
(* what the operation promised.                                            *)
ManualReview(p) ==
  /\ \/ response[p] \in {"unknown", "task_lost", "unproved"}
     \/ response[p] = "transport" /\ claim[p].stage \in MutationStages
  /\ Complete(p, "manual_review")
  /\ Handled(p)

(* Refusals, protocol errors, and a stage that lacks the task or the       *)
(* resource it needs.                                                      *)
Unaddressable(p) ==
  /\ Waiting(p)
  /\ \/ claim[p].stage \in PollStages /\ claim[p].task = None
     \/ claim[p].stage \in ObserveStages /\ claim[p].resource = None
     \/ claim[p].stage \in MutationStages /\ Target(p) = None

(* mutant: an unknown outcome is reported as a failure. *)
FailOnUnknown(p) ==
  /\ response[p] \in {"rejected", "reused", "task_failed", "no_listing", "unknown"}
  /\ Complete(p, "failed")
  /\ Handled(p)

Fail(p) ==
  /\ \/ response[p] \in {"rejected", "reused", "task_failed", "no_listing"}
     \/ Unaddressable(p)
  /\ Complete(p, "failed")
  /\ Handled(p)

(* mutant: a mutation that timed out is assumed done. *)
SucceedOnTimeout(p) ==
  /\ \/ response[p] = "proved"
     \/ response[p] = "transport" /\ claim[p].stage \in MutationStages
  /\ Complete(p, "succeeded")
  /\ Handled(p)

Succeed(p) ==
  /\ response[p] = "proved"
  /\ Complete(p, "succeeded")
  /\ Handled(p)

(* The write was refused by the fence, or the process died; a call it made *)
(* runs on.                                                                *)
Abandon(p) ==
  /\ AbandonClaim(p)
  /\ response' = [response EXCEPT ![p] = "none"]
  /\ IF AssertLease(p)
     THEN faults < MaxFaults /\ faults' = faults + 1
     ELSE UNCHANGED faults
  /\ UNCHANGED providerVars

(* Time passes a lease whose holder is gone, or is too slow.               *)
Lapse(i) ==
  /\ LeaseLapses(i)
  /\ IF \E p \in Procs : AssertLease(p) /\ InstanceOf[claim[p].op] = i
     THEN faults < MaxFaults /\ faults' = faults + 1
     ELSE UNCHANGED faults
  /\ UNCHANGED <<response, providerVars>>

Worker(p) ==
  \/ (\E o \in Ops : ClaimNext(p, o)) /\ UNCHANGED <<response, providerVars, faults>>
  \/ SubmitMutation(p)
  \/ GetTask(p)
  \/ Observe(p)
  \/ Advance(p)
  \/ HandleAccepted(p)
  \/ HandleSucceeded(p)
  \/ HandleTaskRunning(p)
  \/ HandleTaskDone(p)
  \/ HandleVerified(p)
  \/ RetryOrDeadLetter(p)
  \/ ManualReview(p)
  \/ Fail(p)
  \/ Succeed(p)

(* The Control API accepts a mutation of an instance that has no active    *)
(* operation and is active or failed; a purge needs it retained, and the   *)
(* snapshot actions an available snapshot, which a failed one leaves       *)
(* unavailable.                                                            *)
Acceptable(o) ==
  LET Peers == {q \in Ops \ {o} : InstanceOf[q] = InstanceOf[o]}
      Done(kind) == \E q \in Peers : /\ KindOf[q] = kind
                                     /\ workflow[q].status = "succeeded"
  IN /\ \A q \in Peers : CommandOf(q) \in published =>
          workflow[q].status \in {"succeeded", "failed"}
     /\ KindOf[o] # "create" =>
          \E q \in Peers \cap CreateOps : workflow[q].status \in Terminal
     /\ KindOf[o] = "purge" <=> Done("retain")
     /\ KindOf[o] \in {"unsnapshot", "rollback"} =>
          /\ Done("snapshot") /\ ~Done("unsnapshot")
          /\ \A q \in Peers : KindOf[q] \in {"unsnapshot", "rollback"} =>
               workflow[q].status # "failed"

Accept(o) == Acceptable(o) /\ PublishCommand(o)

PNext ==
  \/ /\ \/ \E o \in Ops : Accept(o)
        \/ \E r \in Requests, o \in Ops : PublishReplayRequest(r, o)
        \/ Consumer
     /\ UNCHANGED <<response, providerVars, faults>>
  \/ \E p \in Procs : Worker(p) \/ GiveUp(p) \/ Abandon(p)
  \/ \E c \in calls : FinishMutation(c)
  \/ \E i \in Instances : Lapse(i)
  \/ \E r \in CreateOps : OutOfBand(r)

PSpec == PInit /\ [][PNext]_pvars
(* Every process keeps its loop running and its calls return or time out,  *)
(* Kafka keeps redelivering what was not committed, and time passes, also  *)
(* for the calls that wait in the provider.  Who crashes, gives up a call, *)
(* or loses a lease early is not fair, only bounded.                       *)
Fairness ==
  /\ \A p \in Procs : WF_pvars(Worker(p))
  /\ WF_pvars(Consumer /\ UNCHANGED <<response, providerVars, faults>>)
  /\ \A p \in Procs : WF_pvars(Abandon(p) /\ ~AssertLease(p))
  /\ WF_pvars(\E c \in calls : FinishMutation(c))
  /\ \A i \in Instances : WF_pvars(Lapse(i) /\ UNCHANGED faults)

FairPSpec == PSpec /\ Fairness

-----------------------------------------------------------------------------
(* SAFE-015 and the provider half of the idempotency contract: whatever    *)
(* crashes, takeovers, retries and late calls happen, the provider carries *)
(* out a step of an operation a second time only if two calls for it were  *)
(* in its wait at once, each having found the request id unknown.          *)
EffectAtMostOnce == \A k \in Keys \ overlapped : effects[k] <= 1

(* SAFE-018, and state invariant 5 of state-machines.md: an operation one  *)
(* of whose mutations ended with an unknown outcome is never reported as   *)
(* failed or succeeded.  A mutation two of whose calls overlapped may end  *)
(* with two outcomes, one of which the workflow never hears of.            *)
UnknownOutcomeGoesToReview ==
  \A k \in Keys \ overlapped :
    cache[k].state = "unknown" =>
      workflow[k[1]].status \in Unfinished \cup {"manual_review"}

(* A VM is gone, and does not come back but by a call of its create that   *)
(* overlapped another and waited on.                                       *)
Gone(r) == ~vm[r].present \/ <<r, "create">> \in overlapped

(* State invariant 2: an operation that succeeded really had all its steps *)
(* carried out; only a purge may find its VM already gone.                 *)
SucceededMeansCarriedOut ==
  \A o \in Ops :
    workflow[o].status = "succeeded" =>
      \/ \A s \in StepsOf(o) : effects[<<o, s>>] >= 1
      \/ KindOf[o] = "purge" /\ Gone(workflow[o].resource)

(* State invariant 6 and SAFE-006: an operation reported purged left no VM *)
(* behind, and none comes back, unless by a call of its create that        *)
(* overlapped another and waited until after the purge.                    *)
PurgedMeansAbsent ==
  \A o \in Ops :
    (KindOf[o] = "purge" /\ workflow[o].status = "succeeded") =>
      /\ workflow[o].resource # None
      /\ Gone(workflow[o].resource)

(* SAFE-014: a workflow is never at a polling stage without the reference  *)
(* of a task the provider started for that very step, nor past its         *)
(* submission without the resource, whoever wrote the row and however      *)
(* often it was taken over.                                                *)
PollingHasItsTask ==
  \A o \in Ops :
    LET w == workflow[o] IN
    (w.status \in Unfinished /\ w.stage \in PollStages) =>
      /\ w.resource # None
      /\ \E m \in MutationStages :
           /\ Submit[m].accepted = w.stage
           /\ w.task = <<o, Submit[m].step>>
           /\ effects[w.task] >= 1

(* An operation on an instance that has a VM knows which one: a non-create *)
(* workflow is without the resource its provider calls have to name only   *)
(* when the create left nothing behind, and then it fails at its first     *)
(* call.  A create that was refused while another call for it waited may   *)
(* still leave a VM later.                                                 *)
MutationsKnowTheirResource ==
  \A o \in Ops \ CreateOps, q \in CreateOps :
    (/\ InstanceOf[q] = InstanceOf[o]
     /\ workflow[o].status \in Unfinished
     /\ workflow[o].resource = None)
    => Gone(q)

(* The meaning state-machines.md gives to a failed create: no provider     *)
(* resource remains under it.                                              *)
FailedCreateLeavesNoVM ==
  \A o \in CreateOps : workflow[o].status = "failed" => ~vm[o].present

(* SAFE-010 read over workflows: an instance never has two mutating        *)
(* workflows in progress.                                                  *)
OneWorkflowPerInstance ==
  \A o, q \in Ops :
    (/\ o # q /\ InstanceOf[o] = InstanceOf[q]
     /\ workflow[o].status \in Unfinished)
    => workflow[q].status \notin Unfinished

(* Every admitted workflow is eventually resolved.                         *)
EveryWorkflowEnds ==
  \A o \in Ops : (workflow[o].status \in Unfinished) ~> (workflow[o].status \in Terminal)
=============================================================================
