------------------------ MODULE ProvisioningProofs -------------------------
(***************************************************************************)
(* What holds of Provisioning for any number of operations, instances and  *)
(* workers, whatever the provider answers and however often workers die.   *)
(***************************************************************************)
EXTENDS Provisioning, WorkflowStoreProofs

(* Requests whose canonical form leaves the fencing token out.             *)
Plain(o) == KindOf[o] \in PowerKinds \cup {"create"}

(* The stages of each capability.                                          *)
StagesOf(kind) ==
  {"accepted"} \cup
  IF kind = "create"
  THEN {"submitting_create", "polling_create", "configuring", "polling_configuration",
        "starting", "polling_start", "observing"}
  ELSE IF kind \in PowerKinds
  THEN {"submitting_power", "polling_power", "observing_power"}
  ELSE IF kind = "resize"
  THEN {"submitting_resize", "polling_resize", "observing_resize"}
  ELSE IF kind = "retain"
  THEN {"submitting_retention", "polling_retention", "observing_retention"}
  ELSE IF kind = "purge"
  THEN {"verifying_purge", "submitting_purge", "polling_purge", "observing_purge"}
  ELSE {"submitting_snapshot", "polling_snapshot", "observing_snapshot"}

(* The steps a workflow at a stage has behind it.                          *)
Behind(stage) ==
  IF stage \in {"polling_create", "configuring"} THEN {"create"}
  ELSE IF stage \in {"polling_configuration", "starting"} THEN {"create", "configure"}
  ELSE IF stage \in {"polling_start", "observing"} THEN {"create", "configure", "start"}
  ELSE IF stage \in {"polling_power", "observing_power", "polling_resize", "observing_resize",
                     "polling_snapshot", "observing_snapshot", "polling_retention",
                     "observing_retention", "polling_purge", "observing_purge"}
  THEN {"mutate"} ELSE {}

Carried(k) == effects[k] >= 1
Created(r) == r # None => cache[<<r, "create">>].state # "none"

(* A row in progress is at a stage of its capability, below its last       *)
(* attempt, and the steps behind it were carried out.                      *)
RowInStep(o) ==
  workflow[o].status \in Unfinished =>
    /\ workflow[o].stage \in StagesOf(KindOf[o])
    /\ workflow[o].stageAttempt < MaxAttempts
    /\ \A t \in Behind(workflow[o].stage) : Carried(<<o, t>>)

RowPolls(o) ==
  (workflow[o].status \in Unfinished /\ workflow[o].stage \in PollStages) =>
    /\ workflow[o].resource # None
    /\ \E m \in MutationStages :
         /\ Submit[m].accepted = workflow[o].stage
         /\ workflow[o].task = <<o, Submit[m].step>>
         /\ Carried(workflow[o].task)

RowEnded(o) ==
  workflow[o].status = "succeeded" =>
    IF KindOf[o] = "purge"
    THEN workflow[o].resource # None /\ Gone(workflow[o].resource)
    ELSE \A t \in StepsOf(o) : Carried(<<o, t>>)

RowsInStep ==
  \A o \in Ops : RowInStep(o) /\ RowPolls(o) /\ RowEnded(o) /\ Created(workflow[o].resource)

ClaimInStep(p) ==
  /\ claim[p].stage \in StagesOf(KindOf[claim[p].op])
  /\ claim[p].stageAttempt < MaxAttempts
  /\ Created(claim[p].resource)
ClaimsInStep == \A p \in Procs : claim[p].op # None => ClaimInStep(p)

Submitted == {"accepted", "succeeded", "rejected", "unknown"}
Polled == {"running", "done", "task_lost", "task_failed"}
Observed == {"proved", "unproved", "verified", "no_listing"}

(* A response belongs to the stage of the claim it is kept for.            *)
ResponseFits(p, x) ==
  /\ x # "none" => claim[p].op # None /\ claim[p].stage \in Stages
  /\ x \in Submitted \cup {"reused", "calling"} =>
       claim[p].stage \in MutationStages /\ Target(p) # None
  /\ x \in Submitted \cup {"reused"} => cache[KeyOf(p)].state # "none"
  /\ x \in {"accepted", "succeeded"} => Carried(KeyOf(p))
  /\ (x \in Submitted /\ KeyOf(p) \notin overlapped) => cache[KeyOf(p)].state = x
  /\ (x = "reused" /\ KeyOf(p) \notin overlapped) =>
       [gen |-> cache[KeyOf(p)].gen, token |-> cache[KeyOf(p)].token] # CanonicalRequest(CallOf(p))
  /\ x \in Polled => claim[p].stage \in PollStages
  /\ x \in Observed => claim[p].stage \in ObserveStages /\ claim[p].resource # None
  /\ x = "verified" => claim[p].stage = "verifying_purge"
  /\ (x = "proved" /\ claim[p].stage \in {"verifying_purge", "observing_purge"})
       => Gone(claim[p].resource)
ResponsesFit == \A p \in Procs : ResponseFits(p, response[p])

(* The provider carried out what it remembers as accepted, nothing it does *)
(* not remember, and nothing twice but where calls overlapped.             *)
CacheFits(k) ==
  /\ k \notin overlapped => effects[k] <= 1
  /\ cache[k].state = "none" => effects[k] = 0
  /\ cache[k].state \in {"accepted", "succeeded"} => Carried(k)
  /\ Plain(k[1]) => cache[k].token = 0
CachesFit == \A k \in Keys : CacheFits(k)

(* A call in flight that overlapped no other is the only one of a request  *)
(* the provider does not remember.                                         *)
CallFits(c) ==
  /\ c.key[2] \in StepsOf(c.key[1])
  /\ c.key[2] = "create" => c.target = c.key[1]
  /\ c.key \notin overlapped =>
       cache[c.key].state = "none" /\ \A d \in calls : d.key = c.key => d = c
CallsFit == \A c \in calls : CallFits(c)

(* A step not yet submitted is still ahead of the row, so that a worker    *)
(* that was left behind and submits it does not act for a row that went on.*)
Ahead(p) ==
  (/\ claim[p].op # None /\ claim[p].stage \in MutationStages
   /\ Target(p) # None /\ cache[KeyOf(p)].state = "none") =>
    /\ workflow[claim[p].op].status \in Unfinished \cup {"manual_review"}
    /\ workflow[claim[p].op].gen = claim[p].gen
    /\ workflow[claim[p].op].status \in Unfinished =>
         /\ workflow[claim[p].op].stage = claim[p].stage
         /\ workflow[claim[p].op].resource = claim[p].resource
ClaimsAhead == \A p \in Procs : Ahead(p)

(* The row is at the submission of a step, or was sent to review.          *)
RowAtStep(k, gen) ==
  \/ workflow[k[1]].status = "manual_review" /\ workflow[k[1]].gen = gen
  \/ /\ workflow[k[1]].status \in Unfinished
     /\ workflow[k[1]].stage \in MutationStages
     /\ Submit[workflow[k[1]].stage].step = k[2]
     /\ workflow[k[1]].gen = gen
     /\ k[2] # "create" => workflow[k[1]].resource # None

(* So is the row of a call in flight, while no call of its request ended,  *)
(* whoever made the call and whatever became of him.                       *)
CallAhead(c) == cache[c.key].state = "none" => RowAtStep(c.key, c.gen)
CallsAhead == \A c \in calls : CallAhead(c)

(* And the row of an unknown outcome, until it is reviewed.                *)
UnknownStays(k) ==
  (Plain(k[1]) /\ cache[k].state = "unknown" /\ k \notin overlapped) =>
    RowAtStep(k, cache[k].gen)
UnknownsStay == \A k \in Keys : UnknownStays(k)

PInv ==
  /\ PTypeOK /\ Fence /\ Ledger
  /\ RowsInStep /\ ClaimsInStep /\ ResponsesFit /\ CachesFit /\ CallsFit
  /\ ClaimsAhead /\ CallsAhead /\ UnknownsStay
-----------------------------------------------------------------------------
(* The tables.                                                             *)

(* The names of the stages.                                                *)
LEMMA StageTables ==
  /\ MutationStages = {"submitting_create", "configuring", "starting", "submitting_power",
                       "submitting_resize", "submitting_snapshot", "submitting_retention",
                       "submitting_purge"}
  /\ PollStages = {"polling_create", "polling_configuration", "polling_start",
                   "polling_power", "polling_resize", "polling_snapshot",
                   "polling_retention", "polling_purge"}
  /\ Kinds = {"create", "start", "stop", "reboot", "shutdown", "resize", "snapshot",
              "unsnapshot", "rollback", "retain", "purge"}
  BY DEF MutationStages, PollStages, Kinds, Submit, Poll, FirstStage

(* What each mutation stage submits, and where it leads.                   *)
LEMMA SubmitRows ==
  /\ Submit["submitting_create"] = [step |-> "create", accepted |-> "polling_create", sync |-> "configuring"]
  /\ Submit["configuring"] =
       [step |-> "configure", accepted |-> "polling_configuration", sync |-> "starting"]
  /\ Submit["starting"] = [step |-> "start", accepted |-> "polling_start", sync |-> "observing"]
  /\ Submit["submitting_power"] =
       [step |-> "mutate", accepted |-> "polling_power", sync |-> "observing_power"]
  /\ Submit["submitting_resize"] =
       [step |-> "mutate", accepted |-> "polling_resize", sync |-> "observing_resize"]
  /\ Submit["submitting_snapshot"] =
       [step |-> "mutate", accepted |-> "polling_snapshot", sync |-> "observing_snapshot"]
  /\ Submit["submitting_retention"] =
       [step |-> "mutate", accepted |-> "polling_retention", sync |-> "observing_retention"]
  /\ Submit["submitting_purge"] =
       [step |-> "mutate", accepted |-> "polling_purge", sync |-> "observing_purge"]
  BY DEF Submit, SubmitStage, SubmitCreate, Configure, Start, SubmitPower,
          SubmitResize, SubmitSnapshot, SubmitRetention, SubmitPurge

(* They stay within the capability, with the step behind them.             *)
LEMMA SubmitTable ==
  ASSUME NEW kind \in Kinds, NEW s \in MutationStages, s \in StagesOf(kind)
  PROVE  /\ Submit[s].step \in IF kind = "create" THEN {"create", "configure", "start"}
                               ELSE {"mutate"}
         /\ Submit[s].accepted \in StagesOf(kind) \cap PollStages
         /\ Submit[s].sync \in StagesOf(kind) \cap (MutationStages \cup ObserveStages)
         /\ Submit[s].sync \notin PollStages
         /\ Behind(Submit[s].accepted) = Behind(s) \cup {Submit[s].step}
         /\ Behind(Submit[s].sync) = Behind(s) \cup {Submit[s].step}
<1>1. CASE s = "submitting_create"
  BY <1>1, StageTables, SubmitRows DEF StagesOf, Behind, PowerKinds, ObserveStages
<1>2. CASE s = "configuring"
  BY <1>2, StageTables, SubmitRows DEF StagesOf, Behind, PowerKinds, ObserveStages
<1>3. CASE s = "starting"
  BY <1>3, StageTables, SubmitRows DEF StagesOf, Behind, PowerKinds, ObserveStages
<1>4. CASE s = "submitting_power"
  BY <1>4, StageTables, SubmitRows DEF StagesOf, Behind, PowerKinds, ObserveStages
<1>5. CASE s = "submitting_resize"
  BY <1>5, StageTables, SubmitRows DEF StagesOf, Behind, PowerKinds, ObserveStages
<1>6. CASE s = "submitting_snapshot"
  BY <1>6, StageTables, SubmitRows DEF StagesOf, Behind, PowerKinds, ObserveStages
<1>7. CASE s = "submitting_retention"
  BY <1>7, StageTables, SubmitRows DEF StagesOf, Behind, PowerKinds, ObserveStages
<1>8. CASE s = "submitting_purge"
  BY <1>8, StageTables, SubmitRows DEF StagesOf, Behind, PowerKinds, ObserveStages
<1>9. QED  BY <1>1, <1>2, <1>3, <1>4, <1>5, <1>6, <1>7, <1>8, StageTables

(* Where a polling stage leads, with no step more behind it.               *)
LEMMA PollTable ==
  ASSUME NEW kind \in Kinds, NEW s \in PollStages, s \in StagesOf(kind)
  PROVE  /\ Poll[s] \in StagesOf(kind) \cap (MutationStages \cup ObserveStages)
         /\ Poll[s] \notin PollStages
         /\ Behind(Poll[s]) = Behind(s)
<1>1. /\ Poll["polling_create"] = "configuring"
      /\ Poll["polling_configuration"] = "starting"
      /\ Poll["polling_start"] = "observing"
      /\ Poll["polling_power"] = "observing_power"
      /\ Poll["polling_resize"] = "observing_resize"
      /\ Poll["polling_snapshot"] = "observing_snapshot"
      /\ Poll["polling_retention"] = "observing_retention"
      /\ Poll["polling_purge"] = "observing_purge"
  BY DEF Poll
<1>2. CASE s \in {"polling_create", "polling_configuration", "polling_start"}
  BY <1>1, <1>2, StageTables DEF StagesOf, Behind, PowerKinds, ObserveStages
<1>3. CASE s \in {"polling_power", "polling_resize", "polling_snapshot"}
  BY <1>1, <1>3, StageTables DEF StagesOf, Behind, PowerKinds, ObserveStages
<1>4. CASE s \in {"polling_retention", "polling_purge"}
  BY <1>1, <1>4, StageTables DEF StagesOf, Behind, PowerKinds, ObserveStages
<1>5. QED  BY <1>2, <1>3, <1>4, StageTables

(* A workflow leaves `accepted' with nothing behind it.                    *)
LEMMA FirstTable ==
  ASSUME NEW kind \in Kinds
  PROVE  /\ FirstStage[kind] \in StagesOf(kind) \cap (MutationStages \cup ObserveStages)
         /\ FirstStage[kind] \notin PollStages
         /\ Behind(FirstStage[kind]) = {}
         /\ "accepted" \in StagesOf(kind) /\ Behind("accepted") = {}
<1>1. /\ kind = "create" => FirstStage[kind] = "submitting_create"
      /\ kind \in PowerKinds => FirstStage[kind] = "submitting_power"
      /\ kind = "resize" => FirstStage[kind] = "submitting_resize"
      /\ kind \in {"snapshot", "unsnapshot", "rollback"} =>
           FirstStage[kind] = "submitting_snapshot"
      /\ kind = "retain" => FirstStage[kind] = "submitting_retention"
      /\ kind = "purge" => FirstStage[kind] = "verifying_purge"
  BY StageTables DEF FirstStage, PowerKinds
<1>2. QED  BY <1>1, StageTables DEF StagesOf, Behind, PowerKinds, ObserveStages

(* A workflow that observes has all its steps behind it, but for the purge *)
(* that first looks for its VM.                                            *)
LEMMA ObserveTable ==
  ASSUME NEW kind \in Kinds, NEW s \in ObserveStages, s \in StagesOf(kind)
  PROVE  /\ s \notin MutationStages /\ s \notin PollStages /\ s # "accepted"
         /\ s = "verifying_purge" => kind = "purge"
         /\ kind = "purge" => s \in {"verifying_purge", "observing_purge"}
         /\ s # "verifying_purge" =>
              Behind(s) = IF kind = "create" THEN {"create", "configure", "start"}
                          ELSE {"mutate"}
  BY StageTables DEF StagesOf, Behind, PowerKinds, ObserveStages

(* The stages of the three sorts are distinct.                             *)
LEMMA StageSorts ==
  /\ MutationStages \cap PollStages = {} /\ MutationStages \cap ObserveStages = {}
  /\ PollStages \cap ObserveStages = {}
  /\ "accepted" \notin MutationStages \cup PollStages \cup ObserveStages
  /\ "submitting_purge" \in MutationStages \cap StagesOf("purge")
  /\ Behind("submitting_purge") = {}
  BY StageTables DEF ObserveStages, StagesOf, Behind, PowerKinds

-----------------------------------------------------------------------------
(* The provider's methods.                                                 *)

(* A call accepted by a method leaves a VM; only a create brings one back. *)
LEMMA ExecuteResult ==
  ASSUME PTypeOK, NEW k \in Keys, k[2] \in StepsOf(k[1]), NEW r \in CreateOps
  PROVE  /\ Execute(k, r).vm \in VMs
         /\ Execute(k, r).vm.present => vm[r].present \/ k[2] = "create"
<1> DEFINE v == vm[r]
           o == k[1]
<1>1. v \in VMs /\ o \in Ops /\ KindOf[o] \in Kinds
  BY ProvisioningAssumption DEF PTypeOK, Keys
<1>2. /\ v.present \in BOOLEAN /\ v.owned \in BOOLEAN /\ v.power \in {"running", "stopped"}
      /\ v.resized \in BOOLEAN /\ v.snapshot \in BOOLEAN /\ v.retained \in BOOLEAN
  BY <1>1 DEF VMs
<1>3. ASSUME NEW w \in VMs, w.present => v.present, NEW e,
             e = IfOwned(o, r, w) \/ e = Rejected(r)
      PROVE  e.vm \in VMs /\ (e.vm.present => v.present)
  BY <1>1, <1>3 DEF IfOwned, Accepted, Rejected
<1>0. k[2] # "mutate" => KindOf[o] = "create"
  BY DEF StepsOf
<1>4. CASE k[2] = "create"
  <2>1. Execute(k, r) = [state |-> "accepted", vm |-> IF v.present THEN v ELSE NewVM]
    BY <1>0, <1>4 DEF Execute, PowerKinds, submitCreateInstance, Accepted
  <2>2. NewVM \in VMs
    BY DEF VMs, NewVM
  <2>3. QED  BY <1>1, <1>4, <2>1, <2>2
<1>5. CASE k[2] = "configure"
  <2>1. Execute(k, r) = IfOwned(o, r, v)
    BY <1>0, <1>5 DEF Execute, PowerKinds, applyInstanceConfiguration
  <2>2. QED  BY <1>1, <1>3, <2>1
<1>6. CASE k[2] = "start"
  <2>1. Execute(k, r) = IfOwned(o, r, [v EXCEPT !.power = "running"])
    BY <1>0, <1>6 DEF Execute, PowerKinds, startInstance, power
  <2>2. [v EXCEPT !.power = "running"] \in VMs
        /\ [v EXCEPT !.power = "running"].present = v.present
    BY <1>1 DEF VMs
  <2>3. QED  BY <1>3, <2>1, <2>2
<1>7. CASE k[2] = "mutate" /\ KindOf[o] \in PowerKinds
  <2>1. PICK x \in {"running", "stopped"} : Execute(k, r) = IfOwned(o, r, [v EXCEPT !.power = x])
    <3>1. CASE KindOf[o] = "start"
      BY <1>7, <3>1 DEF Execute, PowerKinds, powerCall, startInstance, power
    <3>2. CASE KindOf[o] = "shutdown"
      BY <1>7, <3>2 DEF Execute, PowerKinds, powerCall, shutdownInstance, power
    <3>3. CASE KindOf[o] = "stop"
      BY <1>7, <3>3 DEF Execute, PowerKinds, powerCall, stopInstance, power
    <3>4. CASE KindOf[o] = "reboot"
      BY <1>7, <3>4 DEF Execute, PowerKinds, powerCall, rebootInstance, power
    <3>5. QED  BY <1>7, <3>1, <3>2, <3>3, <3>4 DEF PowerKinds
  <2>2. [v EXCEPT !.power = x] \in VMs /\ [v EXCEPT !.power = x].present = v.present
    BY <1>1 DEF VMs
  <2>3. QED  BY <1>3, <2>1, <2>2
<1>8. CASE k[2] = "mutate" /\ KindOf[o] = "resize"
  <2>1. Execute(k, r) = IfOwned(o, r, [v EXCEPT !.resized = TRUE])
    BY <1>8 DEF Execute, PowerKinds, resizeInstance
  <2>2. [v EXCEPT !.resized = TRUE] \in VMs /\ [v EXCEPT !.resized = TRUE].present = v.present
    BY <1>1 DEF VMs
  <2>3. QED  BY <1>3, <2>1, <2>2
<1>9. CASE k[2] = "mutate" /\ KindOf[o] \in {"snapshot", "unsnapshot", "rollback"}
  <2>1. \E x \in BOOLEAN : \/ Execute(k, r) = IfOwned(o, r, [v EXCEPT !.snapshot = x])
                           \/ Execute(k, r) = Rejected(r)
    <3>1. CASE KindOf[o] = "snapshot"
      BY <1>9, <3>1 DEF Execute, PowerKinds, createSnapshot
    <3>2. CASE KindOf[o] = "unsnapshot"
      BY <1>9, <3>2 DEF Execute, PowerKinds, deleteSnapshot, snapshotMutation
    <3>3. CASE KindOf[o] = "rollback"
      BY <1>9, <3>3 DEF Execute, PowerKinds, rollbackSnapshot, snapshotMutation
    <3>4. QED  BY <1>9, <3>1, <3>2, <3>3
  <2>2. PICK x \in BOOLEAN : \/ Execute(k, r) = IfOwned(o, r, [v EXCEPT !.snapshot = x])
                             \/ Execute(k, r) = Rejected(r)
    BY <2>1
  <2>3. [v EXCEPT !.snapshot = x] \in VMs /\ [v EXCEPT !.snapshot = x].present = v.present
    BY <1>1 DEF VMs
  <2>4. QED  BY <1>3, <2>2, <2>3
<1>10. CASE k[2] = "mutate" /\ KindOf[o] = "retain"
  <2>1. Execute(k, r) = IfOwned(o, r, [v EXCEPT !.retained = TRUE])
    BY <1>10 DEF Execute, PowerKinds, markInstanceRetained
  <2>2. [v EXCEPT !.retained = TRUE] \in VMs /\ [v EXCEPT !.retained = TRUE].present = v.present
    BY <1>1 DEF VMs
  <2>3. QED  BY <1>3, <2>1, <2>2
<1>11. CASE k[2] = "mutate" /\ KindOf[o] = "purge"
  <2> DEFINE w == [v EXCEPT !.present = FALSE, !.snapshot = FALSE]
  <2>1. Execute(k, r) = IfOwned(o, r, w)
    BY <1>11 DEF Execute, PowerKinds, purgeInstance
  <2>2. w \in VMs /\ ~w.present
    <3> DEFINE u == [v EXCEPT !.present = FALSE]
    <3>1. u \in VMs /\ ~u.present
      BY <1>1 DEF VMs
    <3>2. w = [u EXCEPT !.snapshot = FALSE]
      OBVIOUS
    <3> HIDE DEF u, w
    <3>3. QED  BY <3>1, <3>2 DEF VMs
  <2> HIDE DEF w
  <2>3. QED  BY <1>3, <2>1, <2>2
<1>12. QED
  BY <1>1, <1>4, <1>5, <1>6, <1>7, <1>8, <1>9, <1>10, <1>11, StageTables
     DEF StepsOf, PowerKinds

-----------------------------------------------------------------------------
(* What the invariant says of one claim.                                   *)

(* A claim names a known operation at a stage of its capability.           *)
LEMMA ClaimParts ==
  ASSUME PInv, NEW p \in Procs, claim[p].op # None
  PROVE  /\ claim[p] \in Claims /\ claim[p].op \in Ops /\ KindOf[claim[p].op] \in Kinds
         /\ claim[p].stage \in StagesOf(KindOf[claim[p].op])
         /\ claim[p].stageAttempt \in Nat /\ claim[p].stageAttempt < MaxAttempts
         /\ claim[p].resource \in Nullable(CreateOps) /\ claim[p].task \in Nullable(Keys)
         /\ claim[p].gen \in Nat /\ claim[p].token \in Nat
         /\ Created(claim[p].resource)
  BY ProvisioningAssumption
  DEF PInv, PTypeOK, TypeOK, Claims, Nullable, ClaimsInStep, ClaimInStep

(* At a mutation stage it names a request and, unless it has none, a VM.   *)
LEMMA RequestParts ==
  ASSUME PInv, NEW p \in Procs, claim[p].op # None, claim[p].stage \in MutationStages
  PROVE  /\ KeyOf(p) \in Keys /\ KeyOf(p)[1] = claim[p].op
         /\ KeyOf(p)[2] = Submit[claim[p].stage].step
         /\ KeyOf(p)[2] \in StepsOf(claim[p].op)
         /\ Target(p) \in Nullable(CreateOps)
         /\ KeyOf(p)[2] = "create" => Target(p) = claim[p].op
         /\ KeyOf(p)[2] # "create" => Target(p) = claim[p].resource
<1>1. Submit[claim[p].stage].step \in StepsOf(claim[p].op)
  BY ClaimParts, SubmitTable DEF StepsOf
<1>2. /\ KeyOf(p) \in Keys /\ KeyOf(p)[1] = claim[p].op
      /\ KeyOf(p)[2] = Submit[claim[p].stage].step
  BY <1>1, ClaimParts DEF KeyOf, Keys, StepsOf, StepNames
<1>3. KeyOf(p)[2] = "create" => claim[p].op \in CreateOps
  BY <1>1, <1>2, ClaimParts, ProvisioningAssumption DEF StepsOf
<1>4. QED  BY <1>1, <1>2, <1>3, ClaimParts DEF Target, Nullable

(* The claim of a worker that passes the fence is what its row holds.      *)
LEMMA FreshWriter ==
  ASSUME PInv, NEW p \in Procs, AssertLease(p)
  PROVE  LET c == claim[p] w == workflow[claim[p].op] IN
         /\ c.op # None /\ c.op \in Ops
         /\ w.status = "running" /\ w.gen = c.gen /\ w.stage = c.stage
         /\ w.stageAttempt = c.stageAttempt /\ w.resource = c.resource /\ w.task = c.task
<1>1. Holds(p) /\ claim[p].op \in Ops
  BY FenceHolds, ClaimedOp DEF PInv, PTypeOK
<1>2. QED  BY <1>1 DEF PInv, Fence, ClaimsMirrorRows, AssertLease, Holds

-----------------------------------------------------------------------------
(* The sorts of steps.                                                     *)

(* Nothing is claimed, remembered or carried out to begin with.            *)
LEMMA InitPInv == PInit => PInv
<1> SUFFICES ASSUME PInit  PROVE PInv
  OBVIOUS
<1>1. TypeOK /\ Fence /\ Ledger
  BY InitTypeOK, InitFence, InitLedger DEF PInit
<1>2. PTypeOK
  <2>1. [NewVM EXCEPT !.present = FALSE] \in VMs
    BY DEF NewVM, VMs
  <2>2. calls \subseteq Calls /\ overlapped \subseteq Keys
    BY DEF PInit
  <2>3. QED
    BY <1>1, <2>1, <2>2, ProvisioningAssumption DEF PInit, PTypeOK, ResponseKinds, CacheEntries
<1>3. \A o \in Ops : workflow[o].status = "none" /\ workflow[o].resource = None
  BY DEF PInit, Init, NoRow, RowAtStart
<1>4. \A p \in Procs : claim[p].op = None /\ response[p] = "none"
  BY DEF PInit, Init, Idle
<1>5. \A k \in Keys : cache[k].state = "none" /\ cache[k].token = 0 /\ effects[k] = 0
  BY DEF PInit
<1>6. RowsInStep
  BY <1>3 DEF RowsInStep, RowInStep, RowPolls, RowEnded, Created, Unfinished
<1>7. ClaimsInStep /\ ClaimsAhead
  BY <1>4 DEF ClaimsInStep, ClaimsAhead, Ahead
<1>8. ResponsesFit
  BY <1>4 DEF ResponsesFit, ResponseFits, Submitted, Polled, Observed
<1>9. CachesFit /\ UnknownsStay /\ CallsFit /\ CallsAhead
  BY <1>5 DEF PInit, CachesFit, CacheFits, UnknownsStay, UnknownStays, Carried, CallsFit,
              CallsAhead
<1>10. QED  BY <1>1, <1>2, <1>6, <1>7, <1>8, <1>9 DEF PInv

(* A provider's step: what it remembers, but where calls overlap, what it  *)
(* carried out and what is gone stays so, and the rows and claims are not  *)
(* touched.                                                                *)
LEMMA ProviderStep ==
  ASSUME PInv, UNCHANGED vars, PTypeOK', CachesFit', CallsFit', CallsAhead',
         overlapped \subseteq overlapped',
         \A k \in Keys : effects'[k] >= effects[k],
         \A k \in Keys : cache[k].state # "none" =>
           cache'[k].state # "none" /\ (k \notin overlapped' => cache'[k] = cache[k]),
         \A r \in CreateOps : (Created(r) /\ Gone(r)) => Gone(r)',
         \A q \in Procs : response'[q] = response[q] \/ ResponseFits(q, response[q])',
         \A k \in Keys : cache'[k] = cache[k] \/ UnknownStays(k)'
  PROVE  PInv'
<1>1. Fence' /\ Ledger'
  BY NextFence, NextLedger DEF PInv, PTypeOK
<1>2. UNCHANGED <<workflow, claim>>
  BY DEF vars
<1>3. \A k \in Keys : Carried(k) => Carried(k)'
  BY DEF Carried, PInv, PTypeOK
<1>4. \A r \in Nullable(CreateOps) : Created(r) => Created(r)'
  BY StoreAssumption DEF Created, Keys, StepNames, Nullable
<1>5. RowsInStep'
  <2>1. SUFFICES ASSUME NEW o \in Ops
                 PROVE  /\ RowInStep(o)' /\ RowPolls(o)' /\ RowEnded(o)'
                        /\ Created(workflow[o].resource)'
    BY DEF RowsInStep
  <2>2. /\ RowInStep(o) /\ RowPolls(o) /\ RowEnded(o) /\ Created(workflow[o].resource)
        /\ workflow[o].resource \in Nullable(CreateOps)
    BY ProvisioningAssumption DEF PInv, RowsInStep, PTypeOK, TypeOK, Rows
  <2>3. Created(workflow[o].resource)'
    BY <1>2, <1>4, <2>2
  <2>4. \A t \in StepNames : Carried(<<o, t>>) => Carried(<<o, t>>)'
    BY <1>3 DEF Keys
  <2>5. RowInStep(o)'
    BY <1>2, <2>2, <2>4 DEF RowInStep, Behind, StepNames
  <2>6. RowPolls(o)'
    <3>1. SUFFICES ASSUME workflow[o].status \in Unfinished, workflow[o].stage \in PollStages
                   PROVE  /\ workflow[o].resource # None
                          /\ \E m \in MutationStages :
                               /\ Submit[m].accepted = workflow[o].stage
                               /\ workflow[o].task = <<o, Submit[m].step>>
                               /\ effects'[workflow[o].task] >= 1
      BY <1>2 DEF RowPolls, Carried
    <3>2. ASSUME NEW m \in MutationStages  PROVE <<o, Submit[m].step>> \in Keys
      BY <3>2, StageTables, SubmitRows DEF Keys, StepNames
    <3>3. QED  BY <1>3, <2>2, <3>1, <3>2 DEF RowPolls, Carried
  <2>7. RowEnded(o)'
    <3>1. workflow'[o] = workflow[o]
      BY <1>2
    <3>2. (workflow[o].resource # None /\ Gone(workflow[o].resource))
            => Gone(workflow[o].resource)'
      <4>1. workflow[o].resource # None => workflow[o].resource \in CreateOps
        BY <2>2 DEF Nullable
      <4>2. QED  BY <2>2, <3>1, <4>1 DEF Gone
    <3>3. QED  BY <2>2, <2>4, <3>1, <3>2 DEF RowEnded, StepsOf, StepNames
  <2>8. QED  BY <2>3, <2>5, <2>6, <2>7
<1>6. ClaimsInStep'
  <2>1. SUFFICES ASSUME NEW p \in Procs, claim[p].op # None  PROVE ClaimInStep(p)'
    BY <1>2 DEF ClaimsInStep
  <2>2. QED  BY <1>2, <1>4, <2>1, ClaimParts DEF PInv, ClaimsInStep, ClaimInStep
<1>7. ResponsesFit'
  <2>1. SUFFICES ASSUME NEW q \in Procs, response'[q] = response[q]
                 PROVE  ResponseFits(q, response[q])'
    BY DEF ResponsesFit
  <2>2. ResponseFits(q, response[q])
    BY DEF PInv, ResponsesFit
  <2>3. KeyOf(q)' = KeyOf(q) /\ Target(q)' = Target(q)
        /\ CanonicalRequest(CallOf(q))' = CanonicalRequest(CallOf(q))
    BY <1>2 DEF KeyOf, Target, CanonicalRequest, CallOf
  <2>4. response[q] \in Submitted \cup {"reused"} =>
          /\ cache'[KeyOf(q)].state # "none"
          /\ KeyOf(q) \notin overlapped' => cache'[KeyOf(q)] = cache[KeyOf(q)]
          /\ Carried(KeyOf(q)) => effects'[KeyOf(q)] >= 1
    BY <1>3, <2>2, RequestParts DEF ResponseFits, Submitted, Carried
  <2>5. (response[q] \in Observed /\ Gone(claim[q].resource))
          => Gone(claim[q].resource)'
    <3>1. response[q] \in Observed => claim[q].op # None /\ claim[q].resource # None
      BY <2>2 DEF ResponseFits, Observed
    <3>2. response[q] \in Observed => claim[q].resource \in CreateOps /\ Created(claim[q].resource)
      BY <3>1, ClaimParts DEF Nullable
    <3>3. claim'[q].resource = claim[q].resource
      BY <1>2
    <3>4. QED  BY <3>2, <3>3 DEF Gone
  <2>6. QED
    <3>1. overlapped \subseteq overlapped'
      OBVIOUS
    <3>2. /\ response'[q] = response[q] /\ claim' = claim
          /\ "accepted" \in Submitted /\ "succeeded" \in Submitted
          /\ "proved" \in Observed
      BY <1>2, <2>1 DEF Submitted, Observed
    <3>3. QED  BY <2>2, <2>3, <2>4, <2>5, <3>1, <3>2 DEF ResponseFits, Carried
<1>8. ClaimsAhead'
  <2>1. SUFFICES ASSUME NEW p \in Procs  PROVE Ahead(p)'
    BY DEF ClaimsAhead
  <2>2. KeyOf(p)' = KeyOf(p) /\ Target(p)' = Target(p)
    BY <1>2 DEF KeyOf, Target
  <2>3. (claim[p].op # None /\ claim[p].stage \in MutationStages
          /\ cache'[KeyOf(p)].state = "none") => cache[KeyOf(p)].state = "none"
    BY RequestParts
  <2>4. QED  BY <1>2, <2>2, <2>3 DEF PInv, ClaimsAhead, Ahead
<1>9. UnknownsStay'
  BY <1>2 DEF PInv, UnknownsStay, UnknownStays, RowAtStep
<1>10. QED  BY <1>1, <1>5, <1>6, <1>7, <1>8, <1>9 DEF PInv

(* A consumer's step: rows only start, from nothing or from a failure.     *)
LEMMA ConsumerStep ==
  ASSUME PInv, [Next]_vars, UNCHANGED <<response, providerVars, faults, claim>>,
         \A o \in Ops :
           \/ workflow'[o] = workflow[o]
           \/ /\ workflow[o].status \in {"none", "failed"}
              /\ workflow'[o].status = "running" /\ workflow'[o].stage = "accepted"
              /\ workflow'[o].stageAttempt = 0 /\ Created(workflow'[o].resource)
  PROVE  PInv'
<1>1. TypeOK' /\ Fence' /\ Ledger'
  BY NextTypeOK, NextFence, NextLedger DEF PInv, PTypeOK
<1>2. UNCHANGED <<response, vm, cache, polls, effects, calls, overlapped, faults, claim>>
  BY DEF providerVars
<1>3. PTypeOK'
  BY <1>1, <1>2 DEF PInv, PTypeOK
<1>4. RowsInStep'
  <2>1. SUFFICES ASSUME NEW o \in Ops
                 PROVE  /\ RowInStep(o)' /\ RowPolls(o)' /\ RowEnded(o)'
                        /\ Created(workflow[o].resource)'
    BY DEF RowsInStep
  <2>2. RowInStep(o) /\ RowPolls(o) /\ RowEnded(o) /\ Created(workflow[o].resource)
    BY DEF PInv, RowsInStep
  <2>3. CASE workflow'[o] = workflow[o]
    BY <1>2, <2>2, <2>3 DEF RowInStep, RowPolls, RowEnded, Created, Carried, Gone
  <2>4. CASE workflow'[o] # workflow[o]
    <3>1. KindOf[o] \in Kinds /\ 0 < MaxAttempts
      BY ProvisioningAssumption
    <3>2. /\ workflow'[o].status = "running" /\ workflow'[o].stage = "accepted"
          /\ workflow'[o].stageAttempt = 0 /\ Created(workflow'[o].resource)
      BY <2>4
    <3>3. QED
      BY <1>2, <3>1, <3>2, FirstTable, StageSorts
      DEF RowInStep, RowPolls, RowEnded, Created
  <2>5. QED  BY <2>3, <2>4
<1>5. ClaimsInStep' /\ ResponsesFit' /\ CachesFit' /\ CallsFit'
  <2>1. ClaimsInStep' /\ CachesFit' /\ CallsFit'
    BY <1>2
    DEF PInv, ClaimsInStep, ClaimInStep, CachesFit, CacheFits, CallsFit, CallFits, Created,
        Carried
  <2>2. ResponsesFit'
    BY <1>2
    DEF PInv, ResponsesFit, ResponseFits, Carried, Gone, KeyOf, Target, CanonicalRequest,
        CallOf
  <2>3. QED  BY <2>1, <2>2
<1>6. ClaimsAhead'
  <2>1. SUFFICES ASSUME NEW p \in Procs  PROVE Ahead(p)'
    BY DEF ClaimsAhead
  <2>2. Ahead(p) /\ KeyOf(p)' = KeyOf(p) /\ Target(p)' = Target(p)
    BY <1>2 DEF PInv, ClaimsAhead, KeyOf, Target
  <2>3. claim[p].op # None => claim[p].op \in Ops
    BY ClaimParts
  <2>4. QED  BY <1>2, <2>2, <2>3 DEF Ahead, Unfinished
<1>7. UnknownsStay' /\ CallsAhead'
  <2>1. ASSUME NEW k \in Keys, NEW gen, RowAtStep(k, gen)  PROVE RowAtStep(k, gen)'
    BY <2>1 DEF RowAtStep, Unfinished, Keys
  <2>2. UnknownsStay'
    BY <1>2, <2>1 DEF PInv, UnknownsStay, UnknownStays
  <2>3. \A c \in calls : c.key \in Keys
    BY DEF PInv, PTypeOK, Calls
  <2>4. CallsAhead'
    BY <1>2, <2>1, <2>3 DEF PInv, CallsAhead, CallAhead
  <2>5. QED  BY <2>2, <2>4
<1>8. QED  BY <1>1, <1>3, <1>4, <1>5, <1>6, <1>7 DEF PInv

(* A claim copies a row that is in progress.                               *)
LEMMA ClaimStep ==
  ASSUME PInv, NEW p \in Procs, NEW o \in Ops, ClaimNext(p, o),
         UNCHANGED <<response, providerVars, faults>>
  PROVE  PInv'
<1> DEFINE w == workflow[o]
<1>1. TypeOK' /\ Fence' /\ Ledger'
  BY NextTypeOK, NextFence, NextLedger DEF PInv, PTypeOK, Next
<1>2. UNCHANGED <<response, vm, cache, polls, effects, calls, overlapped, faults>>
  BY DEF providerVars
<1>3. PTypeOK'
  BY <1>1, <1>2 DEF PInv, PTypeOK
<1>4. /\ \A q \in Ops : /\ workflow'[q].stage = workflow[q].stage
                        /\ workflow'[q].stageAttempt = workflow[q].stageAttempt
                        /\ workflow'[q].gen = workflow[q].gen
                        /\ workflow'[q].resource = workflow[q].resource
                        /\ workflow'[q].task = workflow[q].task
                        /\ \/ workflow'[q].status = workflow[q].status
                           \/ /\ workflow[q].status \in Unfinished
                              /\ workflow'[q].status \in Unfinished
      /\ w.status \in Unfinished
  BY DEF ClaimNext, PInv, PTypeOK, TypeOK, Rows, Unfinished
<1>5. /\ claim'[p].op = o /\ claim'[p].stage = w.stage /\ claim'[p].gen = w.gen
      /\ claim'[p].stageAttempt = w.stageAttempt /\ claim'[p].resource = w.resource
      /\ \A q \in Procs : q # p => claim'[q] = claim[q]
      /\ claim[p].op = None /\ o # None
  BY StoreAssumption DEF ClaimNext, PInv, PTypeOK, TypeOK
<1>6. RowsInStep'
  <2>1. SUFFICES ASSUME NEW q \in Ops
                 PROVE  /\ RowInStep(q)' /\ RowPolls(q)' /\ RowEnded(q)'
                        /\ Created(workflow[q].resource)'
    BY DEF RowsInStep
  <2>2. RowInStep(q) /\ RowPolls(q) /\ RowEnded(q) /\ Created(workflow[q].resource)
    BY DEF PInv, RowsInStep
  <2>3. /\ workflow'[q].status \in Unfinished => workflow[q].status \in Unfinished
        /\ workflow'[q].status = "succeeded" => workflow[q].status = "succeeded"
    BY <1>4 DEF Unfinished
  <2>4. RowInStep(q)' /\ RowEnded(q)' /\ Created(workflow[q].resource)'
    BY <1>2, <1>4, <2>2, <2>3 DEF RowInStep, RowEnded, Created, Carried, Gone
  <2>5. RowPolls(q)'
    BY <1>2, <1>4, <2>2, <2>3 DEF RowPolls, Carried
  <2>6. QED  BY <2>4, <2>5
<1>7. ClaimsInStep'
  <2>1. SUFFICES ASSUME NEW q \in Procs, claim'[q].op # None  PROVE ClaimInStep(q)'
    BY DEF ClaimsInStep
  <2>2. CASE q = p
    BY <1>2, <1>4, <1>5, <2>2 DEF PInv, RowsInStep, RowInStep, ClaimInStep, Created
  <2>3. CASE q # p
    BY <1>2, <1>5, <2>1, <2>3 DEF PInv, ClaimsInStep, ClaimInStep, Created
  <2>4. QED  BY <2>2, <2>3
<1>8. ResponsesFit'
  <2>1. SUFFICES ASSUME NEW q \in Procs  PROVE ResponseFits(q, response[q])'
    BY DEF ResponsesFit
  <2>2. ResponseFits(q, response[q])
    BY DEF PInv, ResponsesFit
  <2>3. CASE q = p
    <3>1. response'[q] = "none"
      BY <1>2, <1>5, <2>2, <2>3 DEF ResponseFits
    <3>2. QED  BY <3>1 DEF ResponseFits, Submitted, Polled, Observed
  <2>4. CASE q # p
    BY <1>2, <1>5, <2>2, <2>4
    DEF ResponseFits, KeyOf, Target, CanonicalRequest, CallOf, Carried, Gone
  <2>5. QED  BY <2>3, <2>4
<1>9. CachesFit' /\ CallsFit'
  BY <1>2 DEF PInv, CachesFit, CacheFits, CallsFit, CallFits, Carried
<1>10. ClaimsAhead'
  <2>1. SUFFICES ASSUME NEW q \in Procs  PROVE Ahead(q)'
    BY DEF ClaimsAhead
  <2>2. CASE q = p
    BY <1>4, <1>5, <2>2 DEF Ahead
  <2>3. CASE q # p
    <3>1. Ahead(q) /\ KeyOf(q)' = KeyOf(q) /\ Target(q)' = Target(q) /\ claim'[q] = claim[q]
      BY <1>5, <2>3 DEF PInv, ClaimsAhead, KeyOf, Target
    <3>2. claim[q].op # None => claim[q].op \in Ops
      BY ClaimParts
    <3>3. QED  BY <1>2, <1>4, <3>1, <3>2 DEF Ahead, Unfinished
  <2>4. QED  BY <2>2, <2>3
<1>11. UnknownsStay' /\ CallsAhead'
  <2>1. ASSUME NEW k \in Keys, NEW gen, RowAtStep(k, gen)  PROVE RowAtStep(k, gen)'
    BY <1>4, <2>1 DEF RowAtStep, Unfinished, Keys
  <2>2. UnknownsStay'
    BY <1>2, <2>1 DEF PInv, UnknownsStay, UnknownStays
  <2>3. \A c \in calls : c.key \in Keys
    BY DEF PInv, PTypeOK, Calls
  <2>4. CallsAhead'
    BY <1>2, <2>1, <2>3 DEF PInv, CallsAhead, CallAhead
  <2>5. QED  BY <2>2, <2>4
<1>12. QED  BY <1>1, <1>3, <1>6, <1>7, <1>8, <1>9, <1>10, <1>11 DEF PInv

(* A fenced write that passes no step that was not submitted, and no       *)
(* unknown outcome but to the review.                                      *)
PassedStep(p) ==
  (/\ claim[p].stage \in MutationStages /\ Target(p) # None
   /\ workflow'[claim[p].op].status # "manual_review")
  => /\ cache[KeyOf(p)].state # "none"
     /\ (Plain(claim[p].op) /\ KeyOf(p) \notin overlapped) =>
          cache[KeyOf(p)].state # "unknown"

LEMMA WriteStep ==
  ASSUME PInv, [Next]_vars, NEW p \in Procs, NEW o, o = claim[p].op,
         FencedWrite(p), PassedStep(p),
         response' = [response EXCEPT ![p] = "none"], UNCHANGED <<providerVars, faults>>,
         RowInStep(o)', RowPolls(o)', RowEnded(o)', Created(workflow[o].resource)'
  PROVE  PInv'
<1>1. TypeOK' /\ Fence' /\ Ledger'
  BY NextTypeOK, NextFence, NextLedger DEF PInv, PTypeOK
<1>2. UNCHANGED <<vm, cache, polls, effects, calls, overlapped, faults>>
  BY DEF providerVars
<1>3. /\ o \in Ops /\ AssertLease(p) /\ o # None
      /\ workflow[o].status = "running" /\ workflow[o].gen = claim[p].gen
      /\ workflow[o].stage = claim[p].stage /\ workflow[o].resource = claim[p].resource
      /\ workflow'[o].gen = workflow[o].gen
      /\ \A q \in Ops : q # o => workflow'[q] = workflow[q]
      /\ claim'[p].op = None /\ \A q \in Procs : q # p => claim'[q] = claim[q]
  BY FreshWriter DEF FencedWrite, Holds
<1>4. /\ response'[p] = "none" /\ \A q \in Procs : q # p => response'[q] = response[q]
      /\ PTypeOK'
  BY <1>1, <1>2 DEF PInv, PTypeOK, ResponseKinds
<1>5. RowsInStep'
  <2>1. SUFFICES ASSUME NEW q \in Ops, q # o
                 PROVE  /\ RowInStep(q)' /\ RowPolls(q)' /\ RowEnded(q)'
                        /\ Created(workflow[q].resource)'
    BY DEF RowsInStep
  <2>2. RowInStep(q) /\ RowPolls(q) /\ RowEnded(q) /\ Created(workflow[q].resource)
        /\ workflow'[q] = workflow[q]
    BY <1>3, <2>1 DEF PInv, RowsInStep
  <2>3. QED  BY <1>2, <2>2 DEF RowInStep, RowPolls, RowEnded, Created, Carried, Gone
<1>6. ClaimsInStep'
  BY <1>2, <1>3 DEF PInv, ClaimsInStep, ClaimInStep, Created
<1>7. ResponsesFit'
  <2>1. SUFFICES ASSUME NEW q \in Procs  PROVE ResponseFits(q, response[q])'
    BY DEF ResponsesFit
  <2>2. CASE q = p
    BY <1>4, <2>2 DEF ResponseFits, Submitted, Polled, Observed
  <2>3. CASE q # p
    <3>1. ResponseFits(q, response[q])
      BY DEF PInv, ResponsesFit
    <3>2. QED
      BY <1>2, <1>3, <1>4, <2>3, <3>1
      DEF ResponseFits, KeyOf, Target, CanonicalRequest, CallOf, Carried, Gone
  <2>4. QED  BY <2>2, <2>3
<1>8. CachesFit' /\ CallsFit'
  BY <1>2 DEF PInv, CachesFit, CacheFits, CallsFit, CallFits, Carried
<1>9. ClaimsAhead'
  <2>1. SUFFICES ASSUME NEW q \in Procs, q # p, claim[q].op = o  PROVE Ahead(q)'
    <3>1. Ahead(p)'
      BY <1>3 DEF Ahead
    <3>2. ASSUME NEW q \in Procs, q # p, claim[q].op # o  PROVE Ahead(q)'
      <4>1. Ahead(q) /\ KeyOf(q)' = KeyOf(q) /\ Target(q)' = Target(q) /\ claim'[q] = claim[q]
        BY <1>3, <3>2 DEF PInv, ClaimsAhead, KeyOf, Target
      <4>2. claim[q].op # None => workflow'[claim[q].op] = workflow[claim[q].op]
        BY <1>3, <3>2, ClaimParts
      <4>3. QED  BY <1>2, <4>1, <4>2 DEF Ahead
    <3>3. QED  BY <3>1, <3>2 DEF ClaimsAhead
  <2>2. Ahead(q) /\ KeyOf(q)' = KeyOf(q) /\ Target(q)' = Target(q) /\ claim'[q] = claim[q]
    BY <1>3, <2>1 DEF PInv, ClaimsAhead, KeyOf, Target
  <2>3. SUFFICES ASSUME claim[q].stage \in MutationStages, Target(q) # None,
                        cache[KeyOf(q)].state = "none"
                 PROVE  workflow'[o].status = "manual_review" /\ workflow'[o].gen = claim[q].gen
    BY <1>2, <2>1, <2>2 DEF Ahead, Unfinished
  <2>4. /\ workflow[o].gen = claim[q].gen /\ claim[p].stage = claim[q].stage
        /\ claim[p].resource = claim[q].resource
    BY <1>3, <2>1, <2>2, <2>3 DEF Ahead, Unfinished
  <2>5. KeyOf(p) = KeyOf(q) /\ Target(p) = Target(q)
    BY <2>1, <2>4 DEF KeyOf, Target
  <2>6. QED  BY <1>3, <2>3, <2>4, <2>5 DEF PassedStep
<1>10. ASSUME NEW k \in Keys, NEW gen, RowAtStep(k, gen),
              \/ cache[k].state = "none"
              \/ Plain(k[1]) /\ cache[k].state = "unknown" /\ k \notin overlapped
       PROVE  RowAtStep(k, gen)'
  <2>1. k[1] \in Ops
    BY DEF Keys
  <2>2. CASE k[1] # o
    BY <1>3, <1>10, <2>1, <2>2 DEF RowAtStep
  <2>3. CASE k[1] = o
    <3>1. /\ claim[p].stage \in MutationStages /\ Submit[claim[p].stage].step = k[2]
          /\ k[2] # "create" => claim[p].resource # None
          /\ workflow[o].gen = gen
      BY <1>3, <1>10, <2>3 DEF RowAtStep
    <3>2. KeyOf(p) = k
      BY <2>3, <3>1 DEF KeyOf, Keys
    <3>3. Target(p) # None
      BY <1>3, <3>1, <3>2 DEF Target
    <3>4. workflow'[o].status = "manual_review"
      BY <1>10, <2>3, <3>1, <3>2, <3>3 DEF PassedStep
    <3>5. QED  BY <1>3, <2>3, <3>1, <3>4 DEF RowAtStep
  <2>4. QED  BY <2>2, <2>3
<1>11. UnknownsStay' /\ CallsAhead'
  <2>1. UnknownsStay'
    BY <1>2, <1>10 DEF PInv, UnknownsStay, UnknownStays
  <2>2. \A c \in calls : c.key \in Keys
    BY DEF PInv, PTypeOK, Calls
  <2>3. CallsAhead'
    BY <1>2, <1>10, <2>2 DEF PInv, CallsAhead, CallAhead
  <2>4. QED  BY <2>1, <2>3
<1>12. QED  BY <1>1, <1>4, <1>5, <1>6, <1>7, <1>8, <1>9, <1>11 DEF PInv

-----------------------------------------------------------------------------
(* The provider's steps.                                                   *)

(* What a call does to the provider, given whether it had its effect and   *)
(* the state it is answered with.                                          *)
CarriedOut(c, mode, applied, state) ==
  /\ state = ResultOf(c, mode).state
  /\ vm' = IF applied THEN [vm EXCEPT ![c.target] = Execute(c.key, c.target).vm] ELSE vm
  /\ effects' = IF applied THEN [effects EXCEPT ![c.key] = @ + 1] ELSE effects
  /\ cache' = IF mode = "timeout" THEN cache
              ELSE [cache EXCEPT ![c.key] =
                     [state |-> state, gen |-> CanonicalRequest(c).gen,
                      token |-> CanonicalRequest(c).token]]
  /\ applied => mode # "timeout" /\ state # "rejected"
  /\ state \in {"accepted", "succeeded"} => applied
  /\ polls' \in [Keys -> 0..MaxPolls]

(* What carrying out a call comes to: it is applied only if it will be     *)
(* remembered, and remembered as carried out only if it was applied.       *)
LEMMA CarryOutResult ==
  ASSUME NEW c, NEW mode \in Modes, CarryOut(c, mode), polls \in [Keys -> 0..MaxPolls]
  PROVE  \E applied \in BOOLEAN, state \in Submitted : CarriedOut(c, mode, applied, state)
<1> DEFINE applied == /\ mode \in {"success", "timeout_applied", "unknown_applied"}
                      /\ Execute(c.key, c.target).state = "accepted"
           state == IF mode \in {"unknown", "unknown_applied"} THEN "unknown"
                    ELSE IF ~applied THEN "rejected"
                    ELSE IF c.key[2] \in SyncSteps THEN "succeeded" ELSE "accepted"
<1>1. /\ ResultOf(c, mode).applied = applied /\ ResultOf(c, mode).state = state
      /\ ResultOf(c, mode).vm = Execute(c.key, c.target).vm
  BY DEF ResultOf
<1>2. /\ applied \in BOOLEAN /\ state \in Submitted
      /\ applied => mode # "timeout" /\ state # "rejected"
      /\ state \in {"accepted", "succeeded"} => applied
  BY DEF Submitted
<1> HIDE DEF applied, state
<1>3. /\ vm' = IF applied THEN [vm EXCEPT ![c.target] = Execute(c.key, c.target).vm] ELSE vm
      /\ effects' = IF applied THEN [effects EXCEPT ![c.key] = @ + 1] ELSE effects
      /\ cache' = IF mode = "timeout" THEN cache
                  ELSE [cache EXCEPT ![c.key] =
                         [state |-> state, gen |-> CanonicalRequest(c).gen,
                          token |-> CanonicalRequest(c).token]]
  BY <1>1 DEF CarryOut, Remembered
<1>4. polls' \in [Keys -> 0..MaxPolls]
  BY DEF CarryOut
<1>5. CarriedOut(c, mode, applied, state)
  BY <1>1, <1>2, <1>3, <1>4 DEF CarriedOut
<1>6. QED  BY <1>2, <1>5

(* A call carried out keeps the invariant.  A request that is remembered   *)
(* already is one that overlapped, and the row of one whose step ends      *)
(* unknown has not gone past that step.                                    *)
LEMMA CarryOutStep ==
  ASSUME PInv, NEW c \in Calls, NEW mode \in Modes, CarryOut(c, mode),
         UNCHANGED <<vars, faults>>,
         c.key[2] \in StepsOf(c.key[1]), c.key[2] = "create" => c.target = c.key[1],
         CallAhead(c), c.key \notin overlapped' => cache[c.key].state = "none",
         overlapped \subseteq overlapped', overlapped' \subseteq Keys, calls' \subseteq calls,
         \A d \in calls' : d.key = c.key => c.key \in overlapped',
         response' \in [Procs -> ResponseKinds],
         \A q \in Procs :
           \/ response'[q] = response[q]
           \/ /\ claim[q].op # None /\ claim[q].stage \in MutationStages /\ Target(q) # None
              /\ \/ response'[q] = "transport"
                 \/ /\ mode # "timeout" /\ KeyOf(q) = c.key
                    /\ response'[q] = ResultOf(c, mode).state
  PROVE  PInv'
<1>0. PICK k \in Keys, r \in CreateOps : k = c.key /\ r = c.target
  BY DEF Calls
<1>4. /\ vm \in [CreateOps -> VMs] /\ cache \in [Keys -> CacheEntries]
      /\ effects \in [Keys -> Nat] /\ polls \in [Keys -> 0..MaxPolls]
      /\ TypeOK /\ faults \in 0..MaxFaults /\ calls \subseteq Calls
  BY DEF PInv, PTypeOK
<1>1a. PICK applied \in BOOLEAN, state \in Submitted : CarriedOut(c, mode, applied, state)
  BY <1>4, CarryOutResult
<1>1. /\ state = ResultOf(c, mode).state
      /\ vm' = IF applied THEN [vm EXCEPT ![r] = Execute(k, r).vm] ELSE vm
      /\ effects' = IF applied THEN [effects EXCEPT ![k] = @ + 1] ELSE effects
      /\ cache' = IF mode = "timeout" THEN cache
                  ELSE [cache EXCEPT ![k] =
                         [state |-> state, gen |-> CanonicalRequest(c).gen,
                          token |-> CanonicalRequest(c).token]]
      /\ applied => mode # "timeout"
      /\ state \in {"accepted", "succeeded"} => applied
      /\ polls' \in [Keys -> 0..MaxPolls]
  BY <1>0, <1>1a DEF CarriedOut
<1>2. /\ k[1] \in Ops /\ k[2] \in StepsOf(k[1])
      /\ k[2] = "create" => k = <<r, "create">>
      /\ c.gen \in Nat /\ c.token \in Nat
  BY <1>0 DEF Calls, Keys
<1>3. /\ CanonicalRequest(c).gen = c.gen /\ CanonicalRequest(c).token \in Nat
      /\ Plain(k[1]) => CanonicalRequest(c).token = 0
  BY <1>0, <1>2 DEF CanonicalRequest, Plain
<1>5. /\ Execute(k, r).vm \in VMs
      /\ Execute(k, r).vm.present => vm[r].present \/ k[2] = "create"
  BY <1>2, ExecuteResult DEF PInv
<1>6. \A q \in Keys : q # k => cache'[q] = cache[q] /\ effects'[q] = effects[q]
  BY <1>1, <1>4
<1>7. /\ mode = "timeout" => cache' = cache /\ effects' = effects /\ vm' = vm
      /\ mode # "timeout" =>
           /\ cache'[k].state = state /\ cache'[k].gen = c.gen
           /\ cache'[k].token = CanonicalRequest(c).token
      /\ effects'[k] = IF applied THEN effects[k] + 1 ELSE effects[k]
      /\ effects[k] \in Nat /\ state # "none"
  BY <1>1, <1>3, <1>4 DEF Submitted
<1>8. PTypeOK'
  <2>1. TypeOK' /\ faults' \in 0..MaxFaults
    BY <1>4, NextTypeOK
  <2>2. vm' \in [CreateOps -> VMs]
    BY <1>1, <1>4, <1>5
  <2>3. cache' \in [Keys -> CacheEntries]
    <3>1. [state |-> state, gen |-> CanonicalRequest(c).gen,
           token |-> CanonicalRequest(c).token] \in CacheEntries
      BY <1>2, <1>3 DEF CacheEntries, Submitted
    <3>2. QED  BY <1>1, <1>4, <3>1
  <2>4. effects' \in [Keys -> Nat] /\ calls' \subseteq Calls
    BY <1>1, <1>4
  <2>6. QED  BY <1>1, <2>1, <2>2, <2>3, <2>4 DEF PTypeOK
<1>9. CachesFit'
  <2>1. SUFFICES ASSUME NEW q \in Keys  PROVE CacheFits(q)'
    BY DEF CachesFit
  <2>2. CacheFits(q) /\ CacheFits(k)
    BY DEF PInv, CachesFit
  <2>3. CASE q # k \/ mode = "timeout"
    BY <1>6, <1>7, <2>2, <2>3 DEF CacheFits, Carried
  <2>4. CASE q = k /\ mode # "timeout"
    <3>1. k \notin overlapped' => effects[k] = 0
      BY <1>0, <2>2 DEF CacheFits
    <3>2. QED
      BY <1>1, <1>3, <1>7, <2>4, <3>1 DEF CacheFits, Carried
  <2>5. QED  BY <2>3, <2>4
<1>10. \A q \in Keys : cache[q].state # "none" =>
         cache'[q].state # "none" /\ (q \notin overlapped' => cache'[q] = cache[q])
  BY <1>0, <1>6, <1>7
<1>11. \A s \in CreateOps : (Created(s) /\ Gone(s)) => Gone(s)'
  <2>1. SUFFICES ASSUME NEW s \in CreateOps, Created(s), Gone(s), <<s, "create">> \notin overlapped'
                 PROVE  ~vm'[s].present
    BY DEF Gone
  <2>2. ~vm[s].present
    BY <2>1 DEF Gone
  <2>3. CASE s # r \/ ~applied
    BY <1>1, <1>4, <2>2, <2>3
  <2>4. CASE s = r /\ applied
    <3>1. k[2] # "create"
      <4>1. SUFFICES ASSUME k = <<r, "create">>  PROVE FALSE
        BY <1>2
      <4>2. r # None
        BY StoreAssumption
      <4>3. QED  BY <1>0, <2>1, <2>4, <4>1, <4>2 DEF Created
    <3>2. QED  BY <1>1, <1>4, <1>5, <2>2, <2>4, <3>1
  <2>5. QED  BY <2>3, <2>4
<1>12. \A q \in Procs : response'[q] = response[q] \/ ResponseFits(q, response[q])'
  <2>1. SUFFICES ASSUME NEW q \in Procs, response'[q] # response[q]
                 PROVE  ResponseFits(q, response[q])'
    OBVIOUS
  <2>2. /\ claim' = claim /\ KeyOf(q)' = KeyOf(q) /\ Target(q)' = Target(q)
        /\ CanonicalRequest(CallOf(q))' = CanonicalRequest(CallOf(q))
    BY DEF vars, KeyOf, Target, CallOf, CanonicalRequest
  <2>3. /\ claim[q].op # None /\ claim[q].stage \in MutationStages /\ Target(q) # None
        /\ claim[q].stage \in Stages
        /\ \/ response'[q] = "transport"
           \/ mode # "timeout" /\ KeyOf(q) = k /\ response'[q] = state
    BY <1>0, <1>1, <2>1, ProvisioningAssumption
  <2>4. state \notin Polled \cup Observed \cup {"none", "reused", "transport", "calling"}
    BY DEF Submitted, Polled, Observed
  <2>5. state \in {"accepted", "succeeded"} => effects'[k] >= 1
    BY <1>1, <1>7
  <2>6. CASE response'[q] = "transport"
    BY <2>2, <2>3, <2>6 DEF ResponseFits, Submitted, Polled, Observed
  <2>7. CASE mode # "timeout" /\ KeyOf(q) = k /\ response'[q] = state
    BY <1>7, <2>2, <2>3, <2>4, <2>5, <2>7 DEF ResponseFits, Polled, Observed, Carried
  <2>8. QED  BY <2>3, <2>6, <2>7
<1>13. \A q \in Keys : cache'[q] = cache[q] \/ UnknownStays(q)'
  <2>1. SUFFICES ASSUME mode # "timeout", k \notin overlapped'  PROVE UnknownStays(k)'
    BY <1>6, <1>7 DEF UnknownStays
  <2>2. RowAtStep(k, c.gen) /\ workflow' = workflow
    BY <1>0, <2>1 DEF CallAhead, vars
  <2>3. QED  BY <1>7, <2>1, <2>2 DEF UnknownStays, RowAtStep
<1>14. CallsFit'
  <2>1. SUFFICES ASSUME NEW d \in calls'  PROVE CallFits(d)'
    BY DEF CallsFit
  <2>2. CallFits(d) /\ d.key \in Keys
    BY <1>4, <2>1 DEF PInv, CallsFit, Calls
  <2>3. d.key \notin overlapped' => d.key # k
    BY <1>0, <2>1
  <2>4. QED  BY <1>6, <2>2, <2>3 DEF CallFits
<1>15. CallsAhead'
  <2>1. SUFFICES ASSUME NEW d \in calls', cache'[d.key].state = "none"
                 PROVE  RowAtStep(d.key, d.gen)'
    BY DEF CallsAhead, CallAhead
  <2>2. d.key \in Keys /\ CallAhead(d)
    BY <1>4, <2>1 DEF PInv, CallsAhead, Calls
  <2>3. cache[d.key].state = "none"
    BY <1>10, <2>1, <2>2
  <2>4. QED  BY <2>2, <2>3 DEF CallAhead, RowAtStep, vars
<1>16. \A q \in Keys : effects'[q] >= effects[q]
  <2>1. \A q \in Keys : effects[q] \in Nat
    BY <1>4
  <2>2. QED  BY <1>6, <1>7, <2>1
<1>17. QED
  BY <1>8, <1>9, <1>10, <1>11, <1>12, <1>13, <1>14, <1>15, <1>16, ProviderStep

(* The call a worker makes names a request ahead of its row.               *)
LEMMA CallOfParts ==
  ASSUME PInv, NEW p \in Procs, claim[p].op # None, claim[p].stage \in MutationStages,
         Target(p) # None
  PROVE  /\ CallOf(p) \in Calls /\ CallOf(p).key = KeyOf(p)
         /\ CallOf(p).key[2] \in StepsOf(CallOf(p).key[1])
         /\ CallOf(p).key[2] = "create" => CallOf(p).target = CallOf(p).key[1]
         /\ CallAhead(CallOf(p))
<1>1. /\ KeyOf(p) \in Keys /\ KeyOf(p)[1] = claim[p].op
      /\ KeyOf(p)[2] = Submit[claim[p].stage].step /\ KeyOf(p)[2] \in StepsOf(claim[p].op)
      /\ Target(p) \in CreateOps
      /\ KeyOf(p)[2] = "create" => Target(p) = claim[p].op
      /\ KeyOf(p)[2] # "create" => Target(p) = claim[p].resource
      /\ claim[p].gen \in Nat /\ claim[p].token \in Nat
  BY RequestParts, ClaimParts DEF Nullable
<1>2. /\ CallOf(p) \in Calls /\ CallOf(p).key = KeyOf(p) /\ CallOf(p).target = Target(p)
      /\ CallOf(p).gen = claim[p].gen
  BY <1>1 DEF CallOf, Calls
<1>3. CallAhead(CallOf(p))
  <2>1. SUFFICES ASSUME cache[KeyOf(p)].state = "none"  PROVE RowAtStep(KeyOf(p), claim[p].gen)
    BY <1>2 DEF CallAhead
  <2>2. Ahead(p)
    BY DEF PInv, ClaimsAhead
  <2>3. QED  BY <1>1, <2>1, <2>2 DEF Ahead, RowAtStep
<1>4. QED  BY <1>1, <1>2, <1>3

(* An answer that fits the claim it is for changes nothing else.           *)
LEMMA AnswerStep ==
  ASSUME PInv, NEW p \in Procs, NEW x \in ResponseKinds, ResponseFits(p, x),
         response' = [response EXCEPT ![p] = x], polls' \in [Keys -> 0..MaxPolls],
         UNCHANGED <<vars, vm, cache, effects, calls, overlapped, faults>>
  PROVE  PInv'
<1>1. PTypeOK'
  <2>1. TypeOK'
    BY NextTypeOK DEF PInv, PTypeOK
  <2>2. QED  BY <2>1 DEF PInv, PTypeOK
<1>2. CachesFit' /\ CallsFit' /\ CallsAhead'
  BY DEF PInv, CachesFit, CacheFits, Carried, CallsFit, CallFits, CallsAhead, CallAhead,
         RowAtStep, vars
<1>3. \A q \in Procs : response'[q] = response[q] \/ ResponseFits(q, response[q])'
  <2>1. \A q \in Procs : q # p => response'[q] = response[q]
    BY DEF PInv, PTypeOK
  <2>2. response'[p] = x /\ claim' = claim
    BY DEF PInv, PTypeOK, vars
  <2>3. KeyOf(p)' = KeyOf(p) /\ Target(p)' = Target(p)
        /\ CanonicalRequest(CallOf(p))' = CanonicalRequest(CallOf(p))
    BY <2>2 DEF KeyOf, Target, CanonicalRequest, CallOf
  <2>4. ResponseFits(p, response[p])'
    BY <2>2, <2>3 DEF ResponseFits, Carried, Gone
  <2>5. QED  BY <2>1, <2>4
<1>4. /\ \A k \in Keys : effects'[k] >= effects[k]
      /\ \A r \in CreateOps : Gone(r) => Gone(r)'
  BY DEF PInv, PTypeOK, Gone
<1>5. QED  BY <1>1, <1>2, <1>3, <1>4, ProviderStep

(* A request the provider does not remember: its call waits, or times out  *)
(* after its effect.                                                       *)
LEMMA CacheMissStep ==
  ASSUME PInv, NEW p \in Procs, claim[p].op # None, claim[p].stage \in MutationStages,
         Target(p) # None, CacheMiss(p), UNCHANGED <<vars, faults>>
  PROVE  PInv'
<1>1. PICK c : c = CallOf(p)
  OBVIOUS
<1>2. /\ c \in Calls /\ c.key = KeyOf(p) /\ c.key \in Keys
      /\ c.key[2] \in StepsOf(c.key[1]) /\ CallAhead(c)
      /\ c.key[2] = "create" => c.target = c.key[1]
  BY <1>1, CallOfParts DEF Calls
<1>3. /\ calls \subseteq Calls /\ overlapped \subseteq Keys
      /\ response \in [Procs -> ResponseKinds]
  BY DEF PInv, PTypeOK
<1>4. /\ cache[c.key].state = "none"
      /\ overlapped' = IF \E d \in calls : d.key = c.key
                       THEN overlapped \cup {c.key} ELSE overlapped
  BY <1>1 DEF CacheMiss
<1>5. /\ overlapped \subseteq overlapped' /\ overlapped' \subseteq Keys
      /\ \A d \in calls : d.key = c.key => c.key \in overlapped'
  BY <1>2, <1>3, <1>4
<1>6. CASE /\ CarryOut(c, "timeout_applied") /\ "timeout_applied" \in Modes
           /\ response' = [response EXCEPT ![p] = "transport"] /\ UNCHANGED calls
  <2>1. response' \in [Procs -> ResponseKinds]
    BY <1>3, <1>6 DEF ResponseKinds
  <2>2. \A q \in Procs :
          \/ response'[q] = response[q]
          \/ /\ claim[q].op # None /\ claim[q].stage \in MutationStages /\ Target(q) # None
             /\ response'[q] = "transport"
    BY <1>3, <1>6
  <2>3. QED  BY <1>2, <1>4, <1>5, <1>6, <2>1, <2>2, CarryOutStep
<1>7. CASE /\ calls' = calls \cup {c} /\ response' = [response EXCEPT ![p] = "calling"]
           /\ UNCHANGED <<vm, cache, polls, effects>>
  <2>1. PTypeOK'
    <3>1. TypeOK'
      BY NextTypeOK DEF PInv, PTypeOK
    <3>2. response' \in [Procs -> ResponseKinds] /\ calls' \subseteq Calls
      BY <1>2, <1>3, <1>7 DEF ResponseKinds
    <3>3. QED  BY <1>5, <1>7, <3>1, <3>2 DEF PInv, PTypeOK
  <2>2. CachesFit'
    BY <1>5, <1>7 DEF PInv, CachesFit, CacheFits, Carried
  <2>3. CallsFit'
    <3>1. SUFFICES ASSUME NEW d \in calls'  PROVE CallFits(d)'
      BY DEF CallsFit
    <3>2. CASE d.key = c.key
      <4>1. d.key[2] \in StepsOf(d.key[1]) /\ (d.key[2] = "create" => d.target = d.key[1])
        BY <1>2, <1>7, <3>1 DEF PInv, CallsFit, CallFits
      <4>2. c.key \notin overlapped' => \A e \in calls' : e.key = c.key => e = c
        BY <1>5, <1>7
      <4>3. c.key \notin overlapped' => d = c
        BY <3>1, <3>2, <4>2
      <4>4. QED  BY <1>4, <1>7, <3>2, <4>1, <4>2, <4>3 DEF CallFits
    <3>3. CASE d.key # c.key
      BY <1>5, <1>7, <3>1, <3>3 DEF PInv, CallsFit, CallFits
    <3>4. QED  BY <3>2, <3>3
  <2>4. CallsAhead'
    BY <1>2, <1>7 DEF PInv, CallsAhead, CallAhead, RowAtStep, vars
  <2>5. \A q \in Procs : response'[q] = response[q] \/ ResponseFits(q, response[q])'
    <3>1. \A q \in Procs : q # p => response'[q] = response[q]
      BY <1>3, <1>7
    <3>2. /\ response'[p] = "calling" /\ claim' = claim /\ Target(p)' = Target(p)
          /\ claim[p].stage \in Stages
      BY <1>3, <1>7, ProvisioningAssumption DEF vars, Target, KeyOf
    <3>3. ResponseFits(p, response[p])'
      BY <3>2 DEF ResponseFits, Submitted, Polled, Observed
    <3>4. QED  BY <3>1, <3>3
  <2>6. /\ \A k \in Keys : effects'[k] >= effects[k] /\ cache'[k] = cache[k]
        /\ \A r \in CreateOps : Gone(r) => Gone(r)'
    BY <1>5, <1>7 DEF PInv, PTypeOK, Gone
  <2>7. QED  BY <1>5, <2>1, <2>2, <2>3, <2>4, <2>5, <2>6, ProviderStep
<1>8. QED  BY <1>1, <1>6, <1>7 DEF CacheMiss

(* A submission, answered from the cache or sent on its way.               *)
LEMMA SubmitStep ==
  ASSUME PInv, NEW p \in Procs, SubmitMutation(p)
  PROVE  PInv'
<1>1. /\ Waiting(p) /\ claim[p].stage \in MutationStages /\ Target(p) # None
      /\ UNCHANGED <<vars, faults>>
  BY DEF SubmitMutation
<1>2. CASE CacheMiss(p)
  BY <1>1, <1>2, CacheMissStep DEF Waiting
<1>3. CASE AnswerFromCache(p)
  <2>1. /\ claim[p].op # None /\ KeyOf(p) \in Keys /\ claim[p].stage \in Stages
    BY <1>1, RequestParts, ProvisioningAssumption DEF Waiting
  <2>2. PICK x : /\ x = IF [gen |-> cache[KeyOf(p)].gen, token |-> cache[KeyOf(p)].token]
                           = CanonicalRequest(CallOf(p))
                        THEN cache[KeyOf(p)].state ELSE "reused"
                 /\ response' = [response EXCEPT ![p] = x]
                 /\ cache[KeyOf(p)].state # "none" /\ UNCHANGED providerVars
    BY <1>3 DEF AnswerFromCache
  <2>3. cache[KeyOf(p)].state \in Submitted /\ CacheFits(KeyOf(p))
    BY <2>1, <2>2 DEF PInv, PTypeOK, CacheEntries, Submitted, CachesFit
  <2>4. x \in ResponseKinds /\ ResponseFits(p, x)
    BY <1>1, <2>1, <2>2, <2>3
    DEF ResponseFits, ResponseKinds, Submitted, Polled, Observed, CacheFits
  <2>5. /\ polls' \in [Keys -> 0..MaxPolls]
        /\ UNCHANGED <<vm, cache, effects, calls, overlapped>>
    BY <2>2 DEF PInv, PTypeOK, providerVars
  <2>6. QED  BY <1>1, <2>2, <2>4, <2>5, AnswerStep
<1>4. QED  BY <1>2, <1>3 DEF SubmitMutation

(* A call carried out after its wait, whether or not its caller is there.  *)
LEMMA FinishStep ==
  ASSUME PInv, NEW c \in calls, FinishMutation(c)
  PROVE  PInv'
<1>1. PICK mode \in Modes \ {"timeout_applied"} :
        /\ CarryOut(c, mode)
        /\ response' = [p \in Procs |->
             IF ~Awaits(p, c) THEN response[p]
             ELSE IF mode = "timeout" THEN "transport" ELSE ResultOf(c, mode).state]
  BY DEF FinishMutation
<1>2. calls' = calls \ {c} /\ UNCHANGED <<overlapped, vars, faults>>
  BY DEF FinishMutation
<1>3. c \in Calls /\ CallFits(c) /\ CallAhead(c)
  BY DEF PInv, PTypeOK, CallsFit, CallsAhead
<1>4. /\ overlapped \subseteq overlapped' /\ overlapped' \subseteq Keys /\ calls' \subseteq calls
      /\ c.key \notin overlapped' => cache[c.key].state = "none"
      /\ \A d \in calls' : d.key = c.key => c.key \in overlapped'
  BY <1>2, <1>3 DEF CallFits, PInv, PTypeOK
<1>5. ASSUME NEW q \in Procs, Awaits(q, c)
      PROVE  /\ claim[q].op # None /\ claim[q].stage \in MutationStages /\ Target(q) # None
             /\ KeyOf(q) = c.key
  <2>1. ResponseFits(q, "calling")
    BY <1>5 DEF Awaits, PInv, ResponsesFit
  <2>2. QED  BY <1>5, <2>1 DEF ResponseFits, Awaits, CallOf
<1>6. \A q \in Procs :
        \/ response'[q] = response[q]
        \/ /\ claim[q].op # None /\ claim[q].stage \in MutationStages /\ Target(q) # None
           /\ \/ response'[q] = "transport"
              \/ /\ mode # "timeout" /\ KeyOf(q) = c.key
                 /\ response'[q] = ResultOf(c, mode).state
  BY <1>1, <1>5
<1>7. response' \in [Procs -> ResponseKinds]
  <2>1. polls \in [Keys -> 0..MaxPolls] /\ response \in [Procs -> ResponseKinds]
    BY DEF PInv, PTypeOK
  <2>2. ResultOf(c, mode).state \in Submitted
    BY DEF ResultOf, Submitted
  <2>3. QED  BY <1>1, <2>1, <2>2 DEF Submitted, ResponseKinds
<1>8. QED  BY <1>1, <1>2, <1>3, <1>4, <1>6, <1>7, CarryOutStep DEF CallFits

(* A call given up runs on.                                                *)
LEMMA GiveUpStep ==
  ASSUME PInv, NEW p \in Procs, GiveUp(p)
  PROVE  PInv'
<1>1. /\ response' = [response EXCEPT ![p] = "transport"]
      /\ faults' = faults + 1 /\ faults < MaxFaults
      /\ UNCHANGED <<vars, vm, cache, polls, effects, calls, overlapped>>
  BY DEF GiveUp, providerVars
<1>2. response[p] = "calling" /\ ResponseFits(p, response[p])
  BY DEF GiveUp, PInv, ResponsesFit
<1>3. PTypeOK'
  <2>1. TypeOK'
    BY <1>1, NextTypeOK DEF PInv, PTypeOK
  <2>2. faults' \in 0..MaxFaults
    BY <1>1, ProvisioningAssumption DEF PInv, PTypeOK
  <2>3. QED  BY <1>1, <2>1, <2>2 DEF PInv, PTypeOK, ResponseKinds
<1>4. CachesFit' /\ CallsFit' /\ CallsAhead'
  BY <1>1
  DEF PInv, CachesFit, CacheFits, Carried, CallsFit, CallFits, CallsAhead, CallAhead,
      RowAtStep, vars
<1>5. \A q \in Procs : response'[q] = response[q] \/ ResponseFits(q, response[q])'
  <2>1. /\ \A q \in Procs : q # p => response'[q] = response[q]
        /\ response'[p] = "transport" /\ claim' = claim
    BY <1>1 DEF PInv, PTypeOK, vars
  <2>2. ResponseFits(p, response[p])'
    BY <1>2, <2>1 DEF ResponseFits, Submitted, Polled, Observed
  <2>3. QED  BY <2>1, <2>2
<1>6. /\ \A k \in Keys : effects'[k] >= effects[k]
      /\ \A r \in CreateOps : Gone(r) => Gone(r)'
  BY <1>1 DEF PInv, PTypeOK, Gone
<1>7. QED  BY <1>1, <1>3, <1>4, <1>5, <1>6, ProviderStep

(* A poll of the claim's task.                                             *)
LEMMA GetTaskStep ==
  ASSUME PInv, NEW p \in Procs, GetTask(p)
  PROVE  PInv'
<1>1. /\ claim[p].op # None /\ claim[p].stage \in PollStages /\ claim[p].stage \in Stages
      /\ claim[p].task \in Keys /\ polls \in [Keys -> 0..MaxPolls]
      /\ UNCHANGED <<vars, vm, cache, effects, calls, overlapped, faults>>
  BY ClaimParts, ProvisioningAssumption DEF GetTask, Waiting, Nullable, PInv, PTypeOK
<1>2. \A x \in Polled \cup {"transport"} : x \in ResponseKinds /\ ResponseFits(p, x)
  BY <1>1, StageSorts DEF ResponseFits, ResponseKinds, Submitted, Polled, Observed
<1>3. \E x \in Polled \cup {"transport"} : response' = [response EXCEPT ![p] = x]
  BY ProvisioningAssumption DEF GetTask, Polled, QueryFaultKinds
<1>4. polls' \in [Keys -> 0..MaxPolls]
  <2>1. CASE UNCHANGED polls
    BY <1>1, <2>1
  <2>2. CASE polls[claim[p].task] > 0
             /\ polls' = [polls EXCEPT ![claim[p].task] = @ - 1]
    <3>1. polls[claim[p].task] \in 0..MaxPolls /\ MaxPolls \in Nat
      BY <1>1, ProvisioningAssumption
    <3>2. polls[claim[p].task] - 1 \in 0..MaxPolls
      BY <2>2, <3>1
    <3>3. QED  BY <1>1, <2>2, <3>2
  <2>3. QED  BY <2>1, <2>2 DEF GetTask
<1>5. QED  BY <1>1, <1>2, <1>3, <1>4, AnswerStep

(* What an executor concludes from an observation.                         *)
LEMMA VerdictFits ==
  ASSUME PInv, NEW p \in Procs, claim[p].op # None, claim[p].stage \in ObserveStages,
         claim[p].resource # None, NEW x,
         x = Verdict(claim[p].op, claim[p].stage, claim[p].resource)
  PROVE  /\ x \in Observed
         /\ x = "verified" => claim[p].stage = "verifying_purge"
         /\ (x = "proved" /\ claim[p].stage \in {"verifying_purge", "observing_purge"})
              => ~vm[claim[p].resource].present
<1>1. ASSUME NEW b  PROVE ProvedIf(b) \in {"proved", "unproved"}
  BY DEF ProvedIf
<1>2. CASE claim[p].stage = "observing"
  BY <1>1, <1>2 DEF Verdict, ObserveCreated, Observed
<1>3. CASE claim[p].stage = "observing_power"
  BY <1>1, <1>3 DEF Verdict, ObservePower, Observed
<1>4. CASE claim[p].stage = "observing_resize"
  BY <1>1, <1>4 DEF Verdict, ObserveResize, Observed
<1>5. CASE claim[p].stage = "observing_snapshot"
  <2>1. x = ObserveSnapshot(claim[p].op, claim[p].resource)
    BY <1>5 DEF Verdict
  <2>2. x \in {"proved", "unproved", "no_listing"}
    BY <1>1, <2>1 DEF ObserveSnapshot
  <2>3. QED  BY <1>5, <2>2 DEF Observed
<1>6. CASE claim[p].stage = "observing_retention"
  BY <1>1, <1>6 DEF Verdict, ObserveRetention, Observed
<1>7. CASE claim[p].stage = "verifying_purge"
  BY <1>7 DEF Verdict, VerifyOwnership, Observed, ownedResource
<1>8. CASE claim[p].stage = "observing_purge"
  BY <1>8 DEF Verdict, ObserveAbsence, ProvedIf, Observed
<1>9. QED  BY <1>2, <1>3, <1>4, <1>5, <1>6, <1>7, <1>8 DEF ObserveStages

(* An observation.                                                         *)
LEMMA ObserveStep ==
  ASSUME PInv, NEW p \in Procs, Observe(p)
  PROVE  PInv'
<1>1. /\ claim[p].op # None /\ claim[p].stage \in ObserveStages /\ claim[p].stage \in Stages
      /\ claim[p].resource # None
      /\ UNCHANGED <<vars, vm, cache, polls, effects, calls, overlapped, faults>>
      /\ polls' \in [Keys -> 0..MaxPolls]
  BY ProvisioningAssumption DEF Observe, Waiting, providerVars, PInv, PTypeOK
<1>2. PICK x : /\ x = "transport"
                  \/ x = Verdict(claim[p].op, claim[p].stage, claim[p].resource)
               /\ response' = [response EXCEPT ![p] = x]
  BY DEF Observe, Query
<1>3. x \in ResponseKinds /\ ResponseFits(p, x)
  <2>1. CASE x = "transport"
    BY <1>1, <2>1 DEF ResponseFits, ResponseKinds, Submitted, Polled, Observed
  <2>2. CASE x = Verdict(claim[p].op, claim[p].stage, claim[p].resource)
    <3>1. /\ x \in Observed
          /\ x = "verified" => claim[p].stage = "verifying_purge"
          /\ (x = "proved" /\ claim[p].stage \in {"verifying_purge", "observing_purge"})
               => ~vm[claim[p].resource].present
      BY <1>1, <2>2, VerdictFits
    <3>2. QED
      BY <1>1, <3>1 DEF ResponseFits, ResponseKinds, Submitted, Polled, Observed, Gone
  <2>3. QED  BY <1>2, <2>1, <2>2
<1>4. QED  BY <1>1, <1>2, <1>3, AnswerStep

(* A VM changed by hand does not come back.                                *)
LEMMA OutOfBandStep ==
  ASSUME PInv, NEW r \in CreateOps, OutOfBand(r)
  PROVE  PInv'
<1>1. /\ UNCHANGED <<vars, response, cache, polls, effects, calls, overlapped, faults>>
      /\ vm \in [CreateOps -> VMs] /\ vm[r].present
  BY DEF OutOfBand, PInv, PTypeOK
<1>2. /\ vm' \in [CreateOps -> VMs]
      /\ \A s \in CreateOps : ~vm[s].present => ~vm'[s].present
  <2>1. CASE vm' = [vm EXCEPT ![r].present = FALSE]
    BY <1>1, <2>1 DEF VMs
  <2>2. CASE vm' = [vm EXCEPT ![r].owned = FALSE]
    BY <1>1, <2>2 DEF VMs
  <2>3. CASE vm' = [vm EXCEPT ![r].power = "stopped"]
    BY <1>1, <2>3 DEF VMs
  <2>4. QED  BY <2>1, <2>2, <2>3 DEF OutOfBand
<1>3. PTypeOK'
  <2>1. TypeOK'
    BY <1>1, NextTypeOK DEF PInv, PTypeOK
  <2>2. QED  BY <1>1, <1>2, <2>1 DEF PInv, PTypeOK
<1>4. CachesFit' /\ CallsFit' /\ CallsAhead'
  BY <1>1
  DEF PInv, CachesFit, CacheFits, Carried, CallsFit, CallFits, CallsAhead, CallAhead,
      RowAtStep, vars
<1>5. /\ \A k \in Keys : effects'[k] >= effects[k]
      /\ \A s \in CreateOps : Gone(s) => Gone(s)'
  BY <1>1, <1>2 DEF PInv, PTypeOK, Gone
<1>6. QED  BY <1>1, <1>3, <1>4, <1>5, ProviderStep

-----------------------------------------------------------------------------
(* The executors' writes.                                                  *)

(* A checkpoint that goes on to a stage of the capability, with the steps  *)
(* behind that stage carried out and a polling stage's task at hand.       *)
LEMMA ProgressStep ==
  ASSUME PInv, NEW p \in Procs, NEW stage, NEW wait \in BOOLEAN, NEW attempt \in Nat,
         NEW res \in Nullable(CreateOps), NEW task \in Nullable(Keys),
         Progress(p, stage, wait, attempt, res, task), NEW o, o = claim[p].op,
         stage \in Stages, stage \in StagesOf(KindOf[o]), attempt < MaxAttempts, Created(res),
         \A t \in Behind(stage) : Carried(<<o, t>>),
         stage \in PollStages =>
           /\ res # None \/ claim[p].resource # None
           /\ \E m \in MutationStages : /\ Submit[m].accepted = stage
                                        /\ task = <<o, Submit[m].step>>
                                        /\ Carried(task),
         claim[p].stage \in MutationStages =>
           /\ cache[KeyOf(p)].state # "none"
           /\ KeyOf(p) \notin overlapped => cache[KeyOf(p)].state # "unknown"
  PROVE  PInv' /\ Next
<1>1. PICK r : /\ r = IF res # None THEN res ELSE claim[p].resource
               /\ Checkpoint(p, stage, wait, attempt, r, task)
               /\ Handled(p)
  BY DEF Progress
<1>2. /\ AssertLease(p) /\ TypeOK /\ response' = [response EXCEPT ![p] = "none"]
      /\ UNCHANGED <<vm, cache, polls, effects, calls, overlapped, faults>>
  BY <1>1 DEF Checkpoint, Handled, PInv, PTypeOK, providerVars
<1>3. /\ o \in Ops /\ o # None /\ r \in Nullable(CreateOps) /\ Created(r)
      /\ workflow[o].resource = claim[p].resource
  BY <1>1, <1>2, FreshWriter, ClaimParts
<1>4. attempt \in StageAttempts /\ r \in Nullable(Resources) /\ task \in Nullable(Tasks)
  BY <1>3, ProvisioningAssumption
<1>5. Next
  BY <1>1, <1>4 DEF Next, WorkerWrite
<1>6. FencedWrite(p)
  BY <1>1, <1>2, <1>4, CheckpointIsFenced
<1>7. /\ workflow'[o].status \in Unfinished /\ workflow'[o].stage = stage
      /\ workflow'[o].stageAttempt = attempt /\ workflow'[o].resource = r
      /\ workflow'[o].task = task
  BY <1>1, <1>2, <1>3 DEF Checkpoint, TypeOK, Unfinished
<1>8. PassedStep(p)
  BY DEF PassedStep
<1>9. RowInStep(o)' /\ RowEnded(o)' /\ Created(workflow[o].resource)'
  BY <1>2, <1>3, <1>7 DEF RowInStep, RowEnded, Created, Carried, Unfinished
<1>10. RowPolls(o)'
  BY <1>1, <1>2, <1>7 DEF RowPolls, Carried
<1>11. UNCHANGED <<providerVars, faults>>
  BY <1>2 DEF providerVars
<1>12. QED  BY <1>2, <1>5, <1>6, <1>8, <1>9, <1>10, <1>11, WriteStep

(* A write that ends the row leaves its resource and what it had done.     *)
LEMMA EndStep ==
  ASSUME PInv, NEW p \in Procs, Next, FencedWrite(p), PassedStep(p), Handled(p),
         NEW o, o = claim[p].op, workflow'[o].status \in Terminal,
         workflow'[o].resource = workflow[o].resource,
         workflow'[o].status = "succeeded" =>
           IF KindOf[o] = "purge"
           THEN claim[p].resource # None /\ Gone(claim[p].resource)
           ELSE \A t \in StepsOf(o) : Carried(<<o, t>>)
  PROVE  PInv'
<1>1. /\ response' = [response EXCEPT ![p] = "none"] /\ UNCHANGED <<providerVars, faults>>
      /\ UNCHANGED <<vm, cache, effects, overlapped>>
  BY DEF Handled, providerVars
<1>2. o \in Ops /\ workflow[o].resource = claim[p].resource /\ Created(workflow[o].resource)
  BY FreshWriter DEF FencedWrite, PInv, RowsInStep
<1>3. /\ RowInStep(o)' /\ RowPolls(o)' /\ Created(workflow[o].resource)'
  BY <1>1, <1>2 DEF RowInStep, RowPolls, Created, Unfinished, Terminal
<1>4. RowEnded(o)'
  BY <1>1, <1>2 DEF RowEnded, Carried, Gone
<1>5. QED  BY <1>1, <1>3, <1>4, WriteStep

(* The three outcomes of complete.                                         *)
LEMMA CompleteStep ==
  ASSUME PInv, NEW p \in Procs, NEW status \in Terminal, Complete(p, status), Handled(p),
         NEW o, o = claim[p].op,
         (/\ claim[p].stage \in MutationStages /\ Target(p) # None
          /\ status # "manual_review")
         => /\ cache[KeyOf(p)].state # "none"
            /\ (Plain(o) /\ KeyOf(p) \notin overlapped) => cache[KeyOf(p)].state # "unknown",
         status = "succeeded" =>
           IF KindOf[o] = "purge"
           THEN claim[p].resource # None /\ Gone(claim[p].resource)
           ELSE \A t \in StepsOf(o) : Carried(<<o, t>>)
  PROVE  PInv' /\ Next
<1>1. TypeOK /\ AssertLease(p)
  BY DEF Complete, PInv, PTypeOK
<1>2. Next
  BY DEF Next, WorkerWrite
<1>3. FencedWrite(p) /\ workflow'[o].status = status
  BY <1>1, CompleteIsFenced
<1>4. o \in Ops
  BY <1>1, FreshWriter
<1>5. workflow'[o].resource = workflow[o].resource
  BY <1>1, <1>4 DEF Complete, EndedRow, TypeOK
<1>6. PassedStep(p)
  BY <1>3 DEF PassedStep
<1>7. QED  BY <1>2, <1>3, <1>5, <1>6, EndStep

(* What the invariant says of the row of a worker that passes the fence.   *)
LEMMA WriterRow ==
  ASSUME PInv, NEW p \in Procs, AssertLease(p), NEW o, o = claim[p].op
  PROVE  /\ o \in Ops /\ o # None /\ KindOf[o] \in Kinds
         /\ \A t \in Behind(claim[p].stage) : Carried(<<o, t>>)
         /\ claim[p].stage \in PollStages =>
              /\ claim[p].resource # None
              /\ \E m \in MutationStages : /\ Submit[m].accepted = claim[p].stage
                                           /\ claim[p].task = <<o, Submit[m].step>>
                                           /\ Carried(claim[p].task)
<1>1. /\ o # None /\ o \in Ops /\ workflow[o].status = "running"
      /\ workflow[o].stage = claim[p].stage /\ workflow[o].resource = claim[p].resource
      /\ workflow[o].task = claim[p].task
  BY FreshWriter
<1>2. RowInStep(o) /\ RowPolls(o)
  BY <1>1 DEF PInv, RowsInStep
<1>3. /\ \A t \in Behind(claim[p].stage) : Carried(<<o, t>>)
      /\ KindOf[o] \in Kinds
  BY <1>1, <1>2, ProvisioningAssumption DEF RowInStep, Unfinished
<1>4. QED  BY <1>1, <1>2, <1>3 DEF RowPolls, Unfinished

(* Leaving `accepted'.                                                     *)
LEMMA AdvanceStep ==
  ASSUME PInv, NEW p \in Procs, Advance(p)
  PROVE  PInv' /\ Next
<1>1. PICK o : o = claim[p].op
  OBVIOUS
<1>2. PICK s : s = FirstStage[KindOf[o]] /\ Progress(p, s, FALSE, 0, None, claim[p].task)
  BY <1>1 DEF Advance
<1>3. /\ claim[p].op # None /\ claim[p].stage \notin MutationStages
      /\ KindOf[o] \in Kinds /\ claim[p].task \in Nullable(Keys)
  BY <1>1, ClaimParts, StageSorts DEF Advance, Waiting
<1>4. s \in StagesOf(KindOf[o]) /\ s \in Stages /\ s \notin PollStages /\ Behind(s) = {}
  BY <1>2, <1>3, FirstTable, ProvisioningAssumption
<1>5. 0 < MaxAttempts /\ None \in Nullable(CreateOps) /\ Created(None)
  BY ProvisioningAssumption DEF Nullable, Created
<1>6. QED  BY <1>1, <1>2, <1>3, <1>4, <1>5, ProgressStep

(* The provider accepted the mutation, or completed it at once: the step   *)
(* joins those behind the row.                                             *)
LEMMA SubmittedStep ==
  ASSUME PInv, NEW p \in Procs, HandleAccepted(p) \/ HandleSucceeded(p)
  PROVE  PInv' /\ Next
<1>1. PICK o, s, r, k : o = claim[p].op /\ s = claim[p].stage /\ r = Target(p) /\ k = KeyOf(p)
  OBVIOUS
<1>2. /\ ResponseFits(p, response[p]) /\ response[p] \in {"accepted", "succeeded"}
      /\ AssertLease(p)
  BY DEF PInv, ResponsesFit, HandleAccepted, HandleSucceeded, Progress, Checkpoint
<1>3. /\ o # None /\ s \in MutationStages /\ r # None
      /\ Carried(k) /\ cache[k].state # "none"
      /\ k \notin overlapped => cache[k].state # "unknown"
  BY <1>1, <1>2 DEF ResponseFits, Submitted
<1>4. /\ o \in Ops /\ KindOf[o] \in Kinds /\ s \in StagesOf(KindOf[o])
      /\ claim[p].task \in Nullable(Keys) /\ k \in Keys /\ k = <<o, Submit[s].step>>
      /\ r \in Nullable(CreateOps) /\ Created(claim[p].resource)
      /\ k[2] = "create" => r = o
      /\ k[2] # "create" => r = claim[p].resource
      /\ k[2] = Submit[s].step
  BY <1>1, <1>3, ClaimParts, RequestParts DEF KeyOf
<1>5. Created(r)
  BY <1>3, <1>4 DEF Created
<1>6. /\ Submit[s].accepted \in StagesOf(KindOf[o]) \cap PollStages
      /\ Submit[s].sync \in StagesOf(KindOf[o]) \cap (MutationStages \cup ObserveStages)
      /\ Submit[s].sync \notin PollStages
      /\ Behind(Submit[s].accepted) = Behind(s) \cup {Submit[s].step}
      /\ Behind(Submit[s].sync) = Behind(s) \cup {Submit[s].step}
  BY <1>3, <1>4, SubmitTable
<1>7. \A t \in Behind(s) \cup {Submit[s].step} : Carried(<<o, t>>)
  BY <1>1, <1>2, <1>3, <1>4, WriterRow
<1>8. /\ Submit[s].accepted \in Stages /\ Submit[s].sync \in Stages /\ 0 < MaxAttempts
      /\ k \in Nullable(Keys)
  BY <1>4, <1>6, ProvisioningAssumption DEF Nullable
<1>9. CASE HandleAccepted(p)
  <2>1. PICK stage : stage = Submit[s].accepted /\ Progress(p, stage, FALSE, 0, r, k)
    BY <1>1, <1>9 DEF HandleAccepted
  <2>3. \E m \in MutationStages : /\ Submit[m].accepted = stage
                                  /\ k = <<o, Submit[m].step>>
                                  /\ Carried(k)
    BY <1>3, <1>4, <2>1
  <2>4. /\ stage \in Stages /\ stage \in StagesOf(KindOf[o])
        /\ \A t \in Behind(stage) : Carried(<<o, t>>)
    BY <1>6, <1>7, <1>8, <2>1
  <2>5. /\ cache[KeyOf(p)].state # "none"
        /\ KeyOf(p) \notin overlapped => cache[KeyOf(p)].state # "unknown"
    BY <1>1, <1>3
  <2>6. r \in Nullable(CreateOps) /\ r # None /\ Created(r)
    BY <1>3, <1>4, <1>5
  <2>7. QED  BY <1>1, <1>8, <2>1, <2>3, <2>4, <2>5, <2>6, ProgressStep
<1>10. CASE HandleSucceeded(p)
  <2>1. PICK stage : stage = Submit[s].sync /\ Progress(p, stage, FALSE, 0, r, claim[p].task)
    BY <1>1, <1>10 DEF HandleSucceeded
  <2>2. /\ stage \in Stages /\ stage \in StagesOf(KindOf[o]) /\ stage \notin PollStages
        /\ \A t \in Behind(stage) : Carried(<<o, t>>)
    BY <1>6, <1>7, <1>8, <2>1
  <2>3. QED  BY <1>1, <1>3, <1>4, <1>5, <1>8, <2>1, <2>2, ProgressStep
<1>11. QED  BY <1>9, <1>10

(* A task polled: the row waits at its stage, or goes on without the task. *)
LEMMA PolledStep ==
  ASSUME PInv, NEW p \in Procs, HandleTaskRunning(p) \/ HandleTaskDone(p)
  PROVE  PInv' /\ Next
<1>1. PICK o, s : o = claim[p].op /\ s = claim[p].stage
  OBVIOUS
<1>2. /\ ResponseFits(p, response[p]) /\ response[p] \in {"running", "done"} /\ AssertLease(p)
  BY DEF PInv, ResponsesFit, HandleTaskRunning, HandleTaskDone, Progress, Checkpoint
<1>3. o # None /\ s \in PollStages /\ s \in Stages
  BY <1>1, <1>2 DEF ResponseFits, Polled
<1>4. /\ KindOf[o] \in Kinds /\ s \in StagesOf(KindOf[o]) /\ s \notin MutationStages
      /\ claim[p].task \in Nullable(Keys) /\ None \in Nullable(Keys)
      /\ None \in Nullable(CreateOps) /\ Created(None) /\ 0 < MaxAttempts
  <2>1. KindOf[o] \in Kinds /\ s \in StagesOf(KindOf[o]) /\ claim[p].task \in Nullable(Keys)
    BY <1>1, <1>3, ClaimParts
  <2>2. s \notin MutationStages
    BY <1>3, StageSorts
  <2>3. /\ None \in Nullable(Keys) /\ None \in Nullable(CreateOps)
        /\ Created(None) /\ 0 < MaxAttempts
    BY ProvisioningAssumption DEF Nullable, Created
  <2>4. QED  BY <2>1, <2>2, <2>3
<1>5. /\ \A t \in Behind(s) : Carried(<<o, t>>)
      /\ claim[p].resource # None
      /\ \E m \in MutationStages : /\ Submit[m].accepted = s
                                   /\ claim[p].task = <<o, Submit[m].step>>
                                   /\ Carried(claim[p].task)
  BY <1>1, <1>2, <1>3, WriterRow
<1>6. CASE HandleTaskRunning(p)
  <2>1. Progress(p, s, TRUE, 0, None, claim[p].task)
    BY <1>1, <1>6 DEF HandleTaskRunning
  <2>2. QED  BY <1>1, <1>3, <1>4, <1>5, <2>1, ProgressStep
<1>7. CASE HandleTaskDone(p)
  <2>1. PICK stage : stage = Poll[s] /\ Progress(p, stage, FALSE, 0, None, None)
    BY <1>1, <1>7 DEF HandleTaskDone
  <2>2. /\ stage \in StagesOf(KindOf[o]) /\ stage \in Stages /\ stage \notin PollStages
        /\ Behind(stage) = Behind(s)
    BY <1>3, <1>4, <2>1, PollTable, ProvisioningAssumption
  <2>3. QED  BY <1>1, <1>4, <1>5, <2>1, <2>2, ProgressStep
<1>8. QED  BY <1>6, <1>7

(* A purge found its VM.                                                   *)
LEMMA VerifiedStep ==
  ASSUME PInv, NEW p \in Procs, HandleVerified(p)
  PROVE  PInv' /\ Next
<1>1. PICK o : o = claim[p].op
  OBVIOUS
<1>2. /\ ResponseFits(p, response[p]) /\ response[p] = "verified"
      /\ Progress(p, "submitting_purge", FALSE, 0, None, claim[p].task)
  BY DEF PInv, ResponsesFit, HandleVerified
<1>3. o # None /\ claim[p].stage = "verifying_purge"
  BY <1>1, <1>2 DEF ResponseFits
<1>4. /\ KindOf[o] \in Kinds /\ claim[p].stage \in StagesOf(KindOf[o])
      /\ claim[p].task \in Nullable(Keys)
  BY <1>1, <1>3, ClaimParts
<1>5. KindOf[o] = "purge" /\ claim[p].stage \notin MutationStages
  BY <1>3, <1>4, ObserveTable DEF ObserveStages
<1>6. /\ "submitting_purge" \in Stages /\ "submitting_purge" \in StagesOf(KindOf[o])
      /\ "submitting_purge" \notin PollStages /\ Behind("submitting_purge") = {}
      /\ None \in Nullable(CreateOps) /\ Created(None) /\ 0 < MaxAttempts
  BY <1>5, StageSorts, ProvisioningAssumption DEF Nullable, Created
<1>7. QED  BY <1>1, <1>2, <1>4, <1>5, <1>6, ProgressStep

(* A query that could not be answered: the row waits at its stage for the  *)
(* next attempt, or is dead-lettered.                                      *)
LEMMA RetryStep ==
  ASSUME PInv, NEW p \in Procs, RetryOrDeadLetter(p)
  PROVE  PInv' /\ Next
<1>1. PICK o, s, attempt : o = claim[p].op /\ s = claim[p].stage /\ attempt = NextAttempt(p)
  OBVIOUS
<1>2. /\ ResponseFits(p, response[p]) /\ response[p] = "transport" /\ s \notin MutationStages
  BY <1>1 DEF PInv, ResponsesFit, RetryOrDeadLetter
<1>3. o # None /\ s \in Stages
  BY <1>1, <1>2 DEF ResponseFits
<1>4. /\ o \in Ops /\ KindOf[o] \in Kinds /\ s \in StagesOf(KindOf[o])
      /\ claim[p].task \in Nullable(Keys)
      /\ claim[p].stageAttempt \in Nat /\ claim[p].stageAttempt < MaxAttempts
  BY <1>1, <1>3, ClaimParts
<1>5. attempt \in Nat /\ attempt \in StageAttempts
  BY <1>1, <1>4, ProvisioningAssumption DEF NextAttempt
<1>6. CASE attempt < MaxAttempts /\ Progress(p, s, TRUE, attempt, None, claim[p].task)
  <2>1. AssertLease(p)
    BY <1>6 DEF Progress, Checkpoint
  <2>2. None \in Nullable(CreateOps) /\ Created(None)
    BY DEF Nullable, Created
  <2>3. /\ \A t \in Behind(s) : Carried(<<o, t>>)
        /\ s \in PollStages =>
             /\ claim[p].resource # None
             /\ \E m \in MutationStages : /\ Submit[m].accepted = s
                                          /\ claim[p].task = <<o, Submit[m].step>>
                                          /\ Carried(claim[p].task)
    BY <1>1, <2>1, WriterRow
  <2>4. QED  BY <1>1, <1>2, <1>3, <1>4, <1>5, <1>6, <2>2, <2>3, ProgressStep
<1>7. CASE DeadLetterWorkflow(p, attempt) /\ Handled(p)
  <2>1. Next
    BY <1>5, <1>7 DEF Next, WorkerWrite
  <2>2. TypeOK
    BY DEF PInv, PTypeOK
  <2>3. FencedWrite(p) /\ workflow'[o].status = "failed"
    BY <1>1, <1>5, <1>7, <2>2, DeadLetterIsFenced
  <2>4. workflow'[o].resource = workflow[o].resource
    BY <1>1, <1>4, <1>7, <2>2 DEF DeadLetterWorkflow, EndedRow, TypeOK
  <2>5. PassedStep(p)
    BY <1>1, <1>2 DEF PassedStep
  <2>6. QED  BY <1>1, <1>7, <2>1, <2>3, <2>4, <2>5, EndStep DEF Terminal
<1>8. QED  BY <1>1, <1>6, <1>7 DEF RetryOrDeadLetter

(* A workflow set aside for review may have any outcome behind it.         *)
LEMMA ReviewStep ==
  ASSUME PInv, NEW p \in Procs, ManualReview(p)
  PROVE  PInv' /\ Next
  BY CompleteStep DEF ManualReview, Terminal

(* A workflow fails at a mutation stage only by the provider's answer, and *)
(* where that answer was unknown, the request of a create or a power call  *)
(* is the one remembered, whatever the fencing token: it is not refused.   *)
LEMMA FailStep ==
  ASSUME PInv, NEW p \in Procs, Fail(p)
  PROVE  PInv' /\ Next
<1>1. PICK o, k : o = claim[p].op /\ k = KeyOf(p)
  OBVIOUS
<1>2. Complete(p, "failed") /\ Handled(p) /\ AssertLease(p)
  BY DEF Fail, Complete
<1>3. ResponseFits(p, response[p])
  BY DEF PInv, ResponsesFit
<1>4. (claim[p].stage \in MutationStages /\ Target(p) # None)
      => /\ cache[k].state # "none"
         /\ (Plain(o) /\ k \notin overlapped) => cache[k].state # "unknown"
  <2>1. SUFFICES ASSUME claim[p].stage \in MutationStages, Target(p) # None
                 PROVE  /\ cache[k].state # "none"
                        /\ (Plain(o) /\ k \notin overlapped) => cache[k].state # "unknown"
    OBVIOUS
  <2>2. response[p] \in {"rejected", "reused"}
    BY <1>3, <2>1, StageSorts DEF Fail, Unaddressable, ResponseFits, Polled, Observed
  <2>3. cache[k].state # "none"
    BY <1>1, <1>3, <2>2 DEF ResponseFits, Submitted
  <2>4. CASE response[p] = "rejected"
    BY <1>1, <1>3, <2>3, <2>4 DEF ResponseFits, Submitted
  <2>5. CASE response[p] = "reused"
    <3>1. SUFFICES ASSUME Plain(o), cache[k].state = "unknown", k \notin overlapped
                   PROVE  FALSE
      BY <2>3
    <3>2. /\ o \in Ops /\ o # None /\ workflow[o].status = "running"
          /\ workflow[o].gen = claim[p].gen
      BY <1>1, <1>2, FreshWriter
    <3>3. k \in Keys /\ k[1] = o
      BY <1>1, <2>1, <3>2, RequestParts
    <3>4. UnknownStays(k) /\ CacheFits(k)
      BY <3>3 DEF PInv, UnknownsStay, CachesFit
    <3>5. cache[k].gen = claim[p].gen /\ cache[k].token = 0
      <4>1. RowAtStep(k, cache[k].gen) /\ cache[k].token = 0
        BY <3>1, <3>3, <3>4 DEF UnknownStays, CacheFits
      <4>2. workflow[o].gen = cache[k].gen
        BY <3>3, <4>1 DEF RowAtStep
      <4>3. QED  BY <3>2, <4>1, <4>2
    <3>6. CanonicalRequest(CallOf(p)) = [gen |-> claim[p].gen, token |-> 0]
      BY <1>1, <3>1 DEF CanonicalRequest, CallOf, KeyOf, Plain
    <3>7. QED  BY <1>1, <1>3, <2>5, <3>1, <3>5, <3>6 DEF ResponseFits
  <2>6. QED  BY <2>2, <2>4, <2>5
<1>5. QED  BY <1>1, <1>2, <1>4, CompleteStep DEF Terminal

(* A workflow succeeds from an observation: all its steps are behind it,   *)
(* or it is a purge and its VM is gone.                                    *)
LEMMA SucceedStep ==
  ASSUME PInv, NEW p \in Procs, Succeed(p)
  PROVE  PInv' /\ Next
<1>1. PICK o, s : o = claim[p].op /\ s = claim[p].stage
  OBVIOUS
<1>2. /\ Complete(p, "succeeded") /\ Handled(p) /\ AssertLease(p)
      /\ ResponseFits(p, response[p]) /\ response[p] = "proved"
  BY DEF Succeed, Complete, PInv, ResponsesFit
<1>3. o # None /\ s \in ObserveStages /\ claim[p].resource # None
  BY <1>1, <1>2 DEF ResponseFits, Observed
<1>4. o \in Ops /\ KindOf[o] \in Kinds /\ s \in StagesOf(KindOf[o])
  BY <1>1, <1>3, ClaimParts
<1>5. /\ s \notin MutationStages
      /\ s = "verifying_purge" => KindOf[o] = "purge"
      /\ KindOf[o] = "purge" => s \in {"verifying_purge", "observing_purge"}
      /\ s # "verifying_purge" => Behind(s) = StepsOf(o)
  BY <1>3, <1>4, ObserveTable DEF StepsOf
<1>6. CASE KindOf[o] = "purge"
  <2>1. Gone(claim[p].resource)
    BY <1>1, <1>2, <1>5, <1>6 DEF ResponseFits
  <2>2. QED  BY <1>1, <1>2, <1>3, <1>5, <1>6, <2>1, CompleteStep DEF Terminal
<1>7. CASE KindOf[o] # "purge"
  <2>1. \A t \in StepsOf(o) : Carried(<<o, t>>)
    BY <1>1, <1>2, <1>5, <1>7, WriterRow
  <2>2. QED  BY <1>1, <1>2, <1>5, <1>7, <2>1, CompleteStep DEF Terminal
<1>8. QED  BY <1>6, <1>7

-----------------------------------------------------------------------------
(* The remaining steps, and the invariant.                                 *)

(* Commands and requests are published and delivered: a row only starts,   *)
(* and with a resource that its instance already has.                      *)
LEMMA DeliveryStep ==
  ASSUME PInv, UNCHANGED <<response, providerVars, faults>>,
         \/ \E o \in Ops : PublishCommand(o)
         \/ \E r \in Requests, o \in Ops : PublishReplayRequest(r, o)
         \/ Consumer
  PROVE  PInv' /\ Next
<1>1. Next
  BY DEF Next, Environment
<1>2. TypeOK /\ \A o \in Ops : Created(workflow[o].resource)
  BY DEF PInv, PTypeOK, RowsInStep
<1>3. CASE UNCHANGED <<workflow, claim>>
  BY <1>1, <1>3, ConsumerStep
<1>4. ASSUME NEW m \in published, AdmitOriginalDelivery(m)  PROVE PInv'
  <2>1. UNCHANGED claim /\ m.op \in Ops
    BY <1>2, <1>4, MessageParts DEF AdmitOriginalDelivery
  <2>2. CASE UNCHANGED workflow
    BY <1>3, <2>1, <2>2
  <2>3. ASSUME NEW r \in Nullable(Resources), Inherits(m.op, r), ~AlreadyAdmitted(m.op),
               workflow' = [workflow EXCEPT ![m.op] = RowAtStart("running", 0, 0, r)]
        PROVE  PInv'
    <3>1. workflow[m.op].status = "none"
      BY <2>3 DEF AlreadyAdmitted
    <3>2. Created(r)
      <4>1. CASE r = None
        BY <4>1 DEF Created
      <4>2. CASE r # None
        <5>1. PICK k \in DOMAIN admitted : r = workflow[admitted[k]].resource
          BY <2>3, <4>2 DEF Inherits
        <5>2. admitted[k] \in Ops
          BY <1>2, <5>1 DEF TypeOK
        <5>3. QED  BY <1>2, <5>1, <5>2
      <4>3. QED  BY <4>1, <4>2
    <3>3. /\ workflow'[m.op].status = "running" /\ workflow'[m.op].stage = "accepted"
          /\ workflow'[m.op].stageAttempt = 0 /\ workflow'[m.op].resource = r
          /\ \A o \in Ops : o # m.op => workflow'[o] = workflow[o]
      BY <1>2, <2>1, <2>3 DEF TypeOK, RowAtStart
    <3>4. QED  BY <1>1, <2>1, <3>1, <3>2, <3>3, ConsumerStep
  <2>4. QED  BY <1>4, <2>2, <2>3 DEF AdmitOriginalDelivery
<1>5. ASSUME NEW m \in published, AdmitAuthorizedReplayCommand(m)  PROVE PInv'
  <2>1. UNCHANGED claim /\ m.op \in Ops
    BY <1>2, <1>5, MessageParts DEF AdmitAuthorizedReplayCommand
  <2>2. workflow[m.op].status \in {"none", "failed"}
    BY <1>5 DEF AdmitAuthorizedReplayCommand, MovedOn
  <2>3. /\ workflow'[m.op].status = "running" /\ workflow'[m.op].stage = "accepted"
        /\ workflow'[m.op].stageAttempt = 0 /\ workflow'[m.op].resource = None
        /\ \A o \in Ops : o # m.op => workflow'[o] = workflow[o]
    BY <1>2, <1>5, <2>1 DEF AdmitAuthorizedReplayCommand, Reopened, RowAtStart, TypeOK
  <2>4. QED  BY <1>1, <2>1, <2>2, <2>3, ConsumerStep DEF Created
<1>6. \/ UNCHANGED <<workflow, claim>>
      \/ \E m \in published : AdmitOriginalDelivery(m)
      \/ \E m \in published : AdmitAuthorizedReplayCommand(m)
  BY DEF PublishCommand, PublishReplayRequest, Consumer, AdmitReplayRequest,
         RejectReplayCommand, DeadLetterCommand
<1>7. QED  BY <1>1, <1>3, <1>4, <1>5, <1>6

(* A step that leaves the rows alone and at most drops claims, with the    *)
(* responses kept for them.                                                *)
LEMMA DropStep ==
  ASSUME PInv, Next, UNCHANGED <<workflow, providerVars>>,
         faults' \in 0..MaxFaults, response' \in [Procs -> ResponseKinds],
         \A q \in Procs : \/ claim'[q] = claim[q] /\ response'[q] = response[q]
                          \/ claim'[q].op = None /\ response'[q] = "none"
  PROVE  PInv'
<1>1. TypeOK' /\ Fence' /\ Ledger' /\ UNCHANGED <<vm, cache, polls, effects, calls, overlapped>>
  BY NextTypeOK, NextFence, NextLedger DEF PInv, PTypeOK, providerVars
<1>2. PTypeOK'
  BY <1>1 DEF PInv, PTypeOK
<1>3. RowsInStep' /\ CachesFit' /\ UnknownsStay' /\ CallsFit' /\ CallsAhead'
  <2>1. RowsInStep'
    BY <1>1 DEF PInv, RowsInStep, RowInStep, RowPolls, RowEnded, Created, Carried, Gone
  <2>2. CachesFit' /\ UnknownsStay' /\ CallsFit' /\ CallsAhead'
    BY <1>1
    DEF PInv, CachesFit, CacheFits, UnknownsStay, UnknownStays, Carried, CallsFit, CallFits,
        CallsAhead, CallAhead, RowAtStep
  <2>3. QED  BY <2>1, <2>2
<1>4. ClaimsInStep'
  BY <1>1 DEF PInv, ClaimsInStep, ClaimInStep, Created
<1>5. ResponsesFit' /\ ClaimsAhead'
  <2>1. SUFFICES ASSUME NEW q \in Procs  PROVE ResponseFits(q, response[q])' /\ Ahead(q)'
    BY DEF ResponsesFit, ClaimsAhead
  <2>2. CASE claim'[q].op = None /\ response'[q] = "none"
    BY <2>2 DEF ResponseFits, Ahead, Submitted, Polled, Observed
  <2>3. CASE claim'[q] = claim[q] /\ response'[q] = response[q]
    <3>1. /\ ResponseFits(q, response[q]) /\ Ahead(q)
          /\ KeyOf(q)' = KeyOf(q) /\ Target(q)' = Target(q)
          /\ CanonicalRequest(CallOf(q))' = CanonicalRequest(CallOf(q))
      BY <2>3 DEF PInv, ResponsesFit, ClaimsAhead, KeyOf, Target, CanonicalRequest, CallOf
    <3>2. ResponseFits(q, response[q])'
      BY <1>1, <2>3, <3>1 DEF ResponseFits, Carried, Gone
    <3>3. Ahead(q)'
      BY <1>1, <2>3, <3>1 DEF Ahead
    <3>4. QED  BY <3>2, <3>3
  <2>4. QED  BY <2>2, <2>3
<1>6. QED  BY <1>1, <1>2, <1>3, <1>4, <1>5 DEF PInv

(* A worker forgets its claim.                                             *)
LEMMA AbandonStep ==
  ASSUME PInv, NEW p \in Procs, Abandon(p)
  PROVE  PInv' /\ Next
<1>1. AbandonClaim(p) /\ response' = [response EXCEPT ![p] = "none"] /\ UNCHANGED providerVars
  BY DEF Abandon
<1>2. Next
  BY <1>1 DEF Next
<1>3. faults' \in 0..MaxFaults
  BY ProvisioningAssumption DEF Abandon, PInv, PTypeOK
<1>4. /\ response' \in [Procs -> ResponseKinds] /\ response'[p] = "none"
      /\ claim'[p].op = None /\ UNCHANGED workflow
      /\ \A q \in Procs : q # p => claim'[q] = claim[q] /\ response'[q] = response[q]
  BY <1>1 DEF AbandonClaim, PInv, PTypeOK, TypeOK, Idle, ResponseKinds
<1>5. QED  BY <1>1, <1>2, <1>3, <1>4, DropStep

(* A lease runs out.                                                       *)
LEMMA LapseStep ==
  ASSUME PInv, NEW i \in Instances, Lapse(i)
  PROVE  PInv' /\ Next
<1>1. LeaseLapses(i) /\ UNCHANGED <<response, providerVars, workflow, claim>>
  BY DEF Lapse, LeaseLapses
<1>2. Next
  BY <1>1 DEF Next
<1>3. faults' \in 0..MaxFaults
  BY ProvisioningAssumption DEF Lapse, PInv, PTypeOK
<1>4. response' \in [Procs -> ResponseKinds]
  BY <1>1 DEF PInv, PTypeOK
<1>5. QED  BY <1>1, <1>2, <1>3, <1>4, DropStep

(* Every step keeps the invariant and is a step of the store or leaves it. *)
LEMMA NextPInv ==
  ASSUME PInv, [PNext]_pvars
  PROVE  PInv' /\ [Next]_vars
<1>1. CASE UNCHANGED pvars
  <2>1. UNCHANGED <<vars, response, vm, cache, polls, effects, calls, overlapped, faults>>
    BY <1>1 DEF pvars, providerVars
  <2>2. PTypeOK' /\ CachesFit' /\ CallsFit' /\ CallsAhead'
    <3>1. TypeOK'
      BY <2>1, NextTypeOK DEF PInv, PTypeOK
    <3>2. QED
      BY <2>1, <3>1
      DEF PInv, PTypeOK, CachesFit, CacheFits, Carried, CallsFit, CallFits, CallsAhead,
          CallAhead, RowAtStep, vars
  <2>3. /\ \A k \in Keys : effects'[k] >= effects[k]
        /\ \A r \in CreateOps : Gone(r) => Gone(r)'
    BY <2>1 DEF PInv, PTypeOK, Gone
  <2>4. QED  BY <2>1, <2>2, <2>3, ProviderStep
<1>2. CASE /\ \/ \E o \in Ops : Accept(o)
              \/ \E r \in Requests, o \in Ops : PublishReplayRequest(r, o)
              \/ Consumer
           /\ UNCHANGED <<response, providerVars, faults>>
  BY <1>2, DeliveryStep DEF Accept
<1>3. ASSUME NEW p \in Procs, Worker(p)  PROVE PInv' /\ [Next]_vars
  <2>1. ASSUME NEW o \in Ops, ClaimNext(p, o), UNCHANGED <<response, providerVars, faults>>
        PROVE  PInv' /\ [Next]_vars
    BY <2>1, ClaimStep DEF Next
  <2>2. CASE SubmitMutation(p)
    BY <2>2, SubmitStep DEF SubmitMutation
  <2>3. CASE GetTask(p)
    BY <2>3, GetTaskStep DEF GetTask
  <2>4. CASE Observe(p)
    BY <2>4, ObserveStep DEF Observe
  <2>5. CASE Advance(p)
    BY <2>5, AdvanceStep
  <2>6. CASE HandleAccepted(p) \/ HandleSucceeded(p)
    BY <2>6, SubmittedStep
  <2>7. CASE HandleTaskRunning(p) \/ HandleTaskDone(p)
    BY <2>7, PolledStep
  <2>8. CASE HandleVerified(p)
    BY <2>8, VerifiedStep
  <2>9. CASE RetryOrDeadLetter(p)
    BY <2>9, RetryStep
  <2>10. CASE ManualReview(p)
    BY <2>10, ReviewStep
  <2>11. CASE Fail(p)
    BY <2>11, FailStep
  <2>12. CASE Succeed(p)
    BY <2>12, SucceedStep
  <2>13. QED
    BY <1>3, <2>1, <2>2, <2>3, <2>4, <2>5, <2>6, <2>7, <2>8, <2>9, <2>10, <2>11, <2>12
    DEF Worker
<1>4. ASSUME NEW p \in Procs, Abandon(p)  PROVE PInv' /\ [Next]_vars
  BY <1>4, AbandonStep
<1>5. ASSUME NEW i \in Instances, Lapse(i)  PROVE PInv' /\ [Next]_vars
  BY <1>5, LapseStep
<1>6. ASSUME NEW r \in CreateOps, OutOfBand(r)  PROVE PInv' /\ [Next]_vars
  BY <1>6, OutOfBandStep DEF OutOfBand
<1>7. ASSUME NEW p \in Procs, GiveUp(p)  PROVE PInv' /\ [Next]_vars
  BY <1>7, GiveUpStep DEF GiveUp
<1>8. ASSUME NEW c \in calls, FinishMutation(c)  PROVE PInv' /\ [Next]_vars
  BY <1>8, FinishStep DEF FinishMutation
<1>9. QED  BY <1>1, <1>2, <1>3, <1>4, <1>5, <1>6, <1>7, <1>8 DEF PNext

(* What holds of the workers, the store and the provider together: in      *)
(* every reachable state the rows, the claims in memory, the responses not *)
(* yet handled and the provider's memory of requests fit each other.       *)
THEOREM ProvisioningInvariance == PSpec => []PInv
<1>1. PInv /\ [PNext]_pvars => PInv'
  BY NextPInv
<1>2. QED  BY InitPInv, <1>1, PTL DEF PSpec

(* The workers' store is the workflow store: the executors call its        *)
(* transactions, with arguments in their range, and do nothing else to it. *)
(* So every theorem about WorkflowStore is one about the workers.          *)
THEOREM WorkersUseTheStore == PSpec => Spec
<1>1. PInit => Init
  BY DEF PInit
<1>2. PInv /\ [PNext]_pvars => [Next]_vars
  BY NextPInv
<1>3. QED  BY ProvisioningInvariance, <1>1, <1>2, PTL DEF PSpec, Spec

(* The types of the workers' and the provider's state.                     *)
THEOREM WorkersTypeCorrect == PSpec => []PTypeOK
<1>1. PInv => PTypeOK
  BY DEF PInv
<1>2. QED  BY ProvisioningInvariance, <1>1, PTL

(* Whatever crashes, takeovers and late calls happen, the provider carries *)
(* out each step of an operation at most once, but for a step two of whose *)
(* calls were in its wait at once.                                         *)
THEOREM EffectsHappenOnce == PSpec => []EffectAtMostOnce
<1>1. PInv => EffectAtMostOnce
  BY DEF PInv, CachesFit, CacheFits, EffectAtMostOnce
<1>2. QED  BY ProvisioningInvariance, <1>1, PTL

(* A row at a polling stage has the task of that very step, which the      *)
(* provider accepted, and the resource.                                    *)
THEOREM TasksAreKept == PSpec => []PollingHasItsTask
<1>1. PInv => PollingHasItsTask
  <2>1. SUFFICES ASSUME PInv, NEW o \in Ops, workflow[o].status \in Unfinished,
                        workflow[o].stage \in PollStages
                 PROVE  /\ workflow[o].resource # None
                        /\ \E m \in MutationStages :
                             /\ Submit[m].accepted = workflow[o].stage
                             /\ workflow[o].task = <<o, Submit[m].step>>
                             /\ Carried(workflow[o].task)
    BY DEF PollingHasItsTask, Carried
  <2>2. QED  BY <2>1 DEF PInv, RowsInStep, RowPolls
<1>2. QED  BY ProvisioningInvariance, <1>1, PTL

(* A succeeded operation had all its steps carried out, but for a purge    *)
(* that found its VM gone.                                                 *)
THEOREM SuccessIsReal == PSpec => []SucceededMeansCarriedOut
<1>1. PInv => SucceededMeansCarriedOut
  <2>1. SUFFICES ASSUME PInv, NEW o \in Ops, workflow[o].status = "succeeded"
                 PROVE  \/ \A s \in StepsOf(o) : effects[<<o, s>>] >= 1
                        \/ KindOf[o] = "purge" /\ Gone(workflow[o].resource)
    BY DEF SucceededMeansCarriedOut
  <2>2. QED  BY <2>1 DEF PInv, RowsInStep, RowEnded, Carried
<1>2. QED  BY ProvisioningInvariance, <1>1, PTL

(* A purge reported done left no VM behind, and none comes back but by a   *)
(* call of its create that overlapped another.                             *)
THEOREM PurgeIsReal == PSpec => []PurgedMeansAbsent
<1>1. PInv => PurgedMeansAbsent
  BY DEF PInv, RowsInStep, RowEnded, PurgedMeansAbsent
<1>2. QED  BY ProvisioningInvariance, <1>1, PTL

(* The operations whose requests leave the fencing token out of the        *)
(* comparison: one that ended unknown at the provider, no two of its calls *)
(* overlapping, is never reported failed or succeeded, whoever takes over. *)
PlainUnknownGoesToReview ==
  \A k \in Keys :
    (Plain(k[1]) /\ cache[k].state = "unknown" /\ k \notin overlapped) =>
      workflow[k[1]].status \in Unfinished \cup {"manual_review"}

(* An unknown outcome of a create or a power call goes to review.          *)
THEOREM UnknownIsReviewed == PSpec => []PlainUnknownGoesToReview
<1>1. PInv => PlainUnknownGoesToReview
  BY DEF PInv, UnknownsStay, UnknownStays, RowAtStep, PlainUnknownGoesToReview
<1>2. QED  BY ProvisioningInvariance, <1>1, PTL

(* Where all operations are of these kinds, every unknown outcome does.    *)
THEOREM UnknownOutcomesReviewed ==
  (\A o \in Ops : Plain(o)) => (PSpec => []UnknownOutcomeGoesToReview)
<1> SUFFICES ASSUME \A o \in Ops : Plain(o)  PROVE PSpec => []UnknownOutcomeGoesToReview
  OBVIOUS
<1>1. PInv => UnknownOutcomeGoesToReview
  BY DEF PInv, UnknownsStay, UnknownStays, RowAtStep, UnknownOutcomeGoesToReview, Keys
<1>2. QED  BY ProvisioningInvariance, <1>1, PTL

-----------------------------------------------------------------------------
(* Which VM a workflow acts on.  A replay resets the row of a create,      *)
(* resource and all, so what follows is about instances none of whose      *)
(* workflows was replayed.                                                 *)
Unreplayed(i) == \A o \in Ops : InstanceOf[o] = i => workflow[o].gen = 0
Released(o) == workflow[o].status \in {"succeeded", "failed"}
InTable(o) == \E k \in DOMAIN admitted : admitted[k] = o

(* An absent row is empty, a row is in the table, and an unreplayed one    *)
(* came with the operation's command.                                      *)
RowKept(o) ==
  /\ workflow[o].status = "none" => workflow[o].gen = 0 /\ workflow[o].resource = None
  /\ workflow[o].status # "none" => InTable(o)
  /\ (workflow[o].status # "none" /\ workflow[o].gen = 0) => CommandOf(o) \in published
RowsKept == \A o \in Ops : RowKept(o)

(* Only the Control API's command has the original generation.             *)
CommandsPlain ==
  \A m \in published : (m.kind = "command" /\ m.gen = 0) => m = CommandOf(m.op)

(* Claims and remembered requests are of the row's generation or earlier.  *)
ClaimNotAhead(p) == claim[p].op # None => claim[p].gen <= workflow[claim[p].op].gen
GensBounded ==
  /\ \A p \in Procs : ClaimNotAhead(p)
  /\ \A k \in Keys \ overlapped : cache[k].gen <= workflow[k[1]].gen

(* A VM is there only if the provider remembers a create it did not refuse,*)
(* or two calls of the create overlapped.                                  *)
Unrefused(q) == /\ <<q, "create">> \notin overlapped
                /\ cache[<<q, "create">>].state \in {"accepted", "succeeded", "unknown"}
MadeByCreate ==
  \A q \in CreateOps : vm[q].present => Unrefused(q) \/ <<q, "create">> \in overlapped

(* An instance's commands are accepted one after the other.                *)
OneAfterOther(o, q) ==
  (/\ o # q /\ InstanceOf[o] = InstanceOf[q] /\ Unreplayed(InstanceOf[o])
   /\ CommandOf(o) \in published /\ CommandOf(q) \in published)
  => Released(o) \/ Released(q)
OneAtATime == \A o, q \in Ops : OneAfterOther(o, q)

(* A create the provider did not refuse keeps its row at the submission,   *)
(* or in review, until the row has the resource.                           *)
CreateStays(q) ==
  (/\ Unreplayed(InstanceOf[q]) /\ Unrefused(q) /\ workflow[q].resource = None)
  => \/ workflow[q].status = "manual_review"
     \/ workflow[q].status \in Unfinished /\ workflow[q].stage = "submitting_create"
CreatesStay == \A q \in CreateOps : CreateStays(q)

KnowsVm(o, q) ==
  (/\ InstanceOf[q] = InstanceOf[o] /\ Unreplayed(InstanceOf[o])
   /\ workflow[o].status \in Unfinished /\ workflow[o].resource = None)
  => Gone(q)
VmsKnown == \A o \in Ops \ CreateOps, q \in CreateOps : KnowsVm(o, q)

KInv == /\ RowsKept /\ CommandsPlain /\ GensBounded /\ MadeByCreate
        /\ OneAtATime /\ CreatesStay /\ VmsKnown

(* No operation exists, no request was made.                               *)
LEMMA InitKInv == PInit => KInv
<1> SUFFICES ASSUME PInit  PROVE KInv
  OBVIOUS
<1>1. \A o \in Ops : /\ workflow[o].status = "none" /\ workflow[o].gen = 0
                     /\ workflow[o].resource = None
  BY DEF PInit, Init, NoRow, RowAtStart
<1>2. \A p \in Procs : claim[p].op = None
  BY DEF PInit, Init, Idle
<1>3. \A k \in Keys : cache[k].state = "none" /\ cache[k].gen = 0
  BY DEF PInit
<1>4. \A q \in CreateOps : ~vm[q].present /\ ~Unrefused(q)
  <2>1. \A q \in CreateOps : <<q, "create">> \in Keys
    BY StoreAssumption DEF Keys, StepNames
  <2>2. \A q \in CreateOps : ~vm[q].present
    BY DEF PInit, NewVM
  <2>3. QED  BY <1>3, <2>1, <2>2 DEF Unrefused
<1>5. RowsKept /\ MadeByCreate /\ CreatesStay /\ VmsKnown
  BY <1>1, <1>4
  DEF RowsKept, RowKept, MadeByCreate, CreatesStay, CreateStays, VmsKnown, KnowsVm, Gone
<1>6. GensBounded
  BY <1>1, <1>2, <1>3 DEF GensBounded, ClaimNotAhead, Keys
<1>7. \A m \in published : m.gen = 1
  BY DEF PInit, Init, ForeignRecords
<1>8. CommandsPlain
  BY <1>7 DEF CommandsPlain
<1>9. OneAtATime
  BY <1>7 DEF OneAtATime, OneAfterOther, CommandOf
<1>10. QED  BY <1>5, <1>6, <1>8, <1>9 DEF KInv

(* Generations only grow: an instance not replayed after a step was not    *)
(* replayed before it.                                                     *)
LEMMA UnreplayedBefore ==
  ASSUME TypeOK, NEW i, Unreplayed(i)', \A o \in Ops : workflow'[o].gen >= workflow[o].gen
  PROVE  Unreplayed(i)
<1>1. \A o \in Ops : workflow[o].gen \in Nat
  BY DEF TypeOK, Rows
<1>2. QED  BY <1>1 DEF Unreplayed

(* The typed parts of a row.                                               *)
LEMMA RowParts ==
  ASSUME PInv, NEW o \in Ops
  PROVE  /\ workflow[o] \in Rows /\ workflow[o].gen \in Nat
         /\ workflow[o].status \in Unfinished \cup Terminal \cup {"none"}
         /\ InstanceOf[o] \in Instances
  BY StoreAssumption DEF PInv, PTypeOK, TypeOK, Rows

(* While one workflow of an unreplayed instance is in progress, every      *)
(* other has ended or was not started, and none is in review.              *)
LEMMA AloneInProgress ==
  ASSUME PInv, KInv, NEW o \in Ops, NEW q \in Ops, o # q, InstanceOf[o] = InstanceOf[q],
         Unreplayed(InstanceOf[o]),
         workflow[o].status \in Unfinished,
         workflow[q].status \in Unfinished \cup {"manual_review"}
  PROVE  FALSE
<1>1. RowKept(o) /\ RowKept(q) /\ OneAfterOther(o, q)
  BY DEF KInv, RowsKept, OneAtATime
<1>2. workflow[o].gen = 0 /\ workflow[q].gen = 0
  BY DEF Unreplayed
<1>3. CommandOf(o) \in published /\ CommandOf(q) \in published
  BY <1>1, <1>2 DEF RowKept, Unfinished
<1>4. QED  BY <1>1, <1>3 DEF OneAfterOther, Released, Unfinished

(* A provider's step: a VM appears, and a create is remembered, only while *)
(* the create's row waits for it or is in review, or where calls overlap.  *)
LEMMA ProviderKnows ==
  ASSUME PInv, KInv, UNCHANGED vars, overlapped \subseteq overlapped',
         \A k \in Keys \ overlapped' : cache'[k].gen <= workflow[k[1]].gen,
         \A q \in CreateOps :
           vm'[q].present => Unrefused(q)' \/ <<q, "create">> \in overlapped',
         \A q \in CreateOps :
           (Unrefused(q)' /\ ~Unrefused(q)) =>
             \/ workflow[q].status = "manual_review"
             \/ workflow[q].status \in Unfinished /\ workflow[q].stage = "submitting_create",
         \A q \in CreateOps :
           (vm'[q].present /\ ~vm[q].present) =>
             \/ workflow[q].status \in Unfinished \cup {"manual_review"}
             \/ <<q, "create">> \in overlapped'
  PROVE  KInv'
<1>1. UNCHANGED <<workflow, claim, published, admitted>>
  BY DEF vars
<1>2. \A i : Unreplayed(i)' <=> Unreplayed(i)
  BY <1>1 DEF Unreplayed
<1>3. RowsKept' /\ CommandsPlain'
  BY <1>1 DEF KInv, RowsKept, RowKept, InTable, CommandsPlain, CommandOf
<1>4. GensBounded' /\ MadeByCreate'
  BY <1>1 DEF KInv, GensBounded, ClaimNotAhead, MadeByCreate
<1>5. OneAtATime'
  BY <1>1, <1>2 DEF KInv, OneAtATime, OneAfterOther, CommandOf, Released
<1>6. CreatesStay'
  BY <1>1, <1>2 DEF KInv, CreatesStay, CreateStays
<1>7. VmsKnown'
  <2>1. SUFFICES ASSUME NEW o \in Ops \ CreateOps, NEW q \in CreateOps,
                        InstanceOf[q] = InstanceOf[o], Unreplayed(InstanceOf[o]),
                        workflow[o].status \in Unfinished, workflow[o].resource = None,
                        vm'[q].present, <<q, "create">> \notin overlapped'
                 PROVE  FALSE
    BY <1>1, <1>2 DEF VmsKnown, KnowsVm, Gone
  <2>2. ~vm[q].present
    BY <2>1 DEF KInv, VmsKnown, KnowsVm, Gone
  <2>3. QED  BY <2>1, <2>2, AloneInProgress, StoreAssumption
<1>8. QED  BY <1>3, <1>4, <1>5, <1>6, <1>7 DEF KInv

(* A step that writes no row: commands are published only where they are   *)
(* acceptable, claims are at most dropped.                                 *)
LEMMA QuietKnows ==
  ASSUME PInv, KInv, UNCHANGED <<workflow, admitted, vm, cache, overlapped>>,
         published \subseteq published', CommandsPlain',
         \A p \in Procs : claim'[p] = claim[p] \/ claim'[p].op = None,
         \A o \in Ops : CommandOf(o) \in published' \ published =>
           /\ Acceptable(o)
           /\ \A q \in Ops : CommandOf(q) \in published' => q = o \/ CommandOf(q) \in published
  PROVE  KInv'
<1>1. \A i : Unreplayed(i)' <=> Unreplayed(i)
  BY DEF Unreplayed
<1>2. RowsKept'
  BY DEF KInv, RowsKept, RowKept, InTable, CommandOf
<1>3. GensBounded' /\ MadeByCreate'
  BY DEF KInv, GensBounded, ClaimNotAhead, MadeByCreate, Unrefused
<1>4. CreatesStay' /\ VmsKnown'
  BY <1>1 DEF KInv, CreatesStay, CreateStays, VmsKnown, KnowsVm, Unrefused, Gone
<1>5. OneAtATime'
  <2>1. SUFFICES ASSUME NEW o \in Ops, NEW q \in Ops, o # q, InstanceOf[o] = InstanceOf[q],
                        Unreplayed(InstanceOf[o]),
                        CommandOf(o) \in published', CommandOf(q) \in published'
                 PROVE  Released(o) \/ Released(q)
    BY <1>1 DEF OneAtATime, OneAfterOther, Released, CommandOf
  <2>2. CASE CommandOf(o) \in published /\ CommandOf(q) \in published
    BY <2>1, <2>2 DEF KInv, OneAtATime, OneAfterOther
  <2>3. CASE CommandOf(o) \notin published
    BY <2>1, <2>3 DEF Acceptable, Released
  <2>4. CASE CommandOf(q) \notin published
    BY <2>1, <2>4 DEF Acceptable, Released
  <2>5. QED  BY <2>2, <2>3, <2>4
<1>6. QED  BY <1>2, <1>3, <1>4, <1>5 DEF KInv

(* Appending an operation keeps the rows in the table.                     *)
LEMMA TableGrows ==
  ASSUME TypeOK, NEW o \in Ops, admitted' = Append(admitted, o)
  PROVE  InTable(o)' /\ \A q \in Ops : InTable(q) => InTable(q)'
<1>1. admitted \in Seq(Ops)
  BY DEF TypeOK
<1>2. /\ DOMAIN Append(admitted, o) = 1..Len(admitted) + 1
      /\ Append(admitted, o)[Len(admitted) + 1] = o
      /\ \A k \in 1..Len(admitted) : Append(admitted, o)[k] = admitted[k]
      /\ DOMAIN admitted = 1..Len(admitted) /\ Len(admitted) \in Nat
  BY <1>1
<1>3. QED  BY <1>2 DEF InTable

(* The first delivery of a command starts its row.  If the new row has no  *)
(* resource, no row of the instance has one; a VM left by the create would *)
(* mean a create still in progress or in review, and the Control API       *)
(* accepts no command then.                                                *)
LEMMA AdmitKnows ==
  ASSUME PInv, KInv, UNCHANGED <<published, claim, vm, cache, overlapped>>,
         NEW o \in Ops, CommandOf(o) \in published, workflow[o].status = "none",
         NEW r, Inherits(o, r), admitted' = Append(admitted, o),
         workflow' = [workflow EXCEPT ![o] = RowAtStart("running", 0, 0, r)]
  PROVE  KInv'
<1>1. /\ workflow'[o].status = "running" /\ workflow'[o].gen = 0
      /\ workflow'[o].resource = r /\ workflow'[o].stage = "accepted"
      /\ \A q \in Ops : q # o => workflow'[q] = workflow[q]
  BY DEF PInv, PTypeOK, TypeOK, RowAtStart
<1>2. TypeOK /\ workflow[o].gen = 0 /\ workflow[o].resource = None
  BY DEF PInv, PTypeOK, KInv, RowsKept, RowKept
<1>3. \A q \in Ops : workflow'[q].gen = workflow[q].gen
  BY <1>1, <1>2
<1>4. \A i : Unreplayed(i)' <=> Unreplayed(i)
  BY <1>3 DEF Unreplayed
<1>5. RowsKept'
  <2>1. InTable(o)' /\ \A q \in Ops : InTable(q) => InTable(q)'
    BY <1>2, TableGrows
  <2>2. \A q \in Ops : RowKept(q)
    BY DEF KInv, RowsKept
  <2>3. CommandOf(o) \in published'
    OBVIOUS
  <2>4. RowKept(o)'
    BY <1>1, <2>1, <2>3 DEF RowKept, CommandOf
  <2>5. ASSUME NEW q \in Ops, q # o  PROVE RowKept(q)'
    BY <1>1, <2>1, <2>2, <2>5 DEF RowKept, CommandOf
  <2>6. QED  BY <2>4, <2>5 DEF RowsKept
<1>6. CommandsPlain' /\ MadeByCreate'
  BY DEF KInv, CommandsPlain, MadeByCreate, Unrefused, CommandOf
<1>7. GensBounded'
  <2>1. \A p \in Procs : claim[p].op # None => claim[p].op \in Ops
    BY <1>2, ClaimedOp DEF Holds
  <2>2. QED  BY <1>3, <2>1 DEF KInv, GensBounded, ClaimNotAhead, Keys
<1>8. OneAtATime'
  <2>1. \A q \in Ops : Released(q) => Released(q)'
    BY <1>1 DEF Released
  <2>2. \A q \in Ops : (CommandOf(q) \in published)' <=> CommandOf(q) \in published
    BY DEF CommandOf
  <2>3. QED  BY <1>4, <2>1, <2>2 DEF KInv, OneAtATime, OneAfterOther
<1>9. CreatesStay'
  <2>1. SUFFICES ASSUME NEW q \in CreateOps, Unreplayed(InstanceOf[q]), Unrefused(q),
                        workflow'[q].resource = None
                 PROVE  \/ workflow'[q].status = "manual_review"
                        \/ workflow'[q].status \in Unfinished
                           /\ workflow'[q].stage = "submitting_create"
    BY <1>4 DEF CreatesStay, CreateStays, Unrefused
  <2>2. CreateStays(q) /\ q \in Ops
    BY StoreAssumption DEF KInv, CreatesStay
  <2>3. q # o
    BY <1>2, <2>1, <2>2 DEF CreateStays, Unfinished
  <2>4. QED  BY <1>1, <2>1, <2>2, <2>3 DEF CreateStays
<1>10. VmsKnown'
  <2>1. SUFFICES ASSUME NEW x \in Ops \ CreateOps, NEW q \in CreateOps,
                        InstanceOf[q] = InstanceOf[x], Unreplayed(InstanceOf[x]),
                        workflow'[x].status \in Unfinished, workflow'[x].resource = None,
                        vm[q].present, <<q, "create">> \notin overlapped
                 PROVE  FALSE
    BY <1>4 DEF VmsKnown, KnowsVm, Gone
  <2>2. CASE x # o
    BY <1>1, <2>1, <2>2 DEF KInv, VmsKnown, KnowsVm, Gone
  <2>3. CASE x = o
    <3>1. q \in Ops /\ q # o /\ Unrefused(q) /\ CreateStays(q) /\ RowKept(q)
      BY <2>1, <2>3, StoreAssumption DEF KInv, MadeByCreate, CreatesStay, RowsKept
    <3>2. workflow[q].resource = None
      <4>1. SUFFICES ASSUME workflow[q].resource # None  PROVE FALSE
        OBVIOUS
      <4>2. PICK k \in DOMAIN admitted : admitted[k] = q
        BY <3>1, <4>1 DEF RowKept, InTable
      <4>3. PICK j \in DOMAIN admitted : r = workflow[admitted[j]].resource /\ r # None
        BY <2>1, <2>3, <4>1, <4>2 DEF Inherits
      <4>4. QED  BY <1>1, <2>1, <2>3, <4>3
    <3>3. workflow[q].status \in Unfinished \cup {"manual_review"}
      BY <2>1, <3>1, <3>2 DEF CreateStays
    <3>4. workflow[q].gen = 0
      BY <2>1, <3>1 DEF Unreplayed
    <3>5. CommandOf(q) \in published
      BY <3>1, <3>3, <3>4 DEF RowKept, Unfinished
    <3>6. OneAfterOther(o, q)
      BY <3>1 DEF KInv, OneAtATime
    <3>7. Released(o) \/ Released(q)
      BY <2>1, <2>3, <3>1, <3>5, <3>6 DEF OneAfterOther
    <3>8. QED  BY <3>3, <3>7 DEF Released, Unfinished
  <2>4. QED  BY <2>2, <2>3
<1>11. QED  BY <1>5, <1>6, <1>7, <1>8, <1>9, <1>10 DEF KInv

(* A replay is the end of what is said about its instance.                 *)
LEMMA ReplayKnows ==
  ASSUME PInv, KInv, UNCHANGED <<published, claim, vm, cache, overlapped>>,
         NEW o \in Ops, workflow[o].status \in {"none", "failed"},
         workflow[o].status = "none" => admitted' = Append(admitted, o),
         workflow[o].status # "none" => admitted' = admitted,
         workflow'[o].gen \in Nat, workflow'[o].gen > workflow[o].gen,
         workflow'[o].status = "running",
         \A q \in Ops : q # o => workflow'[q] = workflow[q]
  PROVE  KInv'
<1>1. TypeOK /\ \A q \in Ops : workflow[q].gen \in Nat
  BY RowParts DEF PInv, PTypeOK
<1>2. \A q \in Ops : workflow'[q].gen >= workflow[q].gen
  BY <1>1
<1>3. workflow'[o].gen # 0
  BY <1>1
<1>4. \A i : Unreplayed(i)' => Unreplayed(i)
  BY <1>1, <1>2, UnreplayedBefore
<1>5. \A x \in Ops : Unreplayed(InstanceOf[x])' => x # o
  BY <1>3 DEF Unreplayed
<1>6. RowsKept'
  <2>1. InTable(o)' /\ \A q \in Ops : InTable(q) => InTable(q)'
    <3>1. CASE workflow[o].status = "none"
      BY <1>1, <3>1, TableGrows
    <3>2. CASE workflow[o].status # "none"
      BY <3>2 DEF KInv, RowsKept, RowKept, InTable
    <3>3. QED  BY <3>1, <3>2
  <2>2. \A q \in Ops : RowKept(q)
    BY DEF KInv, RowsKept
  <2>3. RowKept(o)'
    BY <1>3, <2>1 DEF RowKept
  <2>4. ASSUME NEW q \in Ops, q # o  PROVE RowKept(q)'
    BY <2>1, <2>2, <2>4 DEF RowKept, CommandOf
  <2>5. QED  BY <2>3, <2>4 DEF RowsKept
<1>7. CommandsPlain' /\ MadeByCreate'
  BY DEF KInv, CommandsPlain, MadeByCreate, Unrefused, CommandOf
<1>8. GensBounded'
  <2>1. \A p \in Procs : claim[p].op # None => claim[p].op \in Ops /\ claim[p].gen \in Nat
    BY <1>1, ClaimedOp DEF Holds
  <2>2. \A k \in Keys : k[1] \in Ops /\ cache[k].gen \in Nat
    BY DEF PInv, PTypeOK, Keys, CacheEntries
  <2>3. ASSUME NEW p \in Procs  PROVE ClaimNotAhead(p)'
    <3>1. ClaimNotAhead(p)
      BY DEF KInv, GensBounded
    <3>2. QED  BY <1>1, <1>2, <2>1, <3>1 DEF ClaimNotAhead
  <2>4. ASSUME NEW k \in Keys \ overlapped  PROVE cache'[k].gen <= workflow'[k[1]].gen
    <3>1. cache[k].gen <= workflow[k[1]].gen
      BY DEF KInv, GensBounded
    <3>2. CASE k[1] = o
      BY <1>1, <2>2, <3>1, <3>2
    <3>3. CASE k[1] # o
      BY <2>2, <3>1, <3>3
    <3>4. QED  BY <3>2, <3>3
  <2>5. QED  BY <2>3, <2>4 DEF GensBounded
<1>9. OneAtATime'
  <2>1. SUFFICES ASSUME NEW x \in Ops, NEW y \in Ops, x # y, InstanceOf[x] = InstanceOf[y],
                        Unreplayed(InstanceOf[x])', CommandOf(x) \in published,
                        CommandOf(y) \in published
                 PROVE  Released(x)' \/ Released(y)'
    BY DEF OneAtATime, OneAfterOther, CommandOf
  <2>2. x # o /\ y # o /\ Unreplayed(InstanceOf[x])
    BY <1>4, <1>5, <2>1
  <2>3. OneAfterOther(x, y)
    BY DEF KInv, OneAtATime
  <2>4. Released(x) \/ Released(y)
    BY <2>1, <2>2, <2>3 DEF OneAfterOther
  <2>5. QED  BY <2>2, <2>4 DEF Released
<1>10. CreatesStay'
  <2>1. SUFFICES ASSUME NEW q \in CreateOps, Unreplayed(InstanceOf[q])'
                 PROVE  CreateStays(q)'
    BY DEF CreatesStay, CreateStays
  <2>2. q \in Ops /\ q # o /\ Unreplayed(InstanceOf[q]) /\ CreateStays(q)
    BY <1>4, <1>5, <2>1, StoreAssumption DEF KInv, CreatesStay
  <2>3. workflow'[q] = workflow[q]
    BY <2>2
  <2>4. QED  BY <2>2, <2>3 DEF CreateStays, Unrefused
<1>11. VmsKnown'
  <2>1. SUFFICES ASSUME NEW x \in Ops \ CreateOps, NEW q \in CreateOps,
                        Unreplayed(InstanceOf[x])'
                 PROVE  KnowsVm(x, q)'
    BY DEF VmsKnown, KnowsVm
  <2>2. x # o /\ Unreplayed(InstanceOf[x]) /\ KnowsVm(x, q)
    BY <1>4, <1>5, <2>1 DEF KInv, VmsKnown
  <2>3. workflow'[x] = workflow[x]
    BY <2>2
  <2>4. QED  BY <2>2, <2>3 DEF KnowsVm, Gone
<1>12. QED  BY <1>6, <1>7, <1>8, <1>9, <1>10, <1>11 DEF KInv

(* A claim copies a row's generation and leaves its stage and resource.    *)
LEMMA ClaimKnows ==
  ASSUME PInv, KInv, NEW p \in Procs, NEW o \in Ops, ClaimNext(p, o), UNCHANGED <<vm, cache, overlapped>>
  PROVE  KInv'
<1>1. /\ TypeOK /\ workflow[o].status \in Unfinished
      /\ UNCHANGED <<published, admitted>>
      /\ \A q \in Ops : /\ workflow'[q].gen = workflow[q].gen
                        /\ workflow'[q].resource = workflow[q].resource
                        /\ workflow'[q].stage = workflow[q].stage
                        /\ \/ workflow'[q].status = workflow[q].status
                           \/ /\ workflow[q].status \in Unfinished
                              /\ workflow'[q].status \in Unfinished
  BY DEF ClaimNext, PInv, PTypeOK, TypeOK, Unfinished
<1>2. \A i : Unreplayed(i)' <=> Unreplayed(i)
  BY <1>1 DEF Unreplayed
<1>3. RowsKept' /\ CommandsPlain' /\ MadeByCreate'
  <2>1. RowsKept'
    BY <1>1 DEF KInv, RowsKept, RowKept, InTable, CommandOf, Unfinished
  <2>2. CommandsPlain' /\ MadeByCreate'
    BY <1>1 DEF KInv, CommandsPlain, CommandOf, MadeByCreate, Unrefused
  <2>3. QED  BY <2>1, <2>2
<1>4. GensBounded'
  <2>1. ASSUME NEW q \in Procs  PROVE ClaimNotAhead(q)'
    <3>1. CASE q = p
      <4>1. claim'[p].op = o /\ claim'[p].gen = workflow[o].gen /\ workflow[o].gen \in Nat
        BY RowParts DEF ClaimNext, PInv, PTypeOK, TypeOK
      <4>2. QED  BY <1>1, <3>1, <4>1 DEF ClaimNotAhead
    <3>2. CASE q # p
      <4>1. claim'[q] = claim[q] /\ ClaimNotAhead(q)
        BY <3>2 DEF ClaimNext, PInv, PTypeOK, TypeOK, KInv, GensBounded
      <4>2. claim[q].op # None => claim[q].op \in Ops
        BY <1>1, ClaimedOp DEF Holds
      <4>3. QED  BY <1>1, <4>1, <4>2 DEF ClaimNotAhead
    <3>3. QED  BY <3>1, <3>2
  <2>2. QED  BY <1>1, <2>1 DEF KInv, GensBounded, Keys
<1>5. OneAtATime'
  <2>1. \A q \in Ops : Released(q) => Released(q)'
    BY <1>1 DEF Released, Unfinished
  <2>2. \A q \in Ops : (CommandOf(q) \in published)' <=> CommandOf(q) \in published
    BY <1>1 DEF CommandOf
  <2>3. QED  BY <1>2, <2>1, <2>2 DEF KInv, OneAtATime, OneAfterOther
<1>6. CreatesStay'
  <2>1. SUFFICES ASSUME NEW q \in CreateOps  PROVE CreateStays(q)'
    BY DEF CreatesStay
  <2>2. CreateStays(q) /\ q \in Ops
    BY StoreAssumption DEF KInv, CreatesStay
  <2>3. QED  BY <1>1, <1>2, <2>2 DEF CreateStays, Unrefused, Unfinished
<1>7. VmsKnown'
  <2>1. SUFFICES ASSUME NEW x \in Ops \ CreateOps, NEW q \in CreateOps  PROVE KnowsVm(x, q)'
    BY DEF VmsKnown
  <2>2. KnowsVm(x, q)
    BY DEF KInv, VmsKnown
  <2>3. QED  BY <1>1, <1>2, <2>2 DEF KnowsVm, Unfinished, Gone
<1>8. QED  BY <1>3, <1>4, <1>5, <1>6, <1>7 DEF KInv

(* A worker's write: no other row, no generation and no VM changes, and    *)
(* the row loses no resource.                                              *)
RowWrite(p) ==
  /\ AssertLease(p) /\ UNCHANGED <<published, admitted, vm, cache, overlapped>>
  /\ claim'[p].op = None /\ \A q \in Procs : q # p => claim'[q] = claim[q]
  /\ \A o \in Ops : o # claim[p].op => workflow'[o] = workflow[o]
  /\ workflow'[claim[p].op].gen = workflow[claim[p].op].gen
  /\ workflow'[claim[p].op].status # "none"
  /\ workflow'[claim[p].op].resource = None => workflow[claim[p].op].resource = None

(* It keeps a create that was not refused at its submission or sends it to *)
(* review, unless it records the resource.                                 *)
LEMMA WriteKnows ==
  ASSUME PInv, KInv, NEW p \in Procs, RowWrite(p), NEW o, o = claim[p].op,
         (/\ o \in CreateOps /\ Unreplayed(InstanceOf[o]) /\ Unrefused(o)
          /\ claim[p].stage = "submitting_create" /\ workflow'[o].resource = None)
         => workflow'[o].status = "manual_review"
  PROVE  KInv'
<1>1. /\ TypeOK /\ o \in Ops /\ workflow[o].status = "running"
      /\ workflow[o].stage = claim[p].stage
  BY FreshWriter DEF RowWrite, PInv, PTypeOK
<1>2. /\ UNCHANGED <<published, admitted, vm, cache, overlapped>>
      /\ \A q \in Ops : workflow'[q].gen = workflow[q].gen
      /\ \A q \in Ops : q # o => workflow'[q] = workflow[q]
      /\ workflow'[o].status # "none"
      /\ workflow'[o].resource = None => workflow[o].resource = None
  BY DEF RowWrite
<1>3. \A i : Unreplayed(i)' <=> Unreplayed(i)
  BY <1>2 DEF Unreplayed
<1>4. RowsKept' /\ CommandsPlain' /\ MadeByCreate'
  <2>1. RowsKept'
    <3>1. SUFFICES ASSUME NEW q \in Ops  PROVE RowKept(q)'
      BY DEF RowsKept
    <3>2. RowKept(q)
      BY DEF KInv, RowsKept
    <3>3. CASE q = o
      BY <1>1, <1>2, <3>2, <3>3 DEF RowKept, InTable, CommandOf
    <3>4. CASE q # o
      BY <1>2, <3>2, <3>4 DEF RowKept, InTable, CommandOf
    <3>5. QED  BY <3>3, <3>4
  <2>2. CommandsPlain' /\ MadeByCreate'
    BY <1>2 DEF KInv, CommandsPlain, CommandOf, MadeByCreate, Unrefused
  <2>3. QED  BY <2>1, <2>2
<1>5. GensBounded'
  <2>1. ASSUME NEW q \in Procs  PROVE ClaimNotAhead(q)'
    <3>1. claim'[q].op = None \/ claim'[q] = claim[q]
      BY DEF RowWrite
    <3>2. ClaimNotAhead(q) /\ (claim[q].op # None => claim[q].op \in Ops)
      BY <1>1, ClaimedOp DEF Holds, KInv, GensBounded
    <3>3. QED  BY <1>2, <3>1, <3>2 DEF ClaimNotAhead
  <2>2. QED  BY <1>2, <2>1 DEF KInv, GensBounded, Keys
<1>6. OneAtATime'
  <2>1. \A q \in Ops : Released(q) => Released(q)'
    BY <1>1, <1>2 DEF Released
  <2>2. \A q \in Ops : (CommandOf(q) \in published)' <=> CommandOf(q) \in published
    BY <1>2 DEF CommandOf
  <2>3. QED  BY <1>3, <2>1, <2>2 DEF KInv, OneAtATime, OneAfterOther
<1>7. CreatesStay'
  <2>1. SUFFICES ASSUME NEW q \in CreateOps, Unreplayed(InstanceOf[q]), Unrefused(q),
                        workflow'[q].resource = None
                 PROVE  \/ workflow'[q].status = "manual_review"
                        \/ workflow'[q].status \in Unfinished
                           /\ workflow'[q].stage = "submitting_create"
    BY <1>2, <1>3 DEF CreatesStay, CreateStays, Unrefused
  <2>2. CreateStays(q) /\ q \in Ops
    BY StoreAssumption DEF KInv, CreatesStay
  <2>3. CASE q # o
    BY <1>2, <2>1, <2>2, <2>3 DEF CreateStays
  <2>4. CASE q = o
    <3>1. workflow[o].resource = None
      BY <1>2, <2>1, <2>4
    <3>2. claim[p].stage = "submitting_create"
      BY <1>1, <2>1, <2>2, <2>4, <3>1 DEF CreateStays
    <3>3. QED  BY <2>1, <2>4, <3>2
  <2>5. QED  BY <2>3, <2>4
<1>8. VmsKnown'
  <2>1. SUFFICES ASSUME NEW x \in Ops \ CreateOps, NEW q \in CreateOps  PROVE KnowsVm(x, q)'
    BY DEF VmsKnown
  <2>2. KnowsVm(x, q)
    BY DEF KInv, VmsKnown
  <2>3. CASE x = o
    BY <1>1, <1>2, <1>3, <2>2, <2>3 DEF KnowsVm, Unfinished, Gone
  <2>4. CASE x # o
    BY <1>2, <1>3, <2>2, <2>4 DEF KnowsVm, Gone
  <2>5. QED  BY <2>3, <2>4
<1>9. QED  BY <1>4, <1>5, <1>6, <1>7, <1>8 DEF KInv

(* A checkpoint is such a write.                                           *)
LEMMA ProgressRow ==
  ASSUME PInv, NEW p \in Procs, NEW stage, NEW wait, NEW attempt, NEW res, NEW task,
         Progress(p, stage, wait, attempt, res, task)
  PROVE  /\ RowWrite(p)
         /\ res # None => workflow'[claim[p].op].resource # None
<1>1. PICK o, r : /\ o = claim[p].op /\ r = IF res # None THEN res ELSE claim[p].resource
                  /\ Checkpoint(p, stage, wait, attempt, r, task) /\ Handled(p)
  BY DEF Progress
<1>2. AssertLease(p) /\ TypeOK
  BY <1>1 DEF Checkpoint, PInv, PTypeOK
<1>3. o \in Ops
  BY <1>1, <1>2, FreshWriter
<1>4. /\ \A q \in Ops : q # o => workflow'[q] = workflow[q]
      /\ workflow'[o].gen = workflow[o].gen /\ workflow'[o].status # "none"
      /\ workflow'[o].resource = IF r = None THEN workflow[o].resource ELSE r
  BY <1>1, <1>2, <1>3 DEF Checkpoint, TypeOK
<1>5. /\ claim'[p].op = None /\ \A q \in Procs : q # p => claim'[q] = claim[q]
      /\ UNCHANGED <<published, admitted, vm, cache, overlapped>>
  BY <1>1, <1>2 DEF Checkpoint, TypeOK, Idle, Handled, providerVars
<1>6. QED  BY <1>1, <1>2, <1>4, <1>5 DEF RowWrite

(* So are the writes that end a row.                                       *)
LEMMA EndedRowWrite ==
  ASSUME PInv, NEW p \in Procs, NEW status \in Terminal, Handled(p),
         \/ Complete(p, status)
         \/ status = "failed" /\ \E attempts \in Nat : DeadLetterWorkflow(p, attempts)
  PROVE  RowWrite(p) /\ workflow'[claim[p].op].status = status
<1>1. PICK o : o = claim[p].op
  OBVIOUS
<1>2. AssertLease(p) /\ TypeOK
  BY DEF Complete, DeadLetterWorkflow, PInv, PTypeOK
<1>3. o \in Ops
  BY <1>1, <1>2, FreshWriter
<1>4. /\ \A q \in Ops : q # o => workflow'[q] = workflow[q]
      /\ workflow'[o].gen = workflow[o].gen /\ workflow'[o].status = status
      /\ workflow'[o].resource = workflow[o].resource
  <2>1. PICK stage, n : workflow' = [workflow EXCEPT ![o] = EndedRow(o, status, stage, n)]
    BY <1>1 DEF Complete, DeadLetterWorkflow
  <2>2. QED  BY <1>2, <1>3, <2>1 DEF EndedRow, TypeOK
<1>5. /\ claim'[p].op = None /\ \A q \in Procs : q # p => claim'[q] = claim[q]
      /\ UNCHANGED <<published, admitted, vm, cache, overlapped>>
  BY <1>1, <1>2 DEF Complete, DeadLetterWorkflow, TypeOK, Idle, Handled, providerVars
<1>6. QED  BY <1>1, <1>2, <1>4, <1>5 DEF RowWrite, Terminal

(* Every write of an executor keeps what is known.  The one that could     *)
(* lose a VM is a failure at the submission of the create: it comes from a *)
(* refusal, or from a request that differs from the one remembered, which  *)
(* a create's request does only after a replay.                            *)
LEMMA ExecutorKnows ==
  ASSUME PInv, KInv, NEW p \in Procs,
         \/ Advance(p) \/ HandleAccepted(p) \/ HandleSucceeded(p) \/ HandleTaskRunning(p)
         \/ HandleTaskDone(p) \/ HandleVerified(p) \/ RetryOrDeadLetter(p)
         \/ ManualReview(p) \/ Fail(p) \/ Succeed(p)
  PROVE  KInv'
<1>1. PICK o, s : o = claim[p].op /\ s = claim[p].stage
  OBVIOUS
<1>2. ResponseFits(p, response[p])
  BY DEF PInv, ResponsesFit
<1>3. /\ "submitting_create" \in MutationStages /\ "submitting_create" \notin PollStages
      /\ "submitting_create" \notin ObserveStages
      /\ Submit["submitting_create"].step = "create"
  BY StageTables, SubmitRows DEF ObserveStages
<1>4. CASE Advance(p)
  <2>1. s # "submitting_create"
    BY <1>1, <1>4 DEF Advance
  <2>2. RowWrite(p)
    BY <1>4, ProgressRow DEF Advance
  <2>3. QED  BY <1>1, <2>1, <2>2, WriteKnows
<1>5. CASE HandleAccepted(p) \/ HandleSucceeded(p)
  <2>1. Target(p) # None
    BY <1>2, <1>5 DEF HandleAccepted, HandleSucceeded, ResponseFits, Submitted
  <2>2. RowWrite(p) /\ workflow'[o].resource # None
    BY <1>1, <1>5, <2>1, ProgressRow DEF HandleAccepted, HandleSucceeded
  <2>3. QED  BY <1>1, <2>2, WriteKnows
<1>6. CASE HandleTaskRunning(p) \/ HandleTaskDone(p) \/ HandleVerified(p)
  <2>1. s # "submitting_create"
    BY <1>1, <1>2, <1>3, <1>6
    DEF HandleTaskRunning, HandleTaskDone, HandleVerified, ResponseFits, Polled
  <2>2. RowWrite(p)
    BY <1>6, ProgressRow DEF HandleTaskRunning, HandleTaskDone, HandleVerified
  <2>3. QED  BY <1>1, <2>1, <2>2, WriteKnows
<1>7. CASE RetryOrDeadLetter(p)
  <2>1. s # "submitting_create"
    BY <1>1, <1>3, <1>7 DEF RetryOrDeadLetter
  <2>2. RowWrite(p)
    <3>1. CASE Progress(p, claim[p].stage, TRUE, NextAttempt(p), None, claim[p].task)
      BY <3>1, ProgressRow
    <3>2. CASE DeadLetterWorkflow(p, NextAttempt(p)) /\ Handled(p)
      <4>1. AssertLease(p)
        BY <3>2 DEF DeadLetterWorkflow
      <4>2. NextAttempt(p) \in Nat
        BY <4>1, FreshWriter, ClaimParts DEF NextAttempt
      <4>3. "failed" \in Terminal
        BY DEF Terminal
      <4>4. QED  BY <3>2, <4>2, <4>3, EndedRowWrite
    <3>3. QED  BY <1>7, <3>1, <3>2 DEF RetryOrDeadLetter
  <2>3. QED  BY <1>1, <2>1, <2>2, WriteKnows
<1>8. CASE ManualReview(p)
  <2>1. RowWrite(p) /\ workflow'[o].status = "manual_review"
    BY <1>1, <1>8, EndedRowWrite DEF ManualReview, Terminal
  <2>2. QED  BY <1>1, <2>1, WriteKnows
<1>9. CASE Succeed(p)
  <2>1. s # "submitting_create"
    BY <1>1, <1>2, <1>3, <1>9 DEF Succeed, ResponseFits, Observed
  <2>2. RowWrite(p)
    BY <1>9, EndedRowWrite DEF Succeed, Terminal
  <2>3. QED  BY <1>1, <2>1, <2>2, WriteKnows
<1>10. CASE Fail(p)
  <2>1. RowWrite(p) /\ AssertLease(p)
    BY <1>10, EndedRowWrite DEF Fail, Terminal, Complete
  <2>2. ASSUME o \in CreateOps, Unreplayed(InstanceOf[o]), Unrefused(o),
               s = "submitting_create"
        PROVE  FALSE
    <3>1. o \in Ops /\ o # None /\ workflow[o].gen = claim[p].gen
      BY <1>1, <2>1, FreshWriter
    <3>2. KeyOf(p) = <<o, "create">> /\ Target(p) = o
      BY <1>1, <1>3, <2>2 DEF KeyOf, Target
    <3>3. <<o, "create">> \in Keys
      BY <3>1 DEF Keys, StepNames
    <3>4. ~Unaddressable(p)
      BY <1>1, <1>3, <2>2, <3>1, <3>2 DEF Unaddressable
    <3>5. response[p] \in {"rejected", "reused"}
      BY <1>1, <1>2, <1>3, <1>10, <2>2, <3>4 DEF Fail, ResponseFits, Polled, Observed
    <3>6. response[p] # "rejected"
      BY <1>2, <2>2, <3>2 DEF ResponseFits, Submitted, Unrefused
    <3>7. cache[<<o, "create">>].gen = 0 /\ claim[p].gen = 0
      <4>1. claim[p].gen = 0
        BY <2>2, <3>1 DEF Unreplayed
      <4>2. cache[<<o, "create">>].gen \in Nat
        BY <3>3 DEF PInv, PTypeOK, CacheEntries
      <4>3. cache[<<o, "create">>].gen <= workflow[o].gen
        BY <2>2, <3>3 DEF KInv, GensBounded, Unrefused
      <4>4. QED  BY <3>1, <4>1, <4>2, <4>3
    <3>8. Plain(o) /\ cache[<<o, "create">>].token = 0
      <4>1. Plain(o)
        BY <2>2, <3>1, ProvisioningAssumption DEF Plain
      <4>2. CacheFits(<<o, "create">>)
        BY <3>3 DEF PInv, CachesFit
      <4>3. QED  BY <4>1, <4>2 DEF CacheFits
    <3>9. CanonicalRequest(CallOf(p)) = [gen |-> 0, token |-> 0]
      BY <1>1, <3>7, <3>8 DEF CanonicalRequest, CallOf, KeyOf, Plain
    <3>10. QED
      BY <1>2, <2>2, <3>2, <3>5, <3>6, <3>7, <3>8, <3>9 DEF ResponseFits, Unrefused
  <2>3. QED  BY <1>1, <2>1, <2>2, WriteKnows
<1>11. QED  BY <1>4, <1>5, <1>6, <1>7, <1>8, <1>9, <1>10

(* A call carried out: only a create brings a VM, and then it is           *)
(* remembered and not as refused, by a call alone while its row waits.     *)
LEMMA CarryOutKnows ==
  ASSUME PInv, KInv, NEW c \in Calls, NEW mode \in Modes, CarryOut(c, mode), UNCHANGED vars,
         c.key[2] \in StepsOf(c.key[1]), c.key[2] = "create" => c.target = c.key[1],
         CallAhead(c), c.key \notin overlapped' => cache[c.key].state = "none",
         overlapped \subseteq overlapped'
  PROVE  KInv'
<1>1. PICK k \in Keys, r \in CreateOps : k = c.key /\ r = c.target
  BY DEF Calls
<1>2. /\ k[1] \in Ops /\ k[2] \in StepsOf(k[1]) /\ k = <<k[1], k[2]>>
      /\ k[2] = "create" => k = <<r, "create">>
  BY <1>1 DEF Keys
<1>4. PTypeOK
  BY DEF PInv
<1>4a. polls \in [Keys -> 0..MaxPolls]
  BY <1>4 DEF PTypeOK
<1>3a. PICK applied \in BOOLEAN, state \in Submitted : CarriedOut(c, mode, applied, state)
  BY <1>4a, CarryOutResult
<1>3. /\ vm' = IF applied THEN [vm EXCEPT ![c.target] = Execute(c.key, c.target).vm] ELSE vm
      /\ cache' = IF mode = "timeout" THEN cache
                  ELSE [cache EXCEPT ![c.key] =
                         [state |-> state, gen |-> CanonicalRequest(c).gen,
                          token |-> CanonicalRequest(c).token]]
      /\ applied => mode # "timeout" /\ state # "rejected"
  BY <1>3a DEF CarriedOut
<1>5. /\ \A j \in Keys : j # k => cache'[j] = cache[j]
      /\ cache'[k] = cache[k] \/ cache'[k].gen = c.gen
      /\ mode # "timeout" => cache'[k].state = state
  <2>1. DOMAIN cache = Keys
    BY <1>4 DEF PTypeOK
  <2>2. CASE mode = "timeout"
    BY <1>3, <2>2
  <2>3. CASE mode # "timeout"
    <3>1. cache' = [cache EXCEPT ![k] = [state |-> state, gen |-> CanonicalRequest(c).gen,
                                         token |-> CanonicalRequest(c).token]]
      BY <1>1, <1>3, <2>3
    <3>2. CanonicalRequest(c).gen = c.gen
      BY DEF CanonicalRequest
    <3>3. QED  BY <2>1, <3>1, <3>2
  <2>4. QED  BY <2>2, <2>3
<1>6. /\ \A q \in CreateOps : q # r => vm'[q] = vm[q]
      /\ vm'[r] = vm[r] \/ (applied /\ vm'[r] = Execute(k, r).vm)
  <2>1. DOMAIN vm = CreateOps
    BY <1>4 DEF PTypeOK
  <2>2. CASE ~applied
    BY <1>3, <2>2
  <2>3. CASE applied
    <3>1. vm' = [vm EXCEPT ![r] = Execute(k, r).vm]
      BY <1>1, <1>3, <2>3
    <3>2. QED  BY <2>1, <2>3, <3>1
  <2>4. QED  BY <2>2, <2>3
<1>7. Execute(k, r).vm.present => vm[r].present \/ k[2] = "create"
  BY <1>2, <1>4, ExecuteResult
<1>8. k \notin overlapped' => cache[k].state = "none" /\ RowAtStep(k, c.gen)
  BY <1>1 DEF CallAhead
<1>9. (k \notin overlapped' /\ k[2] = "create") =>
        \/ workflow[k[1]].status = "manual_review"
        \/ workflow[k[1]].status \in Unfinished /\ workflow[k[1]].stage = "submitting_create"
  <2>1. \A m \in MutationStages : Submit[m].step = "create" => m = "submitting_create"
    BY StageTables, SubmitRows
  <2>2. QED  BY <1>8, <2>1 DEF RowAtStep
<1>10. \A q \in CreateOps : <<q, "create">> \in Keys
  BY StoreAssumption DEF Keys, StepNames
<1>11. \A j \in Keys \ overlapped' : cache'[j].gen <= workflow[j[1]].gen
  <2>1. \A j \in Keys \ overlapped' : cache[j].gen <= workflow[j[1]].gen
    BY DEF KInv, GensBounded
  <2>2. k \notin overlapped' => workflow[k[1]].gen = c.gen /\ c.gen \in Nat
    BY <1>8 DEF RowAtStep, Calls
  <2>3. k \notin overlapped' => cache'[k].gen <= workflow[k[1]].gen
    BY <1>5, <2>1, <2>2
  <2>4. QED  BY <1>5, <2>1, <2>3
<1>12. ASSUME NEW q \in CreateOps, Unrefused(q)', ~Unrefused(q)
       PROVE  \/ workflow[q].status = "manual_review"
              \/ workflow[q].status \in Unfinished /\ workflow[q].stage = "submitting_create"
  <2>1. k = <<q, "create">> /\ k \notin overlapped'
    BY <1>5, <1>10, <1>12 DEF Unrefused
  <2>2. QED  BY <1>9, <2>1
<1>13. ASSUME NEW q \in CreateOps, vm'[q].present, <<q, "create">> \notin overlapped'
       PROVE  /\ Unrefused(q)'
              /\ ~vm[q].present => workflow[q].status \in Unfinished \cup {"manual_review"}
  <2>1. CASE vm[q].present
    <3>1. Unrefused(q)
      BY <1>13, <2>1 DEF KInv, MadeByCreate
    <3>2. k # <<q, "create">>
      BY <1>8, <1>13, <3>1 DEF Unrefused
    <3>3. QED  BY <1>5, <1>10, <1>13, <2>1, <3>1, <3>2 DEF Unrefused
  <2>2. CASE ~vm[q].present
    <3>1. q = r /\ applied /\ k[2] = "create"
      BY <1>6, <1>7, <1>13, <2>2
    <3>2. k = <<q, "create">>
      BY <1>2, <3>1
    <3>3. cache'[k].state \in {"accepted", "succeeded", "unknown"}
      BY <1>3, <1>5, <3>1 DEF Submitted
    <3>4. QED  BY <1>9, <1>13, <3>2, <3>3 DEF Unrefused
  <2>3. QED  BY <2>1, <2>2
<1>14. QED  BY <1>11, <1>12, <1>13, ProviderKnows

(* Commands and replay requests published and delivered.                   *)
LEMMA DeliveryKnows ==
  ASSUME PInv, KInv, UNCHANGED <<vm, cache, overlapped>>,
         \/ \E o \in Ops : Accept(o)
         \/ \E r \in Requests, o \in Ops : PublishReplayRequest(r, o)
         \/ Consumer
  PROVE  KInv'
<1>1. TypeOK /\ CommandsPlain
  BY DEF PInv, PTypeOK, KInv
<1>2. ASSUME NEW o \in Ops, Accept(o)  PROVE KInv'
  <2>1. /\ Acceptable(o) /\ published' = published \cup {CommandOf(o)}
        /\ UNCHANGED <<workflow, admitted, claim>>
    BY <1>2 DEF Accept, PublishCommand
  <2>2. CommandsPlain'
    BY <1>1, <2>1 DEF CommandsPlain, CommandOf
  <2>3. \A q \in Ops : CommandOf(q) \in published' => q = o \/ CommandOf(q) \in published
    BY <2>1 DEF CommandOf
  <2>4. \A q \in Ops : CommandOf(q) \in published' \ published => q = o
    BY <2>3
  <2>5. QED  BY <2>1, <2>2, <2>3, <2>4, QuietKnows
<1>3. ASSUME NEW x, published' = published \cup {x}, x.kind # "command" \/ x.gen # 0,
             UNCHANGED <<workflow, admitted, claim>>
      PROVE  KInv'
  <2>1. CommandsPlain'
    BY <1>1, <1>3 DEF CommandsPlain, CommandOf
  <2>2. \A q \in Ops : CommandOf(q) \in published' => CommandOf(q) \in published
    BY <1>3 DEF CommandOf
  <2>3. QED  BY <1>3, <2>1, <2>2, QuietKnows
<1>4. CASE UNCHANGED <<published, workflow, admitted, claim>>
  <2>1. CommandsPlain'
    BY <1>1, <1>4 DEF CommandsPlain, CommandOf
  <2>2. QED  BY <1>4, <2>1, QuietKnows
<1>5. ASSUME NEW r \in Requests, NEW o \in Ops, PublishReplayRequest(r, o)  PROVE KInv'
  <2>1. PICK x : /\ x = [kind |-> "replay", op |-> o, gen |-> 0, request |-> r]
                 /\ published' = published \cup {x}
    BY <1>5 DEF PublishReplayRequest
  <2>2. x.kind # "command" /\ UNCHANGED <<workflow, admitted, claim>>
    BY <1>5, <2>1 DEF PublishReplayRequest
  <2>3. QED  BY <1>3, <2>1, <2>2
<1>6. ASSUME NEW m \in published, AdmitOriginalDelivery(m)  PROVE KInv'
  <2>1. PICK o : o = m.op
    OBVIOUS
  <2>2. /\ o \in Ops /\ m = CommandOf(o) /\ UNCHANGED <<published, claim>>
    BY <1>1, <1>6, <2>1, MessageParts DEF AdmitOriginalDelivery, CommandsPlain
  <2>3. CASE UNCHANGED <<workflow, admitted>>
    BY <1>4, <2>2, <2>3
  <2>4. CASE ~AlreadyAdmitted(o)
    <3>1. PICK r \in Nullable(Resources) :
            /\ Inherits(o, r)
            /\ workflow' = [workflow EXCEPT ![o] = RowAtStart("running", 0, 0, r)]
      BY <1>6, <2>1, <2>4 DEF AdmitOriginalDelivery
    <3>2. admitted' = Append(admitted, o)
      BY <1>6, <2>1, <2>4 DEF AdmitOriginalDelivery
    <3>3. workflow[o].status = "none"
      BY <2>4 DEF AlreadyAdmitted
    <3>4. QED  BY <2>2, <3>1, <3>2, <3>3, AdmitKnows
  <2>5. QED  BY <1>6, <2>1, <2>3, <2>4 DEF AdmitOriginalDelivery
<1>7. ASSUME NEW m \in published, AdmitReplayRequest(m)  PROVE KInv'
  <2>1. UNCHANGED <<workflow, admitted, claim>>
    BY <1>7 DEF AdmitReplayRequest
  <2>2. PICK g : g = deadLetter[m.op].gen + 1
    OBVIOUS
  <2>3. g # 0
    BY <1>1, <2>2, MessageParts DEF TypeOK, DeadLetters
  <2>4. \/ published' = published
        \/ published' = published \cup
             {[kind |-> "command", op |-> m.op, gen |-> g, request |-> m.request]}
    BY <1>7, <2>2 DEF AdmitReplayRequest
  <2>5. QED  BY <1>3, <1>4, <2>1, <2>3, <2>4
<1>8. ASSUME NEW m \in published, AdmitAuthorizedReplayCommand(m)  PROVE KInv'
  <2>1. PICK o : o = m.op
    OBVIOUS
  <2>2. /\ o \in Ops /\ m.gen \in Nat /\ m.gen > 0 /\ ~MovedOn(m)
        /\ UNCHANGED <<published, claim>>
    BY <1>1, <1>8, <2>1, MessageParts DEF AdmitAuthorizedReplayCommand
  <2>3. /\ workflow[o].status \in {"none", "failed"}
        /\ workflow[o].status = "none" \/ m.gen = workflow[o].gen + 1
    BY <2>1, <2>2 DEF MovedOn
  <2>4. workflow[o].gen \in Nat /\ (workflow[o].status = "none" => workflow[o].gen = 0)
    BY <2>2, RowParts DEF KInv, RowsKept, RowKept
  <2>5. m.gen > workflow[o].gen
    BY <2>2, <2>3, <2>4
  <2>6. /\ workflow'[o].gen = m.gen /\ workflow'[o].status = "running"
        /\ \A q \in Ops : q # o => workflow'[q] = workflow[q]
        /\ workflow[o].status = "none" => admitted' = Append(admitted, o)
        /\ workflow[o].status # "none" => admitted' = admitted
    BY <1>1, <1>8, <2>1, <2>2 DEF AdmitAuthorizedReplayCommand, Reopened, RowAtStart, TypeOK
  <2>7. QED  BY <2>2, <2>3, <2>5, <2>6, ReplayKnows
<1>9. ASSUME NEW m \in published, RejectReplayCommand(m) \/ DeadLetterCommand(m)  PROVE KInv'
  BY <1>4, <1>9 DEF RejectReplayCommand, DeadLetterCommand
<1>10. QED  BY <1>2, <1>5, <1>6, <1>7, <1>8, <1>9 DEF Consumer

(* A step of the provider or of time that brings no VM and remembers       *)
(* nothing new.                                                            *)
LEMMA IdleKnows ==
  ASSUME PInv, KInv, UNCHANGED <<vars, cache>>, overlapped \subseteq overlapped',
         \A q \in CreateOps : vm'[q].present => vm[q].present
  PROVE  KInv'
<1>1. \A q \in CreateOps : /\ Unrefused(q)' => Unrefused(q)
                           /\ Unrefused(q) => Unrefused(q)' \/ <<q, "create">> \in overlapped'
  BY DEF Unrefused
<1>2. /\ \A k \in Keys \ overlapped' : cache'[k].gen <= workflow[k[1]].gen
      /\ \A q \in CreateOps : vm'[q].present => Unrefused(q)' \/ <<q, "create">> \in overlapped'
  BY <1>1 DEF KInv, GensBounded, MadeByCreate
<1>3. QED  BY <1>1, <1>2, ProviderKnows

(* Every step keeps what is known about VMs.                               *)
LEMMA NextKInv ==
  ASSUME PInv, KInv, [PNext]_pvars
  PROVE  KInv'
<1>1. CASE UNCHANGED pvars
  BY <1>1, IdleKnows DEF pvars, providerVars
<1>2. CASE /\ \/ \E o \in Ops : Accept(o)
              \/ \E r \in Requests, o \in Ops : PublishReplayRequest(r, o)
              \/ Consumer
           /\ UNCHANGED <<response, providerVars, faults>>
  BY <1>2, DeliveryKnows DEF providerVars
<1>3. ASSUME NEW p \in Procs, Worker(p)  PROVE KInv'
  <2>1. ASSUME NEW o \in Ops, ClaimNext(p, o), UNCHANGED <<response, providerVars, faults>>
        PROVE  KInv'
    BY <2>1, ClaimKnows DEF providerVars
  <2>2. CASE SubmitMutation(p)
    <3>1. CASE AnswerFromCache(p)
      BY <2>2, <3>1, IdleKnows DEF SubmitMutation, AnswerFromCache, providerVars
    <3>2. CASE CacheMiss(p)
      <4>1. PICK c : c = CallOf(p)
        OBVIOUS
      <4>2. /\ claim[p].op # None /\ claim[p].stage \in MutationStages /\ Target(p) # None
            /\ UNCHANGED vars
        BY <2>2 DEF SubmitMutation, Waiting
      <4>3. /\ c \in Calls /\ CallAhead(c) /\ c.key[2] \in StepsOf(c.key[1])
            /\ c.key[2] = "create" => c.target = c.key[1]
        BY <4>1, <4>2, CallOfParts
      <4>4. cache[c.key].state = "none" /\ overlapped \subseteq overlapped'
        BY <3>2, <4>1 DEF CacheMiss
      <4>5. CASE "timeout_applied" \in Modes /\ CarryOut(c, "timeout_applied")
        BY <4>2, <4>3, <4>4, <4>5, CarryOutKnows
      <4>6. CASE UNCHANGED <<vm, cache>>
        BY <4>2, <4>4, <4>6, IdleKnows
      <4>7. QED  BY <3>2, <4>1, <4>5, <4>6 DEF CacheMiss
    <3>3. QED  BY <2>2, <3>1, <3>2 DEF SubmitMutation
  <2>3. CASE GetTask(p) \/ Observe(p)
    BY <2>3, IdleKnows DEF GetTask, Observe, providerVars
  <2>4. QED  BY <1>3, <2>1, <2>2, <2>3, ExecutorKnows DEF Worker
<1>4. CASE \/ \E p \in Procs : Abandon(p)
           \/ \E i \in Instances : Lapse(i)
  <2>1. /\ UNCHANGED <<published, workflow, admitted, vm, cache, overlapped>>
        /\ \A p \in Procs : claim'[p] = claim[p] \/ claim'[p].op = None
    BY <1>4 DEF Abandon, AbandonClaim, Lapse, LeaseLapses, providerVars, Idle, PInv, PTypeOK,
                TypeOK
  <2>2. CommandsPlain'
    BY <2>1 DEF KInv, CommandsPlain, CommandOf
  <2>3. QED  BY <2>1, <2>2, QuietKnows
<1>5. ASSUME NEW r \in CreateOps, OutOfBand(r)  PROVE KInv'
  <2>1. \A q \in CreateOps : vm'[q].present => vm[q].present
    BY <1>5 DEF OutOfBand, PInv, PTypeOK, VMs
  <2>2. QED  BY <1>5, <2>1, IdleKnows DEF OutOfBand
<1>6. ASSUME NEW p \in Procs, GiveUp(p)  PROVE KInv'
  BY <1>6, IdleKnows DEF GiveUp, providerVars
<1>7. ASSUME NEW c \in calls, FinishMutation(c)  PROVE KInv'
  <2>1. c \in Calls /\ CallFits(c) /\ CallAhead(c) /\ UNCHANGED <<vars, overlapped>>
    BY <1>7 DEF PInv, PTypeOK, CallsFit, CallsAhead, FinishMutation
  <2>2. \E mode \in Modes : CarryOut(c, mode)
    BY <1>7 DEF FinishMutation
  <2>3. QED  BY <2>1, <2>2, CarryOutKnows DEF CallFits
<1>8. QED  BY <1>1, <1>2, <1>3, <1>4, <1>5, <1>6, <1>7 DEF PNext

(* In every reachable state, of the workers, the store, the provider and   *)
(* the Control API's acceptance together: commands of an instance come one *)
(* after the other, and the create of a VM leaves a row that tells of it.  *)
THEOREM VmsAreTracked == PSpec => []KInv
<1>1. KInv /\ PInv /\ [PNext]_pvars => KInv'
  BY NextKInv
<1>2. QED  BY InitKInv, ProvisioningInvariance, <1>1, PTL DEF PSpec

(* An operation in progress on an instance that was not replayed and has a *)
(* VM knows which one.                                                     *)
THEOREM UnreplayedKnowTheirVm == PSpec => []VmsKnown
<1>1. KInv => VmsKnown
  BY DEF KInv
<1>2. QED  BY VmsAreTracked, <1>1, PTL

(* The two workflows of one instance that were not replayed are never both *)
(* in progress: the Control API accepts the second command only when the   *)
(* first has ended.                                                        *)
UnreplayedAreSerial ==
  \A o, q \in Ops :
    (/\ o # q /\ InstanceOf[o] = InstanceOf[q] /\ Unreplayed(InstanceOf[o])
     /\ workflow[o].status \in Unfinished)
    => workflow[q].status \notin Unfinished

(* SAFE-010 over workflows, but for the replays that break it.             *)
THEOREM OneWorkflowButForReplays == PSpec => []UnreplayedAreSerial
<1>1. PInv /\ KInv => UnreplayedAreSerial
  <2> SUFFICES ASSUME PInv, KInv, NEW o \in Ops, NEW q \in Ops, o # q,
                      InstanceOf[o] = InstanceOf[q], Unreplayed(InstanceOf[o]),
                      workflow[o].status \in Unfinished, workflow[q].status \in Unfinished
               PROVE  FALSE
    BY DEF UnreplayedAreSerial
  <2>1. QED  BY AloneInProgress
<1>2. QED  BY VmsAreTracked, ProvisioningInvariance, <1>1, PTL

(* Where no replay is requested no row is past its first generation.       *)
LEMMA NoReplays ==
  ASSUME Requests = {}
  PROVE  PSpec => [](\A o \in Ops : workflow[o].gen = 0)
<1> DEFINE Original == \A o \in Ops : workflow[o].gen = 0
<1>1. PInit => Original
  <2>1. ASSUME PInit, NEW o \in Ops  PROVE workflow[o].gen = 0
    BY <2>1 DEF PInit, Init, NoRow, RowAtStart
  <2>2. QED  BY <2>1
<1>2. ASSUME IInv, Original, [Next]_vars  PROVE Original'
  <2>1. TypeOK
    BY <1>2 DEF IInv
  <2>2. CASE UNCHANGED workflow
    BY <1>2, <2>2
  <2>3. ASSUME NEW m \in published, AdmitOriginalDelivery(m)  PROVE Original'
    <3>1. CASE UNCHANGED workflow
      BY <2>2, <3>1
    <3>2. ASSUME NEW r, workflow' = [workflow EXCEPT ![m.op] = RowAtStart("running", 0, 0, r)]
          PROVE  Original'
      BY <1>2, <2>1, <3>2, MessageParts DEF RowAtStart, TypeOK
    <3>3. QED  BY <2>3, <3>1, <3>2 DEF AdmitOriginalDelivery
  <2>4. ASSUME NEW m \in published, AdmitAuthorizedReplayCommand(m)  PROVE FALSE
    BY <2>1, <2>4, MessageParts DEF AdmitAuthorizedReplayCommand, Authorized, Nullable
  <2>5. ASSUME NEW p \in Procs, FencedWrite(p)  PROVE Original'
    BY <1>2, <2>5 DEF FencedWrite
  <2>6. ASSUME NEW p \in Procs, NEW o \in Ops, ClaimNext(p, o)  PROVE Original'
    BY <1>2, <2>1, <2>6 DEF ClaimNext, TypeOK
  <2>7. CASE Next
    BY <2>1, <2>2, <2>3, <2>4, <2>5, <2>6, <2>7, NextCases, CheckpointIsFenced,
       CompleteIsFenced, DeadLetterIsFenced
    DEF PublishCommand, PublishReplayRequest, AdmitReplayRequest, RejectReplayCommand,
        DeadLetterCommand, AbandonClaim, LeaseLapses
  <2>8. QED  BY <1>2, <2>2, <2>7 DEF vars
<1>3. PInv /\ Original /\ [PNext]_pvars => Original'
  BY <1>2, NextPInv DEF PInv, PTypeOK, IInv
<1>4. QED  BY <1>1, <1>3, ProvisioningInvariance, PTL DEF PSpec

(* Where no administrator replays, an operation on an instance that has a  *)
(* VM knows which one, whatever the provider answers, whoever crashes and  *)
(* whatever is changed by hand.                                            *)
THEOREM MutationsAreAddressed ==
  Requests = {} => (PSpec => []MutationsKnowTheirResource)
<1> SUFFICES ASSUME Requests = {}  PROVE PSpec => []MutationsKnowTheirResource
  OBVIOUS
<1>1. (\A o \in Ops : workflow[o].gen = 0) /\ VmsKnown => MutationsKnowTheirResource
  BY DEF VmsKnown, KnowsVm, Unreplayed, MutationsKnowTheirResource
<1>2. QED  BY NoReplays, UnreplayedKnowTheirVm, <1>1, PTL

(* And then an instance never has two workflows in progress.               *)
THEOREM OneWorkflowWithoutReplays ==
  Requests = {} => (PSpec => []OneWorkflowPerInstance)
<1> SUFFICES ASSUME Requests = {}  PROVE PSpec => []OneWorkflowPerInstance
  OBVIOUS
<1>1. (\A o \in Ops : workflow[o].gen = 0) /\ UnreplayedAreSerial => OneWorkflowPerInstance
  BY DEF UnreplayedAreSerial, Unreplayed, OneWorkflowPerInstance
<1>2. QED  BY NoReplays, OneWorkflowButForReplays, <1>1, PTL
=============================================================================
