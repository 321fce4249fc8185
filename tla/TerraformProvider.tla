------------------------- MODULE TerraformProvider --------------------------
(***************************************************************************)
(* The Terraform adapter: packages/provider-adapters/src/                  *)
(* terraform-proxmox-provider.ts on terraform/runner.ts,                   *)
(* terraform/plan-gate.ts and packages/postgres-adapter/src/               *)
(* terraform-inventory-store.ts.  A mutation is planned, gated and         *)
(* recorded as a run before it is answered; a background job then plans    *)
(* again, applies and records the outcome.  Power-off, reboot and the      *)
(* snapshot calls go straight to Proxmox.                                  *)
(*                                                                         *)
(* A command of Terraform holds the workspace's state lock and is one      *)
(* step (external); one that fails is a step of its own.                   *)
(***************************************************************************)
EXTENDS ProviderPort

CONSTANT MaxFaults  \* bound on adapter crashes and database failures

VARIABLES
  tfstate,    \* by instance, the Terraform state of its workspace
  run,        \* terraform.runs, in the order of their beginning
  job,        \* by run, what completeInBackground is doing
  workspace,  \* by instance, terraform.workspaces.drift_state
  refreshing, \* by instance, the drift state a pending refresh will record
  task,       \* by instance, the run its workflow polls
  stranded,   \* runs left running by a crash or by failed writes
  faults

runVars == <<run, job, workspace, task, stranded, faults>>
terraformVars == <<portVars, tfstate, refreshing, runVars>>

NoState == [vmid |-> None, tainted |-> FALSE, power |-> "stopped", disk |-> 0, serial |-> 0]
Runs == DOMAIN run
NoJob == [at |-> "none", power |-> "stopped", disk |-> 0, actions |-> {}, serial |-> 0,
          exit |-> 0]

-----------------------------------------------------------------------------
(* Plans and their gate.                                                   *)

(* vmIdFor                                                                 *)
vmIdFor(i) == ProbeAt(i, 0)

(* What the two calls declare that change more than the power state.       *)
DeclareResize(i, disk) == [power |-> tfstate[i].power, disk |-> disk]
DeclareRetained(i) == [power |-> "stopped", disk |-> tfstate[i].disk]

(* The desired power state and disk of a call, on top of what the state    *)
(* declares: tfvarsFromState with the changes of each method.              *)
Wanted(i, method, disk) ==
  CASE method = "create"  -> [power |-> "running", disk |-> 1]
    [] method = "start"   -> [power |-> "running", disk |-> tfstate[i].disk]
    [] method = "shutdown" -> [power |-> "stopped", disk |-> tfstate[i].disk]
    [] method = "retain"  -> DeclareRetained(i)
    [] method = "resize"  -> DeclareResize(i, disk)
    [] OTHER              -> [power |-> tfstate[i].power, disk |-> tfstate[i].disk]

(* The resource a plan's own refresh still finds (external).               *)
InState(i) == tfstate[i].vmid # None /\ vm[tfstate[i].vmid] # Free

(* The actions of the instance's resource in the plan (external).  A       *)
(* resource whose creation failed half way is tainted and is replaced.     *)
PlannedActions(i, want, destroy) ==
  CASE destroy -> IF InState(i) THEN {"delete"} ELSE {}
    [] ~destroy /\ ~InState(i) -> {"create"}
    [] ~destroy /\ InState(i) /\ tfstate[i].tainted -> {"delete", "create"}
    [] OTHER -> IF vm[tfstate[i].vmid].power = want.power /\ vm[tfstate[i].vmid].disk = want.disk
                THEN {"no-op"} ELSE {"update"}

(* mutant: only a plain delete counts as destructive. *)
ReplacementAllowed(actions, allowDestroy) ==
  IF actions # {"delete"} \/ allowDestroy THEN "allowed" ELSE "refused_destructive"

(* evaluatePlan                                                            *)
evaluatePlan(actions, allowDestroy) ==
  IF "delete" \notin actions \/ allowDestroy THEN "allowed" ELSE "refused_destructive"

(* plan: a plan that fails or cannot be read is refused by the gate.       *)
Plans(i, want, destroy) ==
  LET actions == PlannedActions(i, want, destroy) IN
  { [actions |-> actions, gate |-> evaluatePlan(actions, destroy)],
    [actions |-> {}, gate |-> "refused_destructive"] }

-----------------------------------------------------------------------------
(* The handlers.  Each prepares a directory and initialises it first; a    *)
(* backend that cannot be reached makes the call unavailable.              *)

Direct == {"stop", "reboot", "snapshot", "rollback", "unsnapshot"}

TerraformCall(s, i, m, disk) ==
  /\ StartCall(s, i, m, disk,
       CASE m = "create" -> "plan"
         [] m = "observe" -> "refresh"
         [] m \in Direct \cup {"purge"} -> "live"
         [] OTHER -> "state",
       Quiet(i) /\ \A r \in Runs : run[r].inst = i => job[r].at \notin {"plan", "apply"})
  /\ UNCHANGED <<tfstate, refreshing, runVars>>

(* mutant: the VM is not asked whose it is. *)
TrustsVmid(s) == vm[call[s].vmid] # Free

(* assertLiveOwnership                                                     *)
assertLiveOwnership(s) == vm[call[s].vmid].owner = call[s].inst

directMutation(s) ==
  /\ At(s, "live") /\ call[s].method # "purge"
  /\ IF assertLiveOwnership(s)
     THEN call' = [call EXCEPT ![s].at = "post", ![s].posts = <<call[s].method>>]
     ELSE Answer(s, "protocol_error")
  /\ UNCHANGEDButCalls /\ UNCHANGED <<tfstate, refreshing, runVars>>

(* A purge proves the ownership of the live VM before it reads the state.  *)
PurgeOwned(s) ==
  /\ At(s, "live") /\ call[s].method = "purge"
  /\ IF assertLiveOwnership(s) THEN Goto(s, "state") ELSE Answer(s, "protocol_error")
  /\ UNCHANGEDButCalls /\ UNCHANGED <<tfstate, refreshing, runVars>>

(* The drift state each direct call leaves to its refresh.                 *)
DriftAfter(method) == IF method = "rollback" THEN "drifted" ELSE "in_sync"

(* The refresh of the state is started as soon as Proxmox has accepted the *)
(* task, and does not wait for it.  An answer that could not be read       *)
(* starts none, although the task may be under way.                        *)
directPost(s) ==
  /\ Post(s)
  /\ refreshing' = IF call'[s].answer = "accepted"
                   THEN [refreshing EXCEPT ![call[s].inst] = DriftAfter(call[s].method)]
                   ELSE refreshing
  /\ task' = IF call'[s].answer = "accepted" /\ call[s].live
             THEN [task EXCEPT ![call[s].inst] = 0] ELSE task
  /\ UNCHANGED <<tfstate, run, job, workspace, stranded, faults>>

(* What a refresh writes into the state.  Both callers go on whether it    *)
(* succeeded or not: its exit code is not looked at.                       *)
Refreshed(i) ==
  IF InState(i)
  THEN [tfstate[i] EXCEPT !.power = vm[tfstate[i].vmid].power,
                          !.disk = vm[tfstate[i].vmid].disk,
                          !.serial = tfstate[i].serial + 1]
  ELSE [NoState EXCEPT !.serial = tfstate[i].serial + 1]

refresh(i) == tfstate' \in {tfstate, [tfstate EXCEPT ![i] = Refreshed(i)]}

(* The drift state recorded was chosen by the method, not by what the      *)
(* refresh found; a backend out of reach or a failed write leaves the old  *)
(* one or "unknown".                                                       *)
refreshAfterDirectMutation(i) ==
  /\ refreshing[i] # "none"
  /\ refreshing' = [refreshing EXCEPT ![i] = "none"]
  /\ \/ /\ refresh(i)
        /\ workspace' = [workspace EXCEPT ![i] = refreshing[i]]
     \/ /\ UNCHANGED tfstate
        /\ \E w \in {workspace[i], "unknown"} : workspace' = [workspace EXCEPT ![i] = w]
  /\ UNCHANGED <<portVars, run, job, task, stranded, faults>>

(* observeInstance: from the state as refreshed, from the stale one when   *)
(* the refresh failed, and absent when the state cannot be shown.          *)
observeState(s) ==
  LET i == call[s].inst IN
  /\ At(s, "refresh")
  /\ \/ /\ tfstate' = [tfstate EXCEPT ![i] = Refreshed(i)]
        /\ Answer(s, IF ~InState(i) THEN "absent"
                     ELSE IF vm[tfstate[i].vmid].owner = i THEN "present" ELSE "foreign")
     \/ /\ UNCHANGED tfstate
        /\ Answer(s, IF tfstate[i].vmid = None THEN "absent" ELSE "present")
     \/ refresh(i) /\ Answer(s, "absent")
  /\ UNCHANGEDButCalls /\ UNCHANGED <<refreshing, runVars>>

(* What the state, read without a refresh, decides.                        *)
AlreadyDeclared(c) ==
  \/ c.method = "start" /\ tfstate[c.inst].power = "running"
  \/ c.method = "shutdown" /\ tfstate[c.inst].power = "stopped"

(* A state that cannot be shown reads as an empty one.                     *)
readState(s) ==
  LET c == call[s] i == c.inst IN
  /\ At(s, "state")
  /\ \E empty \in {TRUE, tfstate[i].vmid = None} :
       IF empty THEN Answer(s, "unknown")
       ELSE IF AlreadyDeclared(c) THEN Answer(s, "succeeded")
       ELSE IF c.method = "resize" /\ c.disk < tfstate[i].disk THEN Answer(s, "rejected")
       ELSE call' = [call EXCEPT ![s].at = "plan", ![s].vmid = tfstate[i].vmid]
  /\ UNCHANGEDButCalls /\ UNCHANGED <<tfstate, refreshing, runVars>>

(* applyInstanceConfiguration only asks whether the plan is empty.         *)
converged(s, p) ==
  Answer(s, IF p.gate = "allowed" /\ p.actions \subseteq {"no-op"}
            THEN "succeeded" ELSE "rejected")

(* startApply, up to the gate.                                             *)
startApply(s) ==
  LET c == call[s] want == Wanted(c.inst, c.method, c.disk) IN
  /\ At(s, "plan")
  /\ \E p \in Plans(c.inst, want, c.method = "purge") :
       IF c.method = "configure" THEN converged(s, p)
       ELSE call' = [call EXCEPT ![s].at = "begin", ![s].gate = p.gate,
                       ![s].vmid = IF c.method = "create" THEN vmIdFor(c.inst) ELSE c.vmid,
                       ![s].power = want.power,
                       ![s].disk = want.disk]
  /\ UNCHANGEDButCalls /\ UNCHANGED <<tfstate, refreshing, runVars>>

(* mutant: the token is recorded and not compared. *)
AnyToken(s) == TRUE

(* assertFencingToken                                                      *)
assertFencingToken(s) == call[s].token = lease[call[s].inst]

(* beginRun: the fence is read without a lock, so the lease may move       *)
(* before the row is there.  "seen" is how many runs there were.           *)
beginRun(s) ==
  /\ At(s, "begin")
  /\ IF assertFencingToken(s) THEN call' = [call EXCEPT ![s].at = "insert", ![s].seen = Len(run)]
     ELSE Answer(s, "internal")
  /\ UNCHANGEDButCalls /\ UNCHANGED <<tfstate, refreshing, runVars>>

(* The row exists before the background job and before the answer, and is  *)
(* running whatever the gate said.  When the write fails, or only its      *)
(* confirmation is lost, the call ends as INTERNAL and nobody works on the *)
(* row that may be there.                                                  *)
insertRun(s) ==
  LET c == call[s] allowed == c.gate = "allowed"
      Insert(j) == /\ run' = Append(run, [inst |-> c.inst, token |-> c.token,
                                          purge |-> c.method = "purge", status |-> "running"])
                   /\ job' = Append(job, j)
  IN
  /\ At(s, "insert")
  /\ \/ /\ allowed
        /\ Insert([NoJob EXCEPT !.at = "plan", !.power = c.power, !.disk = c.disk])
        /\ Answer(s, "accepted")
        /\ task' = IF c.live THEN [task EXCEPT ![c.inst] = Len(run) + 1] ELSE task
        /\ UNCHANGED <<stranded, faults>>
     \/ /\ ~allowed
        /\ Insert(NoJob)
        /\ call' = [call EXCEPT ![s].at = "refuse", ![s].seen = Len(run) + 1]
        /\ UNCHANGED <<task, stranded, faults>>
     \/ /\ faults < MaxFaults /\ faults' = faults + 1
        /\ \/ Insert(NoJob) /\ stranded' = stranded \cup {Len(run) + 1}
           \/ UNCHANGED <<run, job, stranded>>
        /\ Answer(s, "internal")
        /\ UNCHANGED task
  /\ UNCHANGEDButCalls /\ UNCHANGED <<tfstate, refreshing, workspace>>

(* completeRun of a refused plan, a transaction of its own: when it fails, *)
(* the call ends as INTERNAL and the row stays as it is.                   *)
completeRefused(s) ==
  LET r == call[s].seen IN
  /\ At(s, "refuse")
  /\ \/ /\ run' = [run EXCEPT ![r].status = "failed"]
        /\ Answer(s, "rejected")
        /\ UNCHANGED <<stranded, faults>>
     \/ /\ faults < MaxFaults /\ faults' = faults + 1
        /\ stranded' = stranded \cup {r}
        /\ Answer(s, "internal")
        /\ UNCHANGED run
  /\ UNCHANGEDButCalls /\ UNCHANGED <<tfstate, refreshing, job, workspace, task>>

-----------------------------------------------------------------------------
(* completeInBackground                                                    *)

(* mutant: a plan refused the second time ends the job without a word. *)
PlanAgainOrGiveUp(r) ==
  \E p \in Plans(run[r].inst, job[r], run[r].purge) :
    job' = [job EXCEPT ![r] = IF p.gate = "allowed"
              THEN [job[r] EXCEPT !.at = "apply", !.actions = p.actions,
                             !.serial = tfstate[run[r].inst].serial]
              ELSE NoJob]

(* The second plan; apply throws when its gate refuses.                    *)
PlanAgain(r) ==
  \E p \in Plans(run[r].inst, job[r], run[r].purge) :
    job' = [job EXCEPT ![r] = IF p.gate = "allowed"
              THEN [job[r] EXCEPT !.at = "apply", !.actions = p.actions,
                             !.serial = tfstate[run[r].inst].serial]
              ELSE [NoJob EXCEPT !.at = "catch"]]

jobPlans(r) ==
  /\ job[r].at = "plan"
  /\ PlanAgain(r)
  /\ UNCHANGED <<portVars, tfstate, refreshing, run, workspace, task, stranded, faults>>

Exit(r, code) == job' = [job EXCEPT ![r] = [NoJob EXCEPT !.at = "complete", !.exit = code]]

(* What an apply that succeeds leaves, and one that fails while creating.  *)
Built(r, v) == [owner |-> run[r].inst, power |-> job[r].power, job |-> "none",
                disk |-> job[r].disk]
StateOf(r, v, tainted) == [vmid |-> v, tainted |-> tainted, power |-> job[r].power,
                  disk |-> job[r].disk, serial |-> tfstate[run[r].inst].serial + 1]

(* apply (external): the saved plan is refused when the state has changed  *)
(* since; a VMID that is taken, a busy VM and a smaller disk are errors of *)
(* the provider; and any apply may fail before or, when it creates, after  *)
(* the VM is there.                                                        *)
jobApplies(r) ==
  LET i == run[r].inst  actions == job[r].actions
      v == IF tfstate[i].vmid = None THEN vmIdFor(i) ELSE tfstate[i].vmid
      fresh == job[r].serial = tfstate[i].serial
      Set(new, state) == /\ vm' = [vm EXCEPT ![v] = new]
                         /\ tfstate' = [tfstate EXCEPT ![i] = state]
  IN
  /\ job[r].at = "apply"
  /\ \/ Exit(r, 1) /\ UNCHANGED <<vm, tfstate>>
     \/ /\ fresh /\ actions = {"create"} /\ vm[v] = Free
        /\ \/ Set(Built(r, v), StateOf(r, v, FALSE)) /\ Exit(r, 0)
           \/ Set([Built(r, v) EXCEPT !.power = "stopped"], StateOf(r, v, TRUE)) /\ Exit(r, 1)
     \/ /\ fresh /\ actions = {"update"} /\ vm[v].job = "none"
        /\ job[r].disk >= vm[v].disk
        /\ Set([vm[v] EXCEPT !.power = job[r].power, !.disk = job[r].disk],
               StateOf(r, v, FALSE))
        /\ Exit(r, 0)
     \/ fresh /\ actions \subseteq {"no-op"} /\ Exit(r, 0) /\ UNCHANGED <<vm, tfstate>>
     \/ /\ fresh /\ actions = {"delete"} /\ vm[v].job = "none"
        /\ Set(Free, [NoState EXCEPT !.serial = tfstate[i].serial + 1]) /\ Exit(r, 0)
     \/ /\ fresh /\ actions = {"delete", "create"} /\ vm[v].job = "none"
        /\ Set(Free, [NoState EXCEPT !.serial = tfstate[i].serial + 1]) /\ Exit(r, 1)
  /\ UNCHANGED <<call, resource, waiting, lease, made, abandoned, refreshing,
                 run, workspace, task, stranded, faults>>

(* The status an exit code stands for.                                     *)
RunStatus(exit) == IF exit = 0 THEN "succeeded" ELSE "failed"

(* completeRun after an apply, then recordWorkspace, which compares no     *)
(* token; a purge also deletes the workspace.  A write that fails goes to  *)
(* the catch, where completeRun is tried once more.                        *)
completeRun(r) ==
  /\ job[r].at = "complete"
  /\ \/ /\ run' = [run EXCEPT ![r].status = RunStatus(job[r].exit)]
        /\ job' = [job EXCEPT ![r].at = "record"]
        /\ UNCHANGED faults
     \/ /\ faults < MaxFaults /\ faults' = faults + 1
        /\ job' = [job EXCEPT ![r] = [NoJob EXCEPT !.at = "catch"]]
        /\ UNCHANGED run
  /\ UNCHANGED <<portVars, tfstate, refreshing, workspace, task, stranded>>

recordWorkspace(r) ==
  /\ job[r].at = "record"
  /\ workspace' = [workspace EXCEPT ![run[r].inst] =
       IF job[r].exit # 0 THEN "unknown" ELSE IF run[r].purge THEN "absent" ELSE "in_sync"]
  /\ job' = [job EXCEPT ![r] = NoJob]
  /\ UNCHANGED <<portVars, tfstate, refreshing, run, task, stranded, faults>>

(* completeRun changes only a row that is still running.                   *)
jobCatches(r) ==
  /\ job[r].at = "catch"
  /\ job' = [job EXCEPT ![r] = NoJob]
  /\ \/ run' = [run EXCEPT ![r].status = "unknown"] /\ UNCHANGED <<stranded, faults>>
     \/ /\ faults < MaxFaults /\ faults' = faults + 1
        /\ stranded' = stranded \cup {r}
        /\ UNCHANGED run
  /\ UNCHANGED <<portVars, tfstate, refreshing, workspace, task>>

-----------------------------------------------------------------------------
(* getTask: the workflow waits while the run is running, or while Proxmox  *)
(* works on a direct task.                                                 *)
getRunState(i) ==
  /\ waiting[i] = "task"
  /\ IF task[i] = 0 THEN vm[resource[i]].job = "none" ELSE run[task[i]].status # "running"
  /\ waiting' = [waiting EXCEPT ![i] = "idle"]
  /\ task' = [task EXCEPT ![i] = 0]
  /\ UNCHANGED <<vm, call, resource, lease, made, abandoned, tfstate, refreshing,
                 run, job, workspace, stranded, faults>>

(* The adapter's process dies: its calls are lost and so are its jobs.     *)
AdapterCrash ==
  /\ faults < MaxFaults /\ faults' = faults + 1
  /\ \E r \in Runs : run[r].status = "running" \/ job[r].at # "none"
  /\ stranded' = stranded \cup {r \in Runs : run[r].status = "running"}
  /\ job' = [r \in Runs |-> NoJob]
  /\ refreshing' = [i \in Instances |-> "none"]
  /\ call' = [s \in Slots |-> IF call[s].at = "free" THEN NoCall
                ELSE Answered(call[s], "unavailable")]
  /\ UNCHANGEDButCalls /\ UNCHANGED <<tfstate, run, workspace, task>>

TerraformInit ==
  /\ tfstate = [i \in Instances |-> NoState]
  /\ run = <<>>
  /\ job = <<>>
  /\ workspace = [i \in Instances |-> "none"]
  /\ refreshing = [i \in Instances |-> "none"]
  /\ task = [i \in Instances |-> 0]
  /\ stranded = {}
  /\ faults = 0

(* init fails (unavailable), the directory cannot be written (internal),   *)
(* or Proxmox does not say whose VM it is.                                 *)
BackendUnreachable(s) ==
  /\ \/ QueryFails(s, {"refresh", "state", "plan"}, {"unavailable", "internal"})
     \/ QueryFails(s, {"live"}, LostAnswer \cup UnreadableAnswer)
  /\ UNCHANGED <<tfstate, refreshing, runVars>>

TerraformHandler(s) ==
  \/ directMutation(s)
  \/ PurgeOwned(s)
  \/ directPost(s)
  \/ observeState(s)
  \/ readState(s)
  \/ startApply(s)
  \/ beginRun(s)
  \/ insertRun(s)
  \/ completeRefused(s)
  \/ BackendUnreachable(s)

TerraformBackground ==
  \/ \E r \in Runs : \/ jobPlans(r) \/ jobApplies(r) \/ completeRun(r)
                     \/ recordWorkspace(r) \/ jobCatches(r)
  \/ \E i \in Instances : refreshAfterDirectMutation(i)
-----------------------------------------------------------------------------
(* The plan gate: nothing but a purge destroys a VM.  However a create     *)
(* failed half way and was submitted again, and whatever the state held    *)
(* when a plan was made the second time, a VM is taken from its owner only *)
(* if a purge of that owner has been begun.  Without runs, as under the    *)
(* direct adapter, it says nothing.                                        *)
OnlyPurgeDestroys ==
  [][\A v \in Vmids :
       (vm[v].owner # None /\ vm'[v].owner # vm[v].owner /\ run # <<>>) =>
         \E r \in Runs : run[r].inst = vm[v].owner /\ run[r].purge]_terraformVars

(* A workflow does not poll for ever: a run that is still running has its  *)
(* background job, or a handler that is about to record that its plan was  *)
(* refused.  The exceptions: the adapter died; the job could not write its *)
(* outcome twice; or one write of beginRun, or of the refusal, failed.     *)
RunningHasItsJob ==
  \A r \in Runs : run[r].status = "running" =>
    \/ job[r].at # "none"
    \/ \E s \in Slots : At(s, "refuse") /\ call[s].seen = r
    \/ r \in stranded

(* Once a newer claim has begun a run, a call of an older one that was     *)
(* still planning begins none: a run is not inserted after one of a later  *)
(* token, unless that was begun between the reading of the fence and the   *)
(* insert, which nothing locks.                                            *)
RunsInTokenOrder ==
  \A s \in Slots : At(s, "insert") =>
    \A q \in 1..call[s].seen : run[q].inst = call[s].inst => run[q].token <= call[s].token
=============================================================================
