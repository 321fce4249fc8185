-------------------------- MODULE ProxmoxProvider ---------------------------
(***************************************************************************)
(* The direct adapter: packages/provider-adapters/src/proxmox-provider.ts. *)
(* It keeps no state: each call reads the cluster, checks, and then sends  *)
(* its requests, and nothing ties the reads to the writes.                 *)
(*                                                                         *)
(* A mutation is described by what it reads first and what it sends:       *)
(*   locked  - the answer when Proxmox reports a lock ("ignored": no check)*)
(*   already - the power state in which there is nothing to do             *)
(*   posts   - its requests, given the VM as read and the wanted disk      *)
(***************************************************************************)
EXTENDS ProviderPort

startInstance == [locked |-> "ignored", already |-> "running"]
shutdownInstance == [locked |-> "transient", already |-> "stopped"]
stopInstance == [locked |-> "transient", already |-> "stopped"]
rebootInstance == [locked |-> "transient", already |-> "none"]
resizeInstance == [locked |-> "transient", already |-> "none"]
markInstanceRetained == [locked |-> "transient", already |-> "none"]
purgeInstance == [locked |-> "transient", already |-> "none"]
snapshotMutation == [locked |-> "unavailable", already |-> "none"]

Handler(m) ==
  CASE m = "start"    -> startInstance
    [] m = "shutdown" -> shutdownInstance
    [] m = "stop"     -> stopInstance
    [] m = "reboot"   -> rebootInstance
    [] m = "resize"   -> resizeInstance
    [] m = "retain"   -> markInstanceRetained
    [] m = "purge"    -> purgeInstance
    [] OTHER          -> snapshotMutation

(* The requests a mutation sends after its checks.                         *)
Requests(m, current, disk) ==
  CASE m = "resize" -> IF disk > current.disk THEN <<"config", "grow">> ELSE <<"config">>
    [] m = "purge"  -> IF current.power = "running" THEN <<"stop", "destroy">>
                       ELSE <<"destroy">>
    [] m = "retain" -> <<"config">>
    [] m = "shutdown" -> <<"stop">>
    [] OTHER -> <<m>>

(* assertOwnership: the markers' create operation must be the operation of *)
(* the call.  The create workflow's calls satisfy that; a later workflow   *)
(* sends its own operation and is refused, a caller that sends the         *)
(* create's, as the adapter's tests do, is served.                         *)
assertOwnership(m, ownOperation) == m \notin {"create", "configure"} => ~ownOperation

ProxmoxCall(s, i, m, disk) ==
  \E ownOperation \in BOOLEAN :
    StartCall(s, i, m, disk,
      IF ~assertOwnership(m, ownOperation) THEN "violates_boundary"
      ELSE IF m = "create" THEN "list"
      ELSE IF m = "observe" THEN "search" ELSE "owned", Quiet(i))

Refuse(s) ==
  /\ At(s, "violates_boundary")
  /\ Answer(s, "protocol_error")
  /\ UNCHANGEDButCalls

-----------------------------------------------------------------------------
(* submitCreateInstance                                                    *)

listVms(s) ==
  /\ At(s, "list")
  /\ call' = [call EXCEPT ![s].at = "probe",
                          ![s].occupied = {v \in Vmids : vm[v] # Free}]
  /\ UNCHANGEDButCalls

(* mutant: an occupied VMID is skipped whoever owns it. *)
NeverRecognised(s, v) == FALSE

(* The markers of an occupied VMID are those of this create.               *)
Recognised(s, v) == vm[v].owner = call[s].inst

(* findOwnedOrFreeVmid, one VMID at a time.  A VM that went away since the *)
(* listing makes its query fail with a refusal.                            *)
findOwnedOrFreeVmid(s) ==
  LET c == call[s] v == ProbeAt(c.inst, c.offset) IN
  /\ At(s, "probe")
  /\ IF v \notin c.occupied \/ Recognised(s, v)
     THEN call' = [call EXCEPT ![s].at = "existing", ![s].vmid = v, ![s].occupied = {},
                               ![s].offset = 0]
     ELSE IF vm[v] = Free \/ c.offset = Size - 1
     THEN Answer(s, "protocol_error")
     ELSE call' = [call EXCEPT ![s].offset = @ + 1]
  /\ UNCHANGEDButCalls

(* Whatever VM is there by now is taken for the one to create.             *)
submitClone(s) ==
  /\ At(s, "existing")
  /\ IF vm[call[s].vmid] # Free THEN Answer(s, "succeeded")
     ELSE call' = [call EXCEPT ![s].at = "post", ![s].posts = <<"clone">>]
  /\ UNCHANGEDButCalls

-----------------------------------------------------------------------------
(* The calls on an existing VM.                                            *)

(* mutant: any VM at that VMID is taken for the caller's. *)
AnyVm(s) == vm[call[s].vmid] # Free

(* requireOwnedConfig: the VM exists and carries the expected markers.     *)
requireOwnedConfig(s) == vm[call[s].vmid].owner = call[s].inst

(* assertResources: a server is configured with the disk it was cloned     *)
(* with, or not at all.                                                    *)
assertResources(s) == call[s].disk = vm[call[s].vmid].disk

(* assertIpv4Available: only another VM of the same instance can have the  *)
(* address, if it was configured; Acceptance!AddressesDistinct.            *)
assertIpv4Available(s) ==
  IF \E v \in Vmids \ {call[s].vmid} : vm[v].owner = call[s].inst
  THEN BOOLEAN ELSE {TRUE}

(* assertNetwork holds for what the Control API accepted.  One request is  *)
(* sent.                                                                   *)
applyInstanceConfiguration(s) ==
  /\ call[s].method = "configure"
  /\ \E available \in assertIpv4Available(s) :
       IF assertResources(s) /\ available
       THEN call' = [call EXCEPT ![s].at = "post", ![s].posts = <<"config">>]
       ELSE Answer(s, "protocol_error")

Owned(s) ==
  LET c == call[s] IN
  /\ At(s, "owned")
  /\ IF ~requireOwnedConfig(s) \/ (c.method = "resize" /\ c.disk < vm[c.vmid].disk)
     THEN Answer(s, "protocol_error")
     ELSE applyInstanceConfiguration(s) \/ (c.method # "configure" /\ Goto(s, "status"))
  /\ UNCHANGEDButCalls

(* currentStatus decides between the lock, the state already reached and   *)
(* the requests.  The VM may have gone since its configuration was read.   *)
currentStatus(s) ==
  LET c == call[s] v == c.vmid h == Handler(c.method) IN
  /\ At(s, "status")
  /\ IF vm[v] = Free THEN \E a \in HttpRefusal : Answer(s, a)
     ELSE IF Locked(v) /\ h.locked # "ignored" THEN Answer(s, h.locked)
     ELSE IF vm[v].power = h.already THEN Answer(s, "succeeded")
     ELSE call' = [call EXCEPT ![s].at = "post",
                               ![s].posts = Requests(c.method, vm[v], c.disk)]
  /\ UNCHANGEDButCalls

(* The reserved range is searched for the markers.                         *)
findOwnedVmid(s) == {v \in Vmids : vm[v].owner = call[s].inst}
absentObservation == "absent"

(* observeInstance with the resource the caller knows, or by searching.    *)
observeInstance(s) ==
  LET c == call[s] IN
  /\ At(s, "search")
  /\ Answer(s, IF c.vmid = None
               THEN IF findOwnedVmid(s) = {} THEN absentObservation ELSE "present"
               ELSE IF vm[c.vmid] = Free THEN absentObservation
               ELSE IF vm[c.vmid].owner = c.inst THEN "present" ELSE "foreign")
  /\ UNCHANGEDButCalls

(* getTask: the task a caller waits for has stopped.                       *)
getTask(i) ==
  /\ waiting[i] = "task"
  /\ vm[resource[i]].job = "none"
  /\ waiting' = [waiting EXCEPT ![i] = "idle"]
  /\ UNCHANGED <<vm, call, resource, lease, made, abandoned>>

ProxmoxHandler(s) ==
  \/ Refuse(s)
  \/ listVms(s)
  \/ findOwnedOrFreeVmid(s)
  \/ submitClone(s)
  \/ Owned(s)
  \/ currentStatus(s)
  \/ observeInstance(s)
  \/ QueryFails(s, {"list", "probe", "existing", "owned", "status", "search"},
                LostAnswer \cup UnreadableAnswer)
  \/ Post(s)
-----------------------------------------------------------------------------
(* SAFE-006: a request that changes a VM is sent to a VM that carries the  *)
(* caller's markers at that moment, or creates one, although the check is  *)
(* an earlier request than the change, VMIDs are reused, and a create may  *)
(* have been answered with another instance's VM.  The exception: a        *)
(* handler whose caller has gone, or that began while an earlier call of   *)
(* its instance was still at work, may find its VMID reused.               *)
MutatesOwnVm ==
  [][\A s \in Slots :
       call'[s].done > call[s].done =>
         \/ vm[call[s].vmid].owner \in {None, call[s].inst}
         \/ ~call[s].live \/ ~call[s].alone]_portVars

(* A create submitted again is recognised and not cloned again, except at  *)
(* a VMID that precedes the first VM's in the probe sequence: it was       *)
(* occupied when the first was cloned, has been freed since, and the       *)
(* search stops there before it reaches the VM that carries the markers.   *)
(* (Or when a handler whose caller has gone is still at work for it.)      *)
SecondVmOnlyBefore ==
  [][\A s \in Slots : LET i == call[s].inst v == call[s].vmid IN
       (call'[s].done > call[s].done /\ vm[v] = Free /\ call[s].live /\ call[s].alone) =>
         \A w \in Vmids : vm[w].owner = i => Position(i, v) < Position(i, w)]_portVars
=============================================================================
