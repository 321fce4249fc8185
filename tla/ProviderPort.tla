---------------------------- MODULE ProviderPort ----------------------------
(***************************************************************************)
(* What the two real provider adapters share.                              *)
(*                                                                         *)
(*  - The Proxmox cluster (external): the VMs of the reserved VMID range   *)
(*    and the task each one is busy with.                                  *)
(*  - The handlers of apps/proxmox-provider/src/app/                       *)
(*    provider-grpc.controller.ts: one slot per call that is being served. *)
(*    A handler is not told when its caller gives up, so it runs on.       *)
(*  - The callers: the workflows of the orchestrator, which make one call  *)
(*    at a time for an instance under a fencing token of their own.        *)
(*                                                                         *)
(* Every request to Proxmox is a step; its answer may be lost, or arrive   *)
(* and be unreadable.                                                      *)
(***************************************************************************)
EXTENDS Integers, Sequences, FiniteSets

CONSTANTS
  Instances,
  Size,         \* VMIDs in the reserved range
  SeedOf,       \* the hash of an instance's id
  Slots,        \* bound on the calls served at a time
  Methods,      \* the calls the workflows make
  Disks,        \* disk sizes; a clone has the smallest
  MaxCalls,     \* bound on the calls made
  MaxAbandoned, \* bound on the calls whose caller crashed or gave up
  None

Vmids == 0..(Size - 1)
CallNames == {"create", "configure", "start", "shutdown", "stop", "reboot", "resize",
              "snapshot", "rollback", "unsnapshot", "retain", "purge", "observe"}

ASSUME PortAssumption ==
  /\ Size \in Nat \ {0}
  /\ SeedOf \in [Instances -> Nat]
  /\ Methods \subseteq CallNames
  /\ Disks \subseteq Nat /\ 1 \in Disks
  /\ None \notin Instances \cup Vmids
  /\ {"idle", "task"} \cap Slots = {}

VARIABLES
  vm,       \* by VMID; Free when there is none
  call,     \* by slot, the call being served
  resource, \* by instance, the VMID its workflows know
  waiting,  \* by instance: idle, the slot it waits for, or "task"
  lease,    \* by instance, its newest fencing token
  made,     \* calls made so far
  abandoned \* calls abandoned so far

portVars == <<vm, call, resource, waiting, lease, made, abandoned>>

(* The k-th VMID of the probe sequence of an instance.                     *)
ProbeAt(i, k) == (SeedOf[i] + k) % Size
Position(i, v) == CHOOSE k \in Vmids : ProbeAt(i, k) = v

-----------------------------------------------------------------------------
(* The cluster.                                                            *)

Free == [owner |-> None, power |-> "stopped", job |-> "none", disk |-> 0]
LockingJobs == {"clone", "snapshot", "rollback", "unsnapshot"}
Jobs == LockingJobs \cup {"none", "start", "stop", "reboot", "destroy"}

Locked(v) == vm[v].job \in LockingJobs

(* A VM does one thing at a time; a destroy may queue behind a stop.       *)
Accepts(v, effect) ==
  IF effect = "clone" THEN vm[v] = Free
  ELSE /\ vm[v] # Free
       /\ vm[v].job = "none" \/ (effect = "destroy" /\ vm[v].job = "stop")

(* The VM after Proxmox accepted a request; config changes are immediate.  *)
CarriedOut(v, effect, i, disk) ==
  CASE effect = "clone"   -> [owner |-> i, power |-> "stopped", job |-> "clone", disk |-> 1]
    [] effect = "config"  -> vm[v]
    [] effect = "grow"    -> [vm[v] EXCEPT !.disk = disk]
    [] effect = "destroy" ->
         [vm[v] EXCEPT !.job = "destroy",
                       !.power = IF vm[v].job = "stop" THEN "stopped" ELSE vm[v].power]
    [] OTHER              -> [vm[v] EXCEPT !.job = effect]

(* What a task leaves when it succeeds.                                    *)
Finished(v) ==
  CASE vm[v].job \in {"start", "rollback"} ->
         [vm[v] EXCEPT !.job = "none", !.power = "running"]
    [] vm[v].job = "stop" -> [vm[v] EXCEPT !.job = "none", !.power = "stopped"]
    [] vm[v].job = "destroy" /\ vm[v].power = "stopped" -> Free
    [] OTHER -> [vm[v] EXCEPT !.job = "none"]

(* A failed clone leaves nothing behind.                                   *)
TaskFails(v) ==
  IF vm[v].job = "clone" THEN Free ELSE [vm[v] EXCEPT !.job = "none"]

TaskEnds(v) ==
  /\ vm[v].job # "none"
  /\ \E after \in {Finished(v), TaskFails(v)} : vm' = [vm EXCEPT ![v] = after]
  /\ UNCHANGED <<call, resource, waiting, lease, made, abandoned>>

-----------------------------------------------------------------------------
(* The handlers.                                                           *)

NoCall == [at |-> "free", inst |-> None, method |-> "none", disk |-> 0, vmid |-> None,
           occupied |-> {}, offset |-> 0, posts |-> <<>>, done |-> 0, garbled |-> FALSE,
           live |-> FALSE, alone |-> FALSE, token |-> 0, gate |-> "none", power |-> "stopped", seen |-> 0,
           answer |-> "none"]

(* A handler throws a ProviderTransportError code, or an error the         *)
(* controller does not know ("internal"), or it returns a result: accepted *)
(* or succeeded, or rejected in a category that is final ("rejected"), to  *)
(* be tried again ("transient") or of unknown outcome ("unknown").         *)
LostAnswer == {"unavailable"}

(* A 2xx that is no JSON (also one cut off by the deadline), has no data   *)
(* or not the task it should have, or is a JSON null, on which the look    *)
(* for the data throws a TypeError.                                        *)
UnreadableAnswer == {"protocol_error", "internal"}

Answers == {"unavailable", "protocol_error", "internal", "accepted", "succeeded", "rejected",
            "transient", "unknown", "present", "foreign", "absent"}

(* The status the controller sends for an error.                           *)
rpcError ==
  [aborted |-> "CANCELLED", deadline_exceeded |-> "DEADLINE_EXCEEDED",
   protocol_error |-> "FAILED_PRECONDITION", unavailable |-> "UNAVAILABLE",
   internal |-> "INTERNAL"]

(* mutant: only a deadline leaves the outcome open. *)
UnavailableIsRefusal(status) ==
  CASE status = "DEADLINE_EXCEEDED" -> "deadline_exceeded"
    [] status = "CANCELLED" -> "aborted"
    [] OTHER -> "protocol_error"

(* The code the client reads a status back as.                             *)
transportError(status) ==
  CASE status = "DEADLINE_EXCEEDED" -> "deadline_exceeded"
    [] status = "CANCELLED" -> "aborted"
    [] status = "UNAVAILABLE" -> "unavailable"
    [] OTHER -> "protocol_error"

(* The workflow takes these for a definite no.                             *)
Refused(a) ==
  a = "rejected" \/ (a \in DOMAIN rpcError /\ transportError(rpcError[a]) = "protocol_error")

(* A handler that has its answer keeps only what the answer is about.      *)
Answered(c, a) ==
  [c EXCEPT !.at = "answered", !.answer = a, !.disk = 0, !.occupied = {}, !.offset = 0,
            !.posts = <<>>, !.token = 0, !.gate = "none", !.power = "stopped", !.seen = 0]

At(s, pc) == call[s].at = pc
Goto(s, pc) == call' = [call EXCEPT ![s].at = pc]
Answer(s, answer) == call' = [call EXCEPT ![s] = Answered(@, answer)]
UNCHANGEDButCalls == UNCHANGED <<vm, resource, waiting, lease, made, abandoned>>

(* A status of 408, 429 or 500 and above is unavailable, any other failed  *)
(* status a refusal; no answer at all is a timeout or a broken connection. *)
HttpRefusal == {"unavailable", "protocol_error"}

(* What the handler answers when its last request was accepted: it may     *)
(* have no task to wait for.                                               *)
Completion(effect) ==
  IF effect \in {"config", "grow", "destroy"} THEN {"accepted", "succeeded"} ELSE {"accepted"}

Post(s) ==
  LET c == call[s] effect == Head(c.posts) v == c.vmid
      Done == [c EXCEPT !.done = @ + 1]
      Sends == vm' = [vm EXCEPT ![v] = CarriedOut(v, effect, c.inst, c.disk)]
  IN
  /\ At(s, "post")
  /\ \/ /\ Accepts(v, effect) /\ Sends
        /\ IF Len(c.posts) > 1
           THEN call' = [call EXCEPT ![s] = [Done EXCEPT !.posts = Tail(@)]]
           ELSE \E a \in Completion(effect) :
                  call' = [call EXCEPT ![s] = Answered(Done, a)]
     \/ /\ Accepts(v, effect) /\ Sends
        /\ \/ \E a \in LostAnswer : call' = [call EXCEPT ![s] = Answered(Done, a)]
           \/ \E a \in UnreadableAnswer :
                call' = [call EXCEPT ![s] = Answered([Done EXCEPT !.garbled = TRUE], a)]
     \/ /\ ~Accepts(v, effect) /\ UNCHANGED vm
        /\ \E a \in HttpRefusal : Answer(s, a)
     \/ UNCHANGED vm /\ (\E a \in LostAnswer : Answer(s, a))
  /\ UNCHANGED <<resource, waiting, lease, made, abandoned>>

(* A query that brings no answer, or none it can read, ends the handler.   *)
QueryFails(s, pcs, answers) ==
  /\ call[s].at \in pcs
  /\ \E a \in answers : Answer(s, a)
  /\ UNCHANGEDButCalls

-----------------------------------------------------------------------------
(* The callers.                                                            *)

(* Nothing of an earlier call of the instance is still at work, nor is any *)
(* other handler at work on the VM its workflows know.  Only the           *)
(* properties read what a call keeps of it in "alone".                     *)
Quiet(i) ==
  /\ \A t \in Slots : call[t].inst # i
  /\ resource[i] # None =>
       /\ vm[resource[i]].job = "none"
       /\ \A t \in Slots : call[t].vmid # resource[i]

(* Create while the workflow knows no resource, the other calls after.     *)
MayCall(i, m) == m = "observe" \/ (m = "create" <=> resource[i] = None)

StartCall(s, i, m, disk, first, alone) ==
  /\ made < MaxCalls
  /\ At(s, "free") /\ waiting[i] = "idle" /\ MayCall(i, m)
  /\ made' = made + 1
  /\ lease' = [lease EXCEPT ![i] = @ + 1]
  /\ waiting' = [waiting EXCEPT ![i] = s]
  /\ call' = [call EXCEPT ![s] =
       [NoCall EXCEPT !.at = first, !.inst = i, !.method = m, !.disk = disk,
                      !.vmid = resource[i], !.live = TRUE, !.token = lease[i] + 1,
                      !.alone = alone]]
  /\ UNCHANGED <<vm, resource, abandoned>>

(* The answer reaches its caller, which keeps the resource it names.       *)
Deliver(s) ==
  LET c == call[s] i == c.inst IN
  /\ At(s, "answered")
  /\ call' = [call EXCEPT ![s] = NoCall]
  /\ IF c.live
     THEN /\ waiting' = [waiting EXCEPT ![i] = IF c.answer = "accepted" THEN "task" ELSE "idle"]
          /\ resource' = IF c.answer \in {"accepted", "succeeded"}
                         THEN [resource EXCEPT ![i] = c.vmid] ELSE resource
     ELSE UNCHANGED <<waiting, resource>>
  /\ UNCHANGED <<vm, lease, made, abandoned>>

(* The worker dies, or its deadline passes: the handler runs on.           *)
Abandon(i) ==
  /\ abandoned < MaxAbandoned
  /\ waiting[i] \in Slots
  /\ abandoned' = abandoned + 1
  /\ call' = [call EXCEPT ![waiting[i]].live = FALSE]
  /\ waiting' = [waiting EXCEPT ![i] = "idle"]
  /\ UNCHANGED <<vm, resource, lease, made>>

PortInit ==
  /\ vm = [v \in Vmids |-> Free]
  /\ call = [s \in Slots |-> NoCall]
  /\ resource = [i \in Instances |-> None]
  /\ waiting = [i \in Instances |-> "idle"]
  /\ lease = [i \in Instances |-> 0]
  /\ made = 0
  /\ abandoned = 0

-----------------------------------------------------------------------------
(* A definite refusal means nothing was done, which is what the controller *)
(* promises with FAILED_PRECONDITION and the workflows rely on when they   *)
(* report a failure.  The exceptions: a resize or a purge whose second     *)
(* request was refused has carried out its first; and a request Proxmox    *)
(* carried out, but whose answer could not be read, is thrown as a         *)
(* protocol_error or an INTERNAL, which the client reads as refusals too.  *)
RefusedMeansUnchanged ==
  \A s \in Slots :
    Refused(call[s].answer) =>
      \/ call[s].done = 0
      \/ call[s].done = 1 /\ call[s].method \in {"resize", "purge"}
      \/ call[s].garbled
=============================================================================
