--------------------------- MODULE AdaptersProofs ---------------------------
(***************************************************************************)
(* What holds of the two provider adapters for any number of instances,    *)
(* VMIDs, handlers and calls, however many callers give up.                *)
(***************************************************************************)
EXTENDS ProviderAdapters, SequenceFacts, TLAPS

Nullable(S) == S \cup {None}
Powers == {"running", "stopped"}
Ats == {"free", "violates_boundary", "list", "probe", "existing", "owned", "status", "search",
        "live", "refresh", "state", "plan", "begin", "insert", "refuse", "post", "answered"}
Effects == {"clone", "config", "grow", "destroy", "start", "stop", "reboot", "snapshot",
            "rollback", "unsnapshot"}
Gates == {"none", "allowed", "refused_destructive"}
JobAts == {"none", "plan", "apply", "catch", "complete", "record"}

VMs == [owner : Nullable(Instances), power : Powers, job : Jobs, disk : Nat]
CallRecords ==
  [at : Ats, inst : Nullable(Instances), method : CallNames \cup {"none"}, disk : Nat,
   vmid : Nullable(Vmids), occupied : SUBSET Vmids, offset : Nat, posts : Seq(Effects),
   done : Nat, garbled : BOOLEAN, live : BOOLEAN, alone : BOOLEAN, token : Nat, gate : Gates,
   power : Powers, seen : Nat, answer : Answers \cup {"none"}]
States == [vmid : Nullable(Vmids), tainted : BOOLEAN, power : Powers, disk : Nat, serial : Nat]
RunRecords == [inst : Instances, token : Nat, purge : BOOLEAN,
               status : {"running", "succeeded", "failed", "unknown"}]
JobRecords == [at : JobAts, power : Powers, disk : Nat,
               actions : SUBSET {"create", "update", "delete", "no-op"},
               serial : Nat, exit : Nat]

Typed ==
  /\ vm \in [Vmids -> VMs]
  /\ call \in [Slots -> CallRecords]
  /\ resource \in [Instances -> Nullable(Vmids)]
  /\ waiting \in [Instances -> Slots \cup {"idle", "task"}]
  /\ lease \in [Instances -> Nat]
  /\ tfstate \in [Instances -> States]
  /\ run \in Seq(RunRecords)
  /\ job \in Seq(JobRecords)
  /\ adapter \in {"proxmox", "terraform"}

(* The requests a handler still has to send, and how many it has sent.     *)
SingleEffects == {"start", "stop", "reboot", "snapshot", "rollback", "unsnapshot"}
PostsFit(c) ==
  \/ c.method = "create" /\ c.posts = <<"clone">> /\ c.done = 0
  \/ c.method \in {"configure", "retain"} /\ c.posts = <<"config">> /\ c.done = 0
  \/ c.method = "resize" /\ c.posts \in {<<"config">>, <<"config", "grow">>} /\ c.done = 0
  \/ c.method = "resize" /\ c.posts = <<"grow">> /\ c.done = 1
  \/ c.method = "purge" /\ c.posts = <<"stop", "destroy">> /\ c.done = 0
  \/ c.method = "purge" /\ c.posts = <<"destroy">> /\ c.done \in {0, 1}
  \/ /\ c.method \in {"start", "shutdown", "stop", "reboot", "snapshot", "rollback", "unsnapshot"}
     /\ (\E e \in SingleEffects : c.posts = <<e>>) /\ c.done = 0

CallFits(c) ==
  /\ c.at = "free" => c = NoCall
  /\ c.at # "free" => c.inst \in Instances /\ c.method \in CallNames
  /\ c.at \in {"existing", "owned", "status", "live", "post"} => c.vmid \in Vmids
  /\ c.at \in {"list", "probe", "existing"} => c.method = "create"
  /\ c.at \in {"owned", "status"} => c.method \notin {"create", "observe"}
  /\ c.at = "status" => c.method # "configure"
  /\ c.at = "live" => c.method \in Direct \cup {"purge"}
  /\ c.at = "post" => PostsFit(c)
  /\ c.at \notin {"post", "answered"} => c.done = 0
  /\ c.at # "answered" => c.answer = "none"
  /\ Refused(c.answer) =>
       c.done = 0 \/ (c.done = 1 /\ c.method \in {"resize", "purge"}) \/ c.garbled
CallsFit == \A s \in Slots : CallFits(call[s])

(* A run that is running has its job or is about to be refused, and a job  *)
(* that still has to record the workspace has ended its run.               *)
Refusing(r) == \E s \in Slots : call[s].at = "refuse" /\ call[s].seen = r
RunFits(r) ==
  /\ run[r].status = "running" => job[r].at # "none" \/ r \in stranded \/ Refusing(r)
  /\ job[r].at = "record" => run[r].status # "running"
  /\ run[r].token <= lease[run[r].inst]
RunsFit == Len(run) = Len(job) /\ \A r \in Runs : RunFits(r)

(* No token is above the lease's, and a handler that passed the fence had  *)
(* the newest of the runs it saw.                                          *)
TokenFits(c) ==
  /\ c.at # "free" => c.token <= lease[c.inst]
  /\ c.at = "insert" =>
       /\ c.seen <= Len(run)
       /\ \A q \in 1..c.seen : run[q].inst = c.inst => run[q].token <= c.token
  /\ c.at = "refuse" => c.seen \in 1..Len(run)
TokensFit == \A s \in Slots : TokenFits(call[s])

(* The Terraform adapter's states name the VMs of their instances, and a   *)
(* plan that is still fresh was made for the VM that is there.             *)
PlanFits(r) ==
  /\ "delete" \in job[r].actions => run[r].purge
  /\ job[r].at = "apply" =>
       /\ job[r].serial <= tfstate[run[r].inst].serial
       /\ (/\ job[r].serial = tfstate[run[r].inst].serial
           /\ "delete" \in job[r].actions \/ "update" \in job[r].actions)
          => tfstate[run[r].inst].vmid # None
StatesFit ==
  /\ adapter = "proxmox" => run = <<>>
  /\ adapter = "terraform" =>
       /\ \A v \in Vmids : vm[v].job \notin {"clone", "destroy"}
       /\ \A s \in Slots : call[s].at = "post" => call[s].method \in Direct
       /\ \A i \in Instances : tfstate[i].vmid # None => vm[tfstate[i].vmid].owner = i
       /\ \A r \in Runs : PlanFits(r)

(* A caller that waits waits for the one handler that is live for it, and  *)
(* a handler that began alone stays alone.                                 *)
Sole(s) ==
  call[s].live =>
    /\ call[s].inst \in Instances /\ waiting[call[s].inst] = s
    /\ call[s].alone => \A t \in Slots : t # s => call[t].inst # call[s].inst
SoleHandlers == \A s \in Slots : Sole(s)

(* Such a handler has its VM to itself from its check to its last request. *)
Guarded(s) ==
  call[s].live /\ call[s].alone /\ call[s].method # "create"
    /\ call[s].at \in {"owned", "status", "live", "post"}
Undisturbed(s) ==
  Guarded(s) =>
    /\ call[s].at \in {"status", "post"} => vm[call[s].vmid].owner = call[s].inst
    /\ (adapter = "proxmox" /\ vm[call[s].vmid].owner = call[s].inst) =>
         /\ \/ vm[call[s].vmid].job = "none"
            \/ /\ vm[call[s].vmid].job = "stop" /\ call[s].at = "post"
               /\ call[s].posts = <<"destroy">>
         /\ \A t \in Slots \ {s} : call[t].vmid = call[s].vmid =>
              call[t].at \notin {"status", "post"}
    /\ adapter = "terraform" =>
         \A r \in Runs : run[r].inst = call[s].inst => job[r].at \notin {"plan", "apply"}
UndisturbedHandlers == \A s \in Slots : Undisturbed(s)

AInv == Typed /\ CallsFit /\ RunsFit /\ TokensFit /\ StatesFit /\ SoleHandlers /\ UndisturbedHandlers

(* A step of a handler changes its own call and not whose call it is.      *)
Moves(s) ==
  /\ call' \in [Slots -> CallRecords]
  /\ \A t \in Slots : t # s => call'[t] = call[t]
  /\ CallFits(call'[s])
  /\ call[s].at # "free" /\ call'[s].at # "free"
  /\ call'[s].inst = call[s].inst /\ call'[s].method = call[s].method
  /\ call'[s].live = call[s].live /\ call'[s].alone = call[s].alone
  /\ call'[s].token \in {call[s].token, 0}

(* One that sends nothing, and what it checked before it goes on.          *)
Places == {"owned", "status", "live", "post"}
Looks(s) ==
  /\ Moves(s)
  /\ call'[s].done = call[s].done
  /\ (call'[s].at \in Places /\ call[s].method # "create") =>
       /\ call[s].at \in Places \ {"post"}
       /\ call'[s].vmid = call[s].vmid
  /\ call'[s].at \in {"status", "post"} =>
       \/ vm[call'[s].vmid].owner = call[s].inst
       \/ call[s].method = "create" /\ vm[call'[s].vmid] = Free
       \/ call[s].at = "status" /\ call'[s].vmid = call[s].vmid
  /\ call'[s].at = "insert" => call[s].at = "begin"
  /\ call'[s].at = "refuse" => call[s].at = "insert"

(* Every other handler goes on refusing the run it refuses.                *)
StillRefusing(s) ==
  \A t \in Slots : t # s /\ call[t].at = "refuse" =>
    call'[t].at = "refuse" /\ call'[t].seen = call[t].seen

-----------------------------------------------------------------------------
(* Of the answers a handler gives without having been refused none reads   *)
(* as a refusal.                                                           *)
LEMMA NotRefusals ==
  /\ ~Refused("unavailable") /\ ~Refused("accepted") /\ ~Refused("succeeded")
  /\ ~Refused("transient") /\ ~Refused("none")
BY DEF Refused, rpcError, transportError

(* What is left of a call once it has its answer.                          *)
LEMMA AnsweredFields ==
  ASSUME NEW c \in CallRecords, NEW a \in Answers
  PROVE  /\ Answered(c, a) \in CallRecords
         /\ Answered(c, a).at = "answered" /\ Answered(c, a).answer = a
         /\ Answered(c, a).inst = c.inst /\ Answered(c, a).method = c.method
         /\ Answered(c, a).vmid = c.vmid /\ Answered(c, a).done = c.done
         /\ Answered(c, a).live = c.live /\ Answered(c, a).alone = c.alone
         /\ Answered(c, a).token = 0 /\ Answered(c, a).garbled = c.garbled
<1>1. <<>> \in Seq(Effects) /\ {} \in SUBSET Vmids
  OBVIOUS
<1>2. /\ Answered(c, a).at = "answered" /\ Answered(c, a).answer = a
      /\ Answered(c, a).token = 0
  BY DEF Answered, CallRecords
<1>3. /\ Answered(c, a).inst = c.inst /\ Answered(c, a).method = c.method
      /\ Answered(c, a).vmid = c.vmid /\ Answered(c, a).done = c.done
  BY DEF Answered, CallRecords
<1>4. /\ Answered(c, a).live = c.live /\ Answered(c, a).alone = c.alone
      /\ Answered(c, a).garbled = c.garbled
  BY DEF Answered, CallRecords
<1>5. "answered" \in Ats /\ "none" \in Gates /\ "stopped" \in Powers
  BY DEF Ats, Gates, Powers
<1>6. ASSUME NEW at \in Ats, NEW o \in SUBSET Vmids, NEW p \in Seq(Effects), NEW g \in Gates,
             NEW w \in Powers, NEW z \in Nat
      PROVE  [c EXCEPT !.at = at, !.answer = a, !.disk = z, !.occupied = o, !.offset = z,
                       !.posts = p, !.token = z, !.gate = g, !.power = w, !.seen = z]
               \in CallRecords
  BY DEF CallRecords
<1>7. Answered(c, a) \in CallRecords
  BY <1>1, <1>5, <1>6 DEF Answered
<1> QED
  BY <1>2, <1>3, <1>4, <1>7

(* A handler answers, with a refusal only when it may.                     *)
LEMMA AnswerLooks ==
  ASSUME Typed, CallsFit, NEW s \in Slots, NEW a \in Answers, call[s].at # "free",
         call' = [call EXCEPT ![s] = Answered(call[s], a)],
         Refused(a) => call[s].done = 0 \/ (call[s].done = 1 /\ call[s].method \in {"resize", "purge"})
  PROVE  Looks(s) /\ call'[s].at = "answered"
<1>1. call[s] \in CallRecords /\ call \in [Slots -> CallRecords]
  BY DEF Typed
<1>2. call'[s] = Answered(call[s], a)
  BY <1>1
<1>3. CallFits(call[s])
  BY DEF CallsFit
<1> DEFINE d == call'[s]
<1>4. /\ d \in CallRecords /\ d.at = "answered" /\ d.answer = a
      /\ d.inst = call[s].inst /\ d.method = call[s].method
      /\ d.vmid = call[s].vmid /\ d.done = call[s].done
      /\ d.live = call[s].live /\ d.alone = call[s].alone /\ d.token = 0
  BY <1>1, <1>2, AnsweredFields
<1>5. call' \in [Slots -> CallRecords] /\ \A t \in Slots : t # s => call'[t] = call[t]
  BY <1>1, <1>2, <1>4
<1>6. CallFits(d)
  BY <1>3, <1>4 DEF CallFits, NoCall
<1> QED
  BY <1>4, <1>5, <1>6 DEF Moves, Looks, Places

(* A handler goes on to its next request.                                  *)
Continues(c, d) ==
  /\ d \in CallRecords
  /\ d.inst = c.inst /\ d.method = c.method /\ d.done = c.done
  /\ d.answer = c.answer /\ d.token = c.token
  /\ d.live = c.live /\ d.alone = c.alone

LEMMA GoesOn ==
  ASSUME Typed, CallsFit, NEW s \in Slots, call[s].at # "free", NEW d,
         call' = [call EXCEPT ![s] = d], Continues(call[s], d), d.at # "free", CallFits(d)
  PROVE  Moves(s) /\ call'[s] = d /\ call'[s].done = call[s].done
<1>1. call \in [Slots -> CallRecords] /\ d \in CallRecords
  BY DEF Typed, Continues
<1>2. call'[s] = d /\ call' \in [Slots -> CallRecords] /\ \A t \in Slots : t # s => call'[t] = call[t]
  BY <1>1
<1> QED
  BY <1>2 DEF Moves, Continues

-----------------------------------------------------------------------------
(* The handlers of the direct adapter.                                     *)

LEMMA RefuseLooks ==
  ASSUME Typed, CallsFit, NEW s \in Slots, Refuse(s)
  PROVE  Looks(s)
<1>1. call[s].at = "violates_boundary" /\ call' = [call EXCEPT ![s] = Answered(call[s], "protocol_error")]
  BY DEF Refuse, At, Answer
<1>2. call[s].done = 0
  BY <1>1 DEF CallsFit, CallFits
<1> QED
  BY <1>1, <1>2, AnswerLooks DEF Answers

LEMMA listVmsLooks ==
  ASSUME Typed, CallsFit, NEW s \in Slots, listVms(s)
  PROVE  Looks(s)
<1>1. call[s] \in CallRecords /\ call \in [Slots -> CallRecords] /\ CallFits(call[s])
  BY DEF Typed, CallsFit
<1>2. PICK o \in SUBSET Vmids :
        call[s].at = "list" /\ call' = [call EXCEPT ![s].at = "probe", ![s].occupied = o]
  BY DEF listVms, At
<1>3. PICK d : d = [call[s] EXCEPT !.at = "probe", !.occupied = o]
  OBVIOUS
<1>4. call' = [call EXCEPT ![s] = d]
  BY <1>1, <1>2, <1>3
<1>5. "probe" \in Ats
  BY DEF Ats
<1>6. Continues(call[s], d) /\ d.at = "probe"
  BY <1>1, <1>3, <1>5 DEF Continues, CallRecords
<1>7. CallFits(d)
  BY <1>1, <1>2, <1>6 DEF CallFits, Continues
<1> QED
  BY <1>2, <1>4, <1>6, <1>7, GoesOn DEF Looks, Places

LEMMA findOwnedOrFreeVmidLooks ==
  ASSUME Typed, CallsFit, NEW s \in Slots, findOwnedOrFreeVmid(s)
  PROVE  Looks(s)
<1>1. call[s] \in CallRecords /\ call \in [Slots -> CallRecords] /\ CallFits(call[s])
  BY DEF Typed, CallsFit
<1>2. call[s].at = "probe"
  BY DEF findOwnedOrFreeVmid, At
<1>3. call[s].method = "create" /\ call[s].inst \in Instances /\ call[s].done = 0
  BY <1>1, <1>2 DEF CallFits
<1>4. PICK v : v = ProbeAt(call[s].inst, call[s].offset)
  OBVIOUS
<1>5. v \in Vmids
  <2>1. call[s].offset \in Nat /\ SeedOf[call[s].inst] \in Nat /\ Size \in Nat /\ Size > 0
    BY <1>1, <1>3, PortAssumption DEF CallRecords
  <2>2. \A a \in Nat : a % Size \in 0..(Size - 1)
    BY <2>1
  <2> QED
    BY <1>4, <2>1, <2>2 DEF ProbeAt, Vmids
<1>6. \/ call' = [call EXCEPT ![s].at = "existing", ![s].vmid = v, ![s].occupied = {}, ![s].offset = 0]
      \/ call' = [call EXCEPT ![s] = Answered(call[s], "protocol_error")]
      \/ call' = [call EXCEPT ![s].offset = call[s].offset + 1]
  <2>1. CASE v \notin call[s].occupied \/ Recognised(s, v)
    BY <1>4, <2>1 DEF findOwnedOrFreeVmid
  <2>2. CASE ~(v \notin call[s].occupied \/ Recognised(s, v))
    BY <1>1, <1>4, <2>2 DEF findOwnedOrFreeVmid, Answer
  <2> QED
    BY <2>1, <2>2
<1>7. CASE call' = [call EXCEPT ![s].at = "existing", ![s].vmid = v, ![s].occupied = {}, ![s].offset = 0]
  <2>1. PICK d : d = [call[s] EXCEPT !.at = "existing", !.vmid = v, !.occupied = {}, !.offset = 0]
    OBVIOUS
  <2>2. call' = [call EXCEPT ![s] = d]
    BY <1>1, <1>7, <2>1
  <2>3. "existing" \in Ats /\ v \in Nullable(Vmids) /\ {} \in SUBSET Vmids
    BY <1>5 DEF Ats, Nullable
  <2>4. Continues(call[s], d) /\ d.at = "existing" /\ d.vmid = v
    BY <1>1, <2>1, <2>3 DEF Continues, CallRecords
  <2>5. CallFits(d)
    BY <1>1, <1>2, <1>3, <1>5, <2>4 DEF CallFits, Continues
  <2> QED
    BY <1>2, <1>3, <2>2, <2>4, <2>5, GoesOn DEF Looks, Places
<1>8. CASE call' = [call EXCEPT ![s] = Answered(call[s], "protocol_error")]
  BY <1>2, <1>3, <1>8, AnswerLooks DEF Answers
<1>9. CASE call' = [call EXCEPT ![s].offset = call[s].offset + 1]
  <2>1. PICK d : d = [call[s] EXCEPT !.offset = call[s].offset + 1]
    OBVIOUS
  <2>2. call' = [call EXCEPT ![s] = d]
    BY <1>1, <1>9, <2>1
  <2>3. call[s].offset + 1 \in Nat
    BY <1>1 DEF CallRecords
  <2>4. Continues(call[s], d) /\ d.at = "probe"
    BY <1>1, <1>2, <2>1, <2>3 DEF Continues, CallRecords
  <2>5. CallFits(d)
    BY <1>1, <1>2, <1>3, <2>4 DEF CallFits, Continues
  <2> QED
    BY <1>2, <1>3, <2>2, <2>4, <2>5, GoesOn DEF Looks, Places
<1> QED
  BY <1>6, <1>7, <1>8, <1>9

LEMMA submitCloneLooks ==
  ASSUME Typed, CallsFit, NEW s \in Slots, submitClone(s)
  PROVE  Looks(s)
<1>1. call[s] \in CallRecords /\ call \in [Slots -> CallRecords] /\ CallFits(call[s])
  BY DEF Typed, CallsFit
<1>2. call[s].at = "existing"
  BY DEF submitClone, At
<1>3. call[s].method = "create" /\ call[s].inst \in Instances /\ call[s].done = 0 /\ call[s].vmid \in Vmids
  BY <1>1, <1>2 DEF CallFits
<1>4. CASE vm[call[s].vmid] # Free
  BY <1>2, <1>4, AnswerLooks, NotRefusals DEF submitClone, Answer, Answers
<1>5. CASE vm[call[s].vmid] = Free
  <2>1. PICK d : d = [call[s] EXCEPT !.at = "post", !.posts = <<"clone">>]
    OBVIOUS
  <2>2. call' = [call EXCEPT ![s] = d]
    BY <1>1, <1>5, <2>1 DEF submitClone
  <2>3. "post" \in Ats /\ <<"clone">> \in Seq(Effects)
    BY DEF Ats, Effects
  <2>4. Continues(call[s], d) /\ d.at = "post" /\ d.vmid = call[s].vmid /\ d.posts = <<"clone">>
    BY <1>1, <2>1, <2>3 DEF Continues, CallRecords
  <2>5. CallFits(d)
    BY <1>1, <1>2, <1>3, <2>4 DEF CallFits, Continues, PostsFit
  <2> QED
    BY <1>2, <1>3, <1>5, <2>2, <2>4, <2>5, GoesOn DEF Looks, Places
<1> QED
  BY <1>4, <1>5

LEMMA OwnedLooks ==
  ASSUME Typed, CallsFit, NEW s \in Slots, Owned(s)
  PROVE  Looks(s)
<1>1. call[s] \in CallRecords /\ call \in [Slots -> CallRecords] /\ CallFits(call[s])
  BY DEF Typed, CallsFit
<1>2. call[s].at = "owned"
  BY DEF Owned, At
<1>3. /\ call[s].method \in CallNames /\ call[s].method \notin {"create", "observe"}
      /\ call[s].inst \in Instances /\ call[s].done = 0 /\ call[s].vmid \in Vmids
  BY <1>1, <1>2 DEF CallFits
<1>4. \/ call' = [call EXCEPT ![s] = Answered(call[s], "protocol_error")]
      \/ /\ vm[call[s].vmid].owner = call[s].inst /\ call[s].method = "configure"
         /\ call' = [call EXCEPT ![s].at = "post", ![s].posts = <<"config">>]
      \/ /\ vm[call[s].vmid].owner = call[s].inst /\ call[s].method # "configure"
         /\ call' = [call EXCEPT ![s].at = "status"]
  BY DEF Owned, requireOwnedConfig, applyInstanceConfiguration, Answer, Goto
<1>5. CASE call' = [call EXCEPT ![s] = Answered(call[s], "protocol_error")]
  BY <1>2, <1>3, <1>5, AnswerLooks DEF Answers
<1>6. CASE /\ vm[call[s].vmid].owner = call[s].inst /\ call[s].method = "configure"
           /\ call' = [call EXCEPT ![s].at = "post", ![s].posts = <<"config">>]
  <2>1. PICK d : d = [call[s] EXCEPT !.at = "post", !.posts = <<"config">>]
    OBVIOUS
  <2>2. call' = [call EXCEPT ![s] = d]
    BY <1>1, <1>6, <2>1
  <2>3. "post" \in Ats /\ <<"config">> \in Seq(Effects)
    BY DEF Ats, Effects
  <2>4. Continues(call[s], d) /\ d.at = "post" /\ d.vmid = call[s].vmid /\ d.posts = <<"config">>
    BY <1>1, <2>1, <2>3 DEF Continues, CallRecords
  <2>5. CallFits(d)
    BY <1>1, <1>2, <1>3, <1>6, <2>4 DEF CallFits, Continues, PostsFit
  <2> QED
    BY <1>2, <1>3, <1>6, <2>2, <2>4, <2>5, GoesOn DEF Looks, Places
<1>7. CASE /\ vm[call[s].vmid].owner = call[s].inst /\ call[s].method # "configure"
           /\ call' = [call EXCEPT ![s].at = "status"]
  <2>1. PICK d : d = [call[s] EXCEPT !.at = "status"]
    OBVIOUS
  <2>2. call' = [call EXCEPT ![s] = d]
    BY <1>1, <1>7, <2>1
  <2>3. "status" \in Ats
    BY DEF Ats
  <2>4. Continues(call[s], d) /\ d.at = "status" /\ d.vmid = call[s].vmid
    BY <1>1, <2>1, <2>3 DEF Continues, CallRecords
  <2>5. CallFits(d)
    BY <1>1, <1>2, <1>3, <1>7, <2>4 DEF CallFits, Continues
  <2> QED
    BY <1>2, <1>3, <1>7, <2>2, <2>4, <2>5, GoesOn DEF Looks, Places
<1> QED
  BY <1>4, <1>5, <1>6, <1>7

(* What a mutation sends is what its method may send.                      *)
LEMMA RequestsFit ==
  ASSUME NEW m \in CallNames, m \notin {"create", "configure", "observe"}, NEW current, NEW disk
  PROVE  /\ Requests(m, current, disk) \in Seq(Effects)
         /\ m \in {"start", "shutdown", "stop", "reboot", "snapshot", "rollback", "unsnapshot"} =>
              \E e \in SingleEffects : Requests(m, current, disk) = <<e>>
         /\ m = "retain" => Requests(m, current, disk) = <<"config">>
         /\ m = "resize" => Requests(m, current, disk) \in {<<"config">>, <<"config", "grow">>}
         /\ m = "purge" => Requests(m, current, disk) \in {<<"destroy">>, <<"stop", "destroy">>}
<1>1. /\ <<"config">> \in Seq(Effects) /\ <<"config", "grow">> \in Seq(Effects)
      /\ <<"destroy">> \in Seq(Effects) /\ <<"stop", "destroy">> \in Seq(Effects)
      /\ \A e \in SingleEffects : <<e>> \in Seq(Effects)
  BY DEF Effects, SingleEffects
<1>2. CASE m = "resize"
  BY <1>1, <1>2 DEF Requests
<1>3. CASE m = "purge"
  BY <1>1, <1>3 DEF Requests
<1>4. CASE m = "retain"
  BY <1>1, <1>4 DEF Requests
<1>5. CASE m = "shutdown"
  BY <1>1, <1>5 DEF Requests, SingleEffects
<1>6. CASE m \notin {"resize", "purge", "retain", "shutdown"}
  <2>1. Requests(m, current, disk) = <<m>> /\ m \in SingleEffects
    BY <1>6 DEF Requests, CallNames, SingleEffects
  <2> QED
    BY <1>1, <1>6, <2>1
<1> QED
  BY <1>2, <1>3, <1>4, <1>5, <1>6

LEMMA currentStatusLooks ==
  ASSUME Typed, CallsFit, NEW s \in Slots, currentStatus(s)
  PROVE  Looks(s)
<1>1. call[s] \in CallRecords /\ call \in [Slots -> CallRecords] /\ CallFits(call[s])
  BY DEF Typed, CallsFit
<1>2. call[s].at = "status"
  BY DEF currentStatus, At
<1>3. /\ call[s].method \in CallNames /\ call[s].method \notin {"create", "observe", "configure"}
      /\ call[s].inst \in Instances /\ call[s].done = 0 /\ call[s].vmid \in Vmids
  BY <1>1, <1>2 DEF CallFits
<1>4. \/ \E a \in Answers : call' = [call EXCEPT ![s] = Answered(call[s], a)]
      \/ call' = [call EXCEPT ![s].at = "post",
                    ![s].posts = Requests(call[s].method, vm[call[s].vmid], call[s].disk)]
  <2>1. HttpRefusal \subseteq Answers /\ "succeeded" \in Answers
    BY DEF HttpRefusal, Answers, LostAnswer
  <2>2. Handler(call[s].method).locked # "ignored" => Handler(call[s].method).locked \in Answers
    BY DEF Handler, startInstance, shutdownInstance, stopInstance, rebootInstance, resizeInstance,
           markInstanceRetained, purgeInstance, snapshotMutation, Answers, LostAnswer
  <2> QED
    BY <2>1, <2>2 DEF currentStatus, Answer
<1>5. CASE \E a \in Answers : call' = [call EXCEPT ![s] = Answered(call[s], a)]
  BY <1>2, <1>3, <1>5, AnswerLooks
<1>6. CASE call' = [call EXCEPT ![s].at = "post",
                     ![s].posts = Requests(call[s].method, vm[call[s].vmid], call[s].disk)]
  <2>1. PICK p : p = Requests(call[s].method, vm[call[s].vmid], call[s].disk)
    OBVIOUS
  <2>2. PICK d : d = [call[s] EXCEPT !.at = "post", !.posts = p]
    OBVIOUS
  <2>3. call' = [call EXCEPT ![s] = d]
    BY <1>1, <1>6, <2>1, <2>2
  <2>4. "post" \in Ats /\ p \in Seq(Effects)
    BY <1>3, <2>1, RequestsFit DEF Ats
  <2>5. Continues(call[s], d) /\ d.at = "post" /\ d.vmid = call[s].vmid /\ d.posts = p
    BY <1>1, <2>2, <2>4 DEF Continues, CallRecords
  <2>6. PostsFit(d)
    BY <1>3, <2>1, <2>5, RequestsFit DEF PostsFit, Continues, CallNames
  <2>7. CallFits(d)
    BY <1>1, <1>2, <1>3, <2>5, <2>6 DEF CallFits, Continues
  <2> QED
    BY <1>2, <1>3, <2>3, <2>5, <2>7, GoesOn DEF Looks, Places
<1> QED
  BY <1>4, <1>5, <1>6

LEMMA observeInstanceLooks ==
  ASSUME Typed, CallsFit, NEW s \in Slots, observeInstance(s)
  PROVE  Looks(s)
<1>1. call[s].at = "search" /\ \E a \in Answers : call' = [call EXCEPT ![s] = Answered(call[s], a)]
  BY DEF observeInstance, At, Answer, Answers, absentObservation
<1>2. call[s].done = 0
  BY <1>1 DEF CallsFit, CallFits
<1> QED
  BY <1>1, <1>2, AnswerLooks

LEMMA QueryFailsLooks ==
  ASSUME Typed, CallsFit, NEW s \in Slots, NEW pcs, pcs \cap {"free", "post", "answered"} = {},
         NEW answers, answers \subseteq Answers, QueryFails(s, pcs, answers)
  PROVE  Looks(s) /\ call'[s].at = "answered"
<1>1. PICK a \in Answers : call' = [call EXCEPT ![s] = Answered(call[s], a)]
  BY DEF QueryFails, Answer
<1>2. call[s].at \notin {"free", "post", "answered"}
  BY DEF QueryFails
<1>3. call[s].done = 0
  BY <1>2 DEF CallsFit, CallFits
<1> QED
  BY <1>1, <1>2, <1>3, AnswerLooks

-----------------------------------------------------------------------------
(* The handlers of the Terraform adapter.                                  *)

LEMMA directMutationLooks ==
  ASSUME Typed, CallsFit, NEW s \in Slots, directMutation(s)
  PROVE  Looks(s) /\ call[s].method \in Direct
<1>1. call[s] \in CallRecords /\ call \in [Slots -> CallRecords] /\ CallFits(call[s])
  BY DEF Typed, CallsFit
<1>2. call[s].at = "live" /\ call[s].method # "purge"
  BY DEF directMutation, At
<1>3. /\ call[s].method \in Direct /\ call[s].inst \in Instances /\ call[s].done = 0
      /\ call[s].vmid \in Vmids
  BY <1>1, <1>2 DEF CallFits
<1>4. CASE ~assertLiveOwnership(s)
  BY <1>2, <1>3, <1>4, AnswerLooks DEF directMutation, Answer, Answers
<1>5. CASE assertLiveOwnership(s)
  <2>1. PICK p : p = <<call[s].method>>
    OBVIOUS
  <2>2. PICK d : d = [call[s] EXCEPT !.at = "post", !.posts = p]
    OBVIOUS
  <2>3. call' = [call EXCEPT ![s] = d]
    BY <1>1, <1>5, <2>1, <2>2 DEF directMutation
  <2>4. "post" \in Ats /\ p \in Seq(Effects)
    BY <1>3, <2>1 DEF Ats, Effects, Direct
  <2>5. Continues(call[s], d) /\ d.at = "post" /\ d.vmid = call[s].vmid /\ d.posts = p
    BY <1>1, <2>2, <2>4 DEF Continues, CallRecords
  <2>6. PostsFit(d)
    BY <1>3, <2>1, <2>5 DEF PostsFit, Continues, Direct, SingleEffects
  <2>7. CallFits(d)
    BY <1>1, <1>2, <1>3, <2>5, <2>6 DEF CallFits, Continues
  <2> QED
    BY <1>2, <1>3, <1>5, <2>3, <2>5, <2>7, GoesOn DEF Looks, Places, assertLiveOwnership
<1> QED
  BY <1>3, <1>4, <1>5

LEMMA PurgeOwnedLooks ==
  ASSUME Typed, CallsFit, NEW s \in Slots, PurgeOwned(s)
  PROVE  Looks(s) /\ call'[s].at # "post"
<1>1. call[s] \in CallRecords /\ call \in [Slots -> CallRecords] /\ CallFits(call[s])
  BY DEF Typed, CallsFit
<1>2. call[s].at = "live" /\ call[s].method = "purge"
  BY DEF PurgeOwned, At
<1>3. call[s].inst \in Instances /\ call[s].done = 0
  BY <1>1, <1>2 DEF CallFits
<1>4. CASE ~assertLiveOwnership(s)
  BY <1>2, <1>3, <1>4, AnswerLooks DEF PurgeOwned, Answer, Answers
<1>5. CASE assertLiveOwnership(s)
  <2>1. PICK d : d = [call[s] EXCEPT !.at = "state"]
    OBVIOUS
  <2>2. call' = [call EXCEPT ![s] = d]
    BY <1>1, <1>5, <2>1 DEF PurgeOwned, Goto
  <2>3. "state" \in Ats
    BY DEF Ats
  <2>4. Continues(call[s], d) /\ d.at = "state"
    BY <1>1, <2>1, <2>3 DEF Continues, CallRecords
  <2>5. CallFits(d)
    BY <1>1, <1>2, <1>3, <2>4 DEF CallFits, Continues
  <2> QED
    BY <1>2, <1>3, <2>2, <2>4, <2>5, GoesOn DEF Looks, Places
<1> QED
  BY <1>4, <1>5

LEMMA observeStateLooks ==
  ASSUME Typed, CallsFit, NEW s \in Slots, observeState(s)
  PROVE  Looks(s) /\ call'[s].at # "post"
<1>1. call[s].at = "refresh" /\ \E a \in Answers : call' = [call EXCEPT ![s] = Answered(call[s], a)]
  BY DEF observeState, At, Answer, Answers
<1>2. call[s].done = 0
  BY <1>1 DEF CallsFit, CallFits
<1> QED
  BY <1>1, <1>2, AnswerLooks

LEMMA readStateLooks ==
  ASSUME Typed, CallsFit, NEW s \in Slots, readState(s)
  PROVE  Looks(s) /\ call'[s].at # "post"
<1>1. call[s] \in CallRecords /\ call \in [Slots -> CallRecords] /\ CallFits(call[s])
  BY DEF Typed, CallsFit
<1>2. call[s].at = "state"
  BY DEF readState, At
<1>3. call[s].inst \in Instances /\ call[s].method \in CallNames /\ call[s].done = 0
  BY <1>1, <1>2 DEF CallFits
<1>4. \/ \E a \in Answers : call' = [call EXCEPT ![s] = Answered(call[s], a)]
      \/ call' = [call EXCEPT ![s].at = "plan", ![s].vmid = tfstate[call[s].inst].vmid]
  BY DEF readState, Answer, Answers
<1>5. CASE \E a \in Answers : call' = [call EXCEPT ![s] = Answered(call[s], a)]
  BY <1>2, <1>3, <1>5, AnswerLooks
<1>6. CASE call' = [call EXCEPT ![s].at = "plan", ![s].vmid = tfstate[call[s].inst].vmid]
  <2>1. PICK v : v = tfstate[call[s].inst].vmid
    OBVIOUS
  <2>2. PICK d : d = [call[s] EXCEPT !.at = "plan", !.vmid = v]
    OBVIOUS
  <2>3. call' = [call EXCEPT ![s] = d]
    BY <1>1, <1>6, <2>1, <2>2
  <2>4. tfstate[call[s].inst] \in States
    BY <1>3 DEF Typed
  <2>5. "plan" \in Ats /\ v \in Nullable(Vmids)
    BY <2>1, <2>4 DEF Ats, States
  <2>6. Continues(call[s], d) /\ d.at = "plan"
    BY <1>1, <2>2, <2>5 DEF Continues, CallRecords
  <2>7. CallFits(d)
    BY <1>1, <1>2, <1>3, <2>6 DEF CallFits, Continues
  <2> QED
    BY <1>2, <1>3, <2>3, <2>6, <2>7, GoesOn DEF Looks, Places
<1> QED
  BY <1>4, <1>5, <1>6

LEMMA ProbesInRange ==
  ASSUME NEW i \in Instances, NEW k \in Nat
  PROVE  ProbeAt(i, k) \in Vmids
<1>1. SeedOf[i] + k \in Nat /\ Size \in Nat /\ Size > 0
  BY PortAssumption
<1>2. \A a \in Nat : a % Size \in 0..(Size - 1)
  BY <1>1
<1> QED
  BY <1>1, <1>2 DEF ProbeAt, Vmids

(* What a call declares.                                                   *)
LEMMA WantedTyped ==
  ASSUME NEW i \in Instances, tfstate[i] \in States, NEW m, NEW z \in Nat
  PROVE  Wanted(i, m, z).power \in Powers /\ Wanted(i, m, z).disk \in Nat
<1>1. tfstate[i].power \in Powers /\ tfstate[i].disk \in Nat
  BY DEF States
<1>2. "running" \in Powers /\ "stopped" \in Powers
  BY DEF Powers
<1> QED
  BY <1>1, <1>2 DEF Wanted, DeclareRetained, DeclareResize

LEMMA startApplyLooks ==
  ASSUME Typed, CallsFit, NEW s \in Slots, startApply(s)
  PROVE  Looks(s) /\ call'[s].at # "post"
<1>1. call[s] \in CallRecords /\ call \in [Slots -> CallRecords] /\ CallFits(call[s])
  BY DEF Typed, CallsFit
<1>2. call[s].at = "plan"
  BY DEF startApply, At
<1>3. call[s].inst \in Instances /\ call[s].method \in CallNames /\ call[s].done = 0
  BY <1>1, <1>2 DEF CallFits
<1>4. PICK want : want = Wanted(call[s].inst, call[s].method, call[s].disk)
  OBVIOUS
<1>5. want.power \in Powers /\ want.disk \in Nat
  <2>1. tfstate[call[s].inst] \in States /\ call[s].disk \in Nat
    BY <1>1, <1>3 DEF Typed, CallRecords
  <2> QED
    BY <1>3, <1>4, <2>1, WantedTyped
<1>6. PICK v : v = IF call[s].method = "create" THEN vmIdFor(call[s].inst) ELSE call[s].vmid
  OBVIOUS
<1>7. v \in Nullable(Vmids)
  <2>1. vmIdFor(call[s].inst) \in Vmids
    BY <1>3, ProbesInRange DEF vmIdFor
  <2> QED
    BY <1>1, <1>6, <2>1 DEF CallRecords, Nullable
<1>8. PICK p \in Plans(call[s].inst, want, call[s].method = "purge") :
        IF call[s].method = "configure" THEN converged(s, p)
        ELSE call' = [call EXCEPT ![s].at = "begin", ![s].gate = p.gate, ![s].vmid = v,
                                  ![s].power = want.power, ![s].disk = want.disk]
  BY <1>4, <1>6 DEF startApply
<1>9. CASE call[s].method = "configure"
  BY <1>2, <1>3, <1>8, <1>9, AnswerLooks DEF converged, Answer, Answers
<1>10. CASE call[s].method # "configure"
  <2>1. PICK d : d = [call[s] EXCEPT !.at = "begin", !.gate = p.gate, !.vmid = v,
                                     !.power = want.power, !.disk = want.disk]
    OBVIOUS
  <2>2. call' = [call EXCEPT ![s] = d]
    BY <1>1, <1>8, <1>10, <2>1
  <2>3. "begin" \in Ats /\ p.gate \in Gates
    BY <1>8 DEF Ats, Plans, evaluatePlan, Gates
  <2>4. Continues(call[s], d) /\ d.at = "begin"
    BY <1>1, <1>5, <1>7, <2>1, <2>3 DEF Continues, CallRecords
  <2>5. CallFits(d)
    BY <1>1, <1>2, <1>3, <2>4 DEF CallFits, Continues
  <2> QED
    BY <1>2, <1>3, <2>2, <2>4, <2>5, GoesOn DEF Looks, Places
<1> QED
  BY <1>9, <1>10

(* The token that passed the fence is the newest of the runs there are.    *)
LEMMA beginRunLooks ==
  ASSUME Typed, CallsFit, NEW s \in Slots, beginRun(s)
  PROVE  /\ Looks(s) /\ call'[s].at # "post"
         /\ call'[s].at = "insert" =>
              /\ call'[s].seen = Len(run) /\ call'[s].token = call[s].token
              /\ call[s].token = lease[call[s].inst]
<1>1. call[s] \in CallRecords /\ call \in [Slots -> CallRecords] /\ CallFits(call[s])
  BY DEF Typed, CallsFit
<1>2. call[s].at = "begin"
  BY DEF beginRun, At
<1>3. call[s].inst \in Instances /\ call[s].method \in CallNames /\ call[s].done = 0
  BY <1>1, <1>2 DEF CallFits
<1>4. CASE ~assertFencingToken(s)
  BY <1>2, <1>3, <1>4, AnswerLooks DEF beginRun, Answer, Answers
<1>5. CASE assertFencingToken(s)
  <2>1. PICK n : n = Len(run)
    OBVIOUS
  <2>2. PICK d : d = [call[s] EXCEPT !.at = "insert", !.seen = n]
    OBVIOUS
  <2>3. call' = [call EXCEPT ![s] = d]
    BY <1>1, <1>5, <2>1, <2>2 DEF beginRun
  <2>4. "insert" \in Ats /\ n \in Nat
    BY <2>1 DEF Ats, Typed
  <2>5. Continues(call[s], d) /\ d.at = "insert" /\ d.seen = n
    BY <1>1, <2>2, <2>4 DEF Continues, CallRecords
  <2>6. CallFits(d)
    BY <1>1, <1>2, <1>3, <2>5 DEF CallFits, Continues
  <2> QED
    BY <1>2, <1>3, <1>5, <2>1, <2>3, <2>5, <2>6, GoesOn DEF Looks, Places, assertFencingToken, Continues
<1> QED
  BY <1>4, <1>5

LEMMA insertRunLooks ==
  ASSUME Typed, CallsFit, NEW s \in Slots, insertRun(s)
  PROVE  /\ Looks(s) /\ call'[s].at \in {"answered", "refuse"}
         /\ call'[s].at = "refuse" => call'[s].seen = Len(run) + 1
<1>1. call[s] \in CallRecords /\ call \in [Slots -> CallRecords] /\ CallFits(call[s])
  BY DEF Typed, CallsFit
<1>2. call[s].at = "insert"
  BY DEF insertRun, At
<1>3. call[s].inst \in Instances /\ call[s].method \in CallNames /\ call[s].done = 0
  BY <1>1, <1>2 DEF CallFits
<1>4. \/ \E a \in Answers : call' = [call EXCEPT ![s] = Answered(call[s], a)]
      \/ call' = [call EXCEPT ![s].at = "refuse", ![s].seen = Len(run) + 1]
  BY DEF insertRun, Answer, Answers, UnreadableAnswer
<1>5. CASE \E a \in Answers : call' = [call EXCEPT ![s] = Answered(call[s], a)]
  BY <1>2, <1>3, <1>5, AnswerLooks
<1>6. CASE call' = [call EXCEPT ![s].at = "refuse", ![s].seen = Len(run) + 1]
  <2>1. PICK n \in Nat : n = Len(run) + 1
    BY DEF Typed
  <2>2. PICK d : d = [call[s] EXCEPT !.at = "refuse", !.seen = n]
    OBVIOUS
  <2>3. call' = [call EXCEPT ![s] = d]
    BY <1>1, <1>6, <2>1, <2>2
  <2>4. "refuse" \in Ats
    BY DEF Ats
  <2>5. Continues(call[s], d) /\ d.at = "refuse" /\ d.seen = n
    BY <1>1, <2>1, <2>2, <2>4 DEF Continues, CallRecords
  <2>6. CallFits(d)
    BY <1>1, <1>2, <1>3, <2>5 DEF CallFits, Continues
  <2> QED
    BY <1>2, <1>3, <2>1, <2>3, <2>5, <2>6, GoesOn DEF Looks, Places
<1> QED
  BY <1>4, <1>5, <1>6

LEMMA completeRefusedLooks ==
  ASSUME Typed, CallsFit, NEW s \in Slots, completeRefused(s)
  PROVE  Looks(s) /\ call'[s].at = "answered" /\ call[s].at = "refuse"
<1>1. call[s].at = "refuse" /\ \E a \in Answers : call' = [call EXCEPT ![s] = Answered(call[s], a)]
  BY DEF completeRefused, At, Answer, Answers, UnreadableAnswer
<1>2. call[s].done = 0
  BY <1>1 DEF CallsFit, CallFits
<1> QED
  BY <1>1, <1>2, AnswerLooks

LEMMA BackendUnreachableLooks ==
  ASSUME Typed, CallsFit, NEW s \in Slots, BackendUnreachable(s)
  PROVE  Looks(s) /\ call'[s].at = "answered"
<1>1. {"unavailable", "internal"} \subseteq Answers /\ LostAnswer \cup UnreadableAnswer \subseteq Answers
  BY DEF Answers, LostAnswer, UnreadableAnswer
<1>2. /\ {"refresh", "state", "plan"} \cap {"free", "post", "answered"} = {}
      /\ {"live"} \cap {"free", "post", "answered"} = {}
  OBVIOUS
<1> QED
  BY <1>1, <1>2, QueryFailsLooks DEF BackendUnreachable

-----------------------------------------------------------------------------
(* The cluster.                                                            *)

(* What a request and the end of a task do to a VM.                        *)
LEMMA FreeTyped == Free \in VMs /\ Free.owner = None /\ Free.job = "none"
BY DEF Free, VMs, Nullable, Powers, Jobs

LEMMA CarriedOutFacts ==
  ASSUME NEW v \in Vmids, vm[v] \in VMs, NEW e \in Effects, NEW i \in Instances, NEW z \in Nat
  PROVE  /\ CarriedOut(v, e, i, z) \in VMs
         /\ e = "clone" => CarriedOut(v, e, i, z).owner = i
         /\ e # "clone" => CarriedOut(v, e, i, z).owner = vm[v].owner
         /\ e \in {"config", "grow"} => CarriedOut(v, e, i, z).job = vm[v].job
         /\ e \in SingleEffects => CarriedOut(v, e, i, z).job = e
<1>1. /\ vm[v].owner \in Nullable(Instances) /\ vm[v].power \in Powers
      /\ vm[v].job \in Jobs /\ vm[v].disk \in Nat
  BY DEF VMs
<1>2. CASE e = "clone"
  BY <1>2 DEF CarriedOut, VMs, Nullable, Powers, Jobs, LockingJobs, SingleEffects
<1>3. CASE e = "config"
  BY <1>3 DEF CarriedOut, SingleEffects
<1>4. CASE e = "grow"
  BY <1>4 DEF CarriedOut, VMs, SingleEffects
<1>5. CASE e = "destroy"
  <2>1. PICK p \in Powers : p = IF vm[v].job = "stop" THEN "stopped" ELSE vm[v].power
    BY <1>1 DEF Powers
  <2>2. "destroy" \in Jobs
    BY DEF Jobs
  <2>3. CarriedOut(v, e, i, z) = [vm[v] EXCEPT !.job = "destroy", !.power = p]
    BY <1>5, <2>1 DEF CarriedOut
  <2> QED
    BY <1>5, <2>2, <2>3 DEF VMs, SingleEffects
<1>6. CASE e \in SingleEffects
  <2>1. e \in Jobs
    BY <1>6 DEF SingleEffects, Jobs, LockingJobs
  <2>2. CarriedOut(v, e, i, z) = [vm[v] EXCEPT !.job = e]
    BY <1>6 DEF SingleEffects, CarriedOut
  <2> QED
    BY <1>6, <2>1, <2>2 DEF VMs, SingleEffects
<1> QED
  BY <1>2, <1>3, <1>4, <1>5, <1>6 DEF Effects, SingleEffects

LEMMA TaskEndFacts ==
  ASSUME NEW v \in Vmids, vm[v] \in VMs, vm[v].job # "none", NEW w \in {Finished(v), TaskFails(v)}
  PROVE  /\ w \in VMs /\ w.job = "none"
         /\ w.owner \in {vm[v].owner, None}
         /\ vm[v].job \notin {"clone", "destroy"} => w.owner = vm[v].owner
<1>1. "none" \in Jobs /\ "running" \in Powers /\ "stopped" \in Powers
  BY DEF Jobs, Powers
<1>2. ASSUME NEW p \in Powers
      PROVE  /\ [vm[v] EXCEPT !.job = "none", !.power = p] \in VMs
             /\ [vm[v] EXCEPT !.job = "none", !.power = p].job = "none"
             /\ [vm[v] EXCEPT !.job = "none", !.power = p].owner = vm[v].owner
  BY <1>1 DEF VMs
<1>3. /\ [vm[v] EXCEPT !.job = "none"] \in VMs /\ [vm[v] EXCEPT !.job = "none"].job = "none"
      /\ [vm[v] EXCEPT !.job = "none"].owner = vm[v].owner
  BY <1>1 DEF VMs
<1>4. CASE w = TaskFails(v)
  BY <1>3, <1>4, FreeTyped DEF TaskFails
<1>5. CASE w = Finished(v)
  BY <1>1, <1>2, <1>3, <1>5, FreeTyped DEF Finished
<1> QED
  BY <1>4, <1>5

(* A request that was not carried out ends its handler; one that was is    *)
(* followed by the answer or, for the first of two, by the second.         *)
Sent(s) ==
  LET e == Head(call[s].posts) v == call[s].vmid IN
  /\ Accepts(v, e) /\ vm' = [vm EXCEPT ![v] = CarriedOut(v, e, call[s].inst, call[s].disk)]
  /\ call'[s].done = call[s].done + 1
  /\ \/ call'[s].at = "answered"
     \/ e = "config" /\ call'[s].posts = <<"grow">>
     \/ e = "stop" /\ call'[s].posts = <<"destroy">>
NotSent(s) == vm' = vm /\ call'[s].at = "answered" /\ call'[s].done = call[s].done

LEMMA PostEffects ==
  ASSUME NEW c, PostsFit(c)
  PROVE  /\ Head(c.posts) \in Effects
         /\ c.method = "create" <=> Head(c.posts) = "clone"
         /\ c.done = 0 \/ (c.done = 1 /\ c.method \in {"resize", "purge"})
         /\ Len(c.posts) > 1 =>
              /\ c.done = 0
              /\ \/ c.method = "resize" /\ Head(c.posts) = "config" /\ Tail(c.posts) = <<"grow">>
                 \/ c.method = "purge" /\ Head(c.posts) = "stop" /\ Tail(c.posts) = <<"destroy">>
         /\ c.method \in Direct => Head(c.posts) \in SingleEffects
<1>1. ASSUME NEW e PROVE Head(<<e>>) = e /\ Len(<<e>>) = 1
  OBVIOUS
<1>2. ASSUME NEW e, NEW f PROVE Head(<<e, f>>) = e /\ Tail(<<e, f>>) = <<f>> /\ Len(<<e, f>>) = 2
  OBVIOUS
<1>3. CASE c.method = "create" /\ c.posts = <<"clone">> /\ c.done = 0
  BY <1>1, <1>3 DEF Effects, Direct
<1>4. CASE c.method \in {"configure", "retain"} /\ c.posts = <<"config">> /\ c.done = 0
  BY <1>1, <1>4 DEF Effects, Direct
<1>5. CASE c.method = "resize" /\ c.posts \in {<<"config">>, <<"config", "grow">>} /\ c.done = 0
  <2>1. CASE c.posts = <<"config">>
    BY <1>1, <1>5, <2>1 DEF Effects, Direct
  <2>2. CASE c.posts = <<"config", "grow">>
    BY <1>2, <1>5, <2>2 DEF Effects, Direct
  <2> QED
    BY <1>5, <2>1, <2>2
<1>6. CASE c.method = "resize" /\ c.posts = <<"grow">> /\ c.done = 1
  BY <1>1, <1>6 DEF Effects, Direct
<1>7. CASE c.method = "purge" /\ c.posts = <<"stop", "destroy">> /\ c.done = 0
  BY <1>2, <1>7 DEF Effects, Direct
<1>8. CASE c.method = "purge" /\ c.posts = <<"destroy">> /\ c.done \in {0, 1}
  BY <1>1, <1>8 DEF Effects, Direct
<1>9. CASE /\ c.method \in {"start", "shutdown", "stop", "reboot", "snapshot", "rollback", "unsnapshot"}
           /\ (\E e \in SingleEffects : c.posts = <<e>>) /\ c.done = 0
  <2>1. PICK e \in SingleEffects : c.posts = <<e>>
    BY <1>9
  <2>2. Head(c.posts) = e /\ Len(c.posts) = 1
    BY <1>1, <2>1
  <2> QED
    BY <1>9, <2>2 DEF Effects, SingleEffects
<1> QED
  BY <1>3, <1>4, <1>5, <1>6, <1>7, <1>8, <1>9 DEF PostsFit

LEMMA PostMoves ==
  ASSUME Typed, CallsFit, NEW s \in Slots, Post(s)
  PROVE  /\ Moves(s) /\ call[s].at = "post" /\ call'[s].vmid = call[s].vmid
         /\ Sent(s) \/ NotSent(s)
<1>1. call[s] \in CallRecords /\ call \in [Slots -> CallRecords] /\ CallFits(call[s])
  BY DEF Typed, CallsFit
<1>2. call[s].at = "post"
  BY DEF Post, At
<1>3. /\ call[s].inst \in Instances /\ call[s].method \in CallNames /\ call[s].vmid \in Vmids
      /\ PostsFit(call[s])
  BY <1>1, <1>2 DEF CallFits
<1>4. PICK e : e = Head(call[s].posts)
  OBVIOUS
<1>5. PICK D : D = [call[s] EXCEPT !.done = call[s].done + 1]
  OBVIOUS
<1>6. /\ D \in CallRecords /\ D.done = call[s].done + 1 /\ call[s].done + 1 \in Nat
      /\ D.at = "post" /\ D.inst = call[s].inst /\ D.method = call[s].method
      /\ D.vmid = call[s].vmid /\ D.posts = call[s].posts /\ D.answer = call[s].answer
      /\ D.live = call[s].live /\ D.alone = call[s].alone /\ D.token = call[s].token
      /\ D.garbled = call[s].garbled
  <2>1. PICK n \in Nat : n = call[s].done + 1
    BY <1>1 DEF CallRecords
  <2>2. D = [call[s] EXCEPT !.done = n]
    BY <1>5, <2>1
  <2>3. D \in CallRecords
    BY <1>1, <2>2 DEF CallRecords
  <2>4. D.live = call[s].live /\ D.alone = call[s].alone /\ D.garbled = call[s].garbled
    BY <1>1, <2>2 DEF CallRecords
  <2> QED
    BY <1>1, <1>2, <2>1, <2>2, <2>3, <2>4 DEF CallRecords
<1>7. PICK G : G = [D EXCEPT !.garbled = TRUE]
  OBVIOUS
<1>8. /\ G \in CallRecords /\ G.done = call[s].done + 1 /\ G.garbled
       /\ G.inst = call[s].inst /\ G.method = call[s].method
       /\ G.vmid = call[s].vmid
       /\ G.live = call[s].live /\ G.alone = call[s].alone
  <2>1. PICK b \in BOOLEAN : b = TRUE
    OBVIOUS
  <2>2. G = [D EXCEPT !.garbled = b]
    BY <1>7, <2>1
  <2>3. G \in CallRecords
    BY <1>6, <2>2 DEF CallRecords
  <2>4. G.garbled = b /\ G.live = D.live /\ G.alone = D.alone
    BY <1>6, <2>2 DEF CallRecords
  <2>5. G.done = D.done /\ G.inst = D.inst /\ G.method = D.method /\ G.vmid = D.vmid
    BY <1>6, <2>2 DEF CallRecords
  <2> QED
    BY <1>6, <2>1, <2>3, <2>4, <2>5
<1>9. \/ /\ Accepts(call[s].vmid, e)
         /\ vm' = [vm EXCEPT ![call[s].vmid] = CarriedOut(call[s].vmid, e, call[s].inst, call[s].disk)]
         /\ \/ Len(call[s].posts) > 1 /\ call' = [call EXCEPT ![s] = [D EXCEPT !.posts = Tail(call[s].posts)]]
            \/ \E a \in {"accepted", "succeeded", "unavailable"} : call' = [call EXCEPT ![s] = Answered(D, a)]
            \/ \E a \in UnreadableAnswer : call' = [call EXCEPT ![s] = Answered(G, a)]
      \/ vm' = vm /\ \E a \in HttpRefusal : call' = [call EXCEPT ![s] = Answered(call[s], a)]
  BY <1>4, <1>5, <1>6, <1>7 DEF Post, Completion, LostAnswer, Answer, HttpRefusal
<1>10. CASE vm' = vm /\ \E a \in HttpRefusal : call' = [call EXCEPT ![s] = Answered(call[s], a)]
  <2>1. PICK a \in HttpRefusal : call' = [call EXCEPT ![s] = Answered(call[s], a)]
    BY <1>10
  <2>2. a \in Answers
    BY DEF HttpRefusal, Answers, LostAnswer
  <2>3. Looks(s) /\ call'[s].at = "answered"
    BY <1>2, <1>3, <2>1, <2>2, PostEffects, AnswerLooks
  <2>4. call'[s].vmid = call[s].vmid
    BY <1>1, <2>1, <2>2, AnsweredFields
  <2> QED
    BY <1>2, <1>10, <2>3, <2>4 DEF Looks, NotSent
<1>11. ASSUME NEW a \in {"accepted", "succeeded", "unavailable"}, call' = [call EXCEPT ![s] = Answered(D, a)]
      PROVE  /\ Moves(s) /\ call'[s].vmid = call[s].vmid
             /\ call'[s].at = "answered" /\ call'[s].done = call[s].done + 1
  <2>1. a \in Answers /\ ~Refused(a)
    BY NotRefusals DEF Answers, LostAnswer
  <2>2. PICK d : d = Answered(D, a)
    OBVIOUS
  <2>3. call'[s] = d /\ \A t \in Slots : t # s => call'[t] = call[t]
    BY <1>1, <1>11, <2>2
  <2>4. /\ d \in CallRecords /\ d.at = "answered" /\ d.answer = a
        /\ d.inst = call[s].inst /\ d.method = call[s].method
        /\ d.vmid = call[s].vmid /\ d.done = call[s].done + 1
        /\ d.live = call[s].live /\ d.alone = call[s].alone /\ d.token = 0
    BY <1>6, <2>1, <2>2, AnsweredFields
  <2>5. call' \in [Slots -> CallRecords]
    BY <1>1, <1>11, <2>2, <2>4
  <2>6. CallFits(d)
    BY <1>3, <2>1, <2>4 DEF CallFits
  <2> QED
    BY <1>2, <2>3, <2>4, <2>5, <2>6 DEF Moves
<1>12. ASSUME NEW a \in UnreadableAnswer, call' = [call EXCEPT ![s] = Answered(G, a)]
       PROVE  /\ Moves(s) /\ call'[s].vmid = call[s].vmid
              /\ call'[s].at = "answered" /\ call'[s].done = call[s].done + 1
  <2>1. a \in Answers
    BY DEF Answers, UnreadableAnswer
  <2>2. PICK d : d = Answered(G, a)
    OBVIOUS
  <2>3. call'[s] = d /\ \A t \in Slots : t # s => call'[t] = call[t]
    BY <1>1, <1>12, <2>2
  <2>4. /\ d \in CallRecords /\ d.at = "answered" /\ d.answer = a /\ d.garbled
        /\ d.inst = call[s].inst /\ d.method = call[s].method
        /\ d.vmid = call[s].vmid /\ d.done = call[s].done + 1
        /\ d.live = call[s].live /\ d.alone = call[s].alone /\ d.token = 0
    BY <1>8, <2>1, <2>2, AnsweredFields
  <2>5. call' \in [Slots -> CallRecords]
    BY <1>1, <1>12, <2>2, <2>4
  <2>6. CallFits(d)
    BY <1>3, <2>1, <2>4 DEF CallFits
  <2> QED
    BY <1>2, <2>3, <2>4, <2>5, <2>6 DEF Moves
<1>13. ASSUME Len(call[s].posts) > 1, call' = [call EXCEPT ![s] = [D EXCEPT !.posts = Tail(call[s].posts)]]
       PROVE  /\ Moves(s) /\ call'[s].vmid = call[s].vmid /\ call'[s].done = call[s].done + 1
              /\ \/ e = "config" /\ call'[s].posts = <<"grow">>
                 \/ e = "stop" /\ call'[s].posts = <<"destroy">>
  <2>1. /\ call[s].done = 0
        /\ \/ call[s].method = "resize" /\ e = "config" /\ Tail(call[s].posts) = <<"grow">>
           \/ call[s].method = "purge" /\ e = "stop" /\ Tail(call[s].posts) = <<"destroy">>
    BY <1>3, <1>4, <1>13, PostEffects
  <2>2. PICK p : p = Tail(call[s].posts)
    OBVIOUS
  <2>3. PICK d : d = [D EXCEPT !.posts = p]
    OBVIOUS
  <2>4. <<"grow">> \in Seq(Effects) /\ <<"destroy">> \in Seq(Effects)
    BY DEF Effects
  <2>5. p \in Seq(Effects)
    BY <2>1, <2>2, <2>4
  <2>6. /\ d \in CallRecords /\ d.posts = p /\ d.at = "post"
        /\ d.inst = call[s].inst /\ d.method = call[s].method
        /\ d.vmid = call[s].vmid /\ d.done = call[s].done + 1 /\ d.answer = call[s].answer
        /\ d.live = call[s].live /\ d.alone = call[s].alone /\ d.token = call[s].token
    BY <1>6, <2>3, <2>5 DEF CallRecords
  <2>7. call'[s] = d /\ call' \in [Slots -> CallRecords] /\ \A t \in Slots : t # s => call'[t] = call[t]
    BY <1>1, <1>13, <2>2, <2>3, <2>6
  <2>8. PostsFit(d)
    BY <2>1, <2>2, <2>6 DEF PostsFit
  <2>9. CallFits(d)
    BY <1>1, <1>2, <1>3, <2>6, <2>8, NotRefusals DEF CallFits
  <2> QED
    BY <1>2, <2>1, <2>2, <2>6, <2>7, <2>9 DEF Moves
<1> QED
  BY <1>2, <1>4, <1>9, <1>10, <1>11, <1>13, <1>12 DEF Sent

-----------------------------------------------------------------------------
(* What the handlers' steps keep.                                          *)

LEMMA MovesKeepCalls ==
  ASSUME AInv, NEW s \in Slots, Moves(s), UNCHANGED waiting
  PROVE  CallsFit' /\ SoleHandlers'
<1>1. \A t \in Slots : CallFits(call'[t])
  BY DEF AInv, CallsFit, Moves
<1>2. \A t \in Slots : /\ call'[t].inst = call[t].inst
                       /\ call'[t].live = call[t].live /\ call'[t].alone = call[t].alone
  BY DEF Moves
<1>3. SoleHandlers'
  BY <1>2 DEF AInv, SoleHandlers, Sole
<1>4. CallsFit'
  BY <1>1 DEF CallsFit
<1> QED
  BY <1>3, <1>4

(* A handler that began alone shares its instance with no other.           *)
LEMMA AloneMeansAlone ==
  ASSUME SoleHandlers, NEW t \in Slots, Guarded(t), NEW s \in Slots, s # t
  PROVE  call[s].inst # call[t].inst
BY DEF SoleHandlers, Sole, Guarded

LEMMA LooksKeepUndisturbed ==
  ASSUME AInv, NEW s \in Slots, Looks(s), UNCHANGED <<vm, adapter>>,
         \A r \in DOMAIN run' : job'[r].at \in {"plan", "apply"} =>
           \/ r \in Runs /\ run'[r].inst = run[r].inst /\ job[r].at \in {"plan", "apply"}
           \/ run'[r].inst = call[s].inst /\ call'[s].at = "answered"
  PROVE  UndisturbedHandlers'
<1>1. Typed /\ CallsFit /\ SoleHandlers /\ UndisturbedHandlers
  BY DEF AInv
<1>2. SUFFICES ASSUME NEW t \in Slots, Guarded(t)'
               PROVE  Undisturbed(t)'
  BY DEF UndisturbedHandlers, Undisturbed
<1>3. Moves(s)
  BY DEF Looks
<1>4. CASE t = s
  <2>1. Guarded(s) /\ call[s].at # "post" /\ call'[s].vmid = call[s].vmid /\ call[s].method # "create"
        /\ call'[s].at # "answered" /\ call'[s].inst = call[s].inst
    BY <1>2, <1>4 DEF Guarded, Looks, Moves, Places
  <2>2. Undisturbed(s)
    BY <1>1 DEF UndisturbedHandlers
  <2>3. call'[s].at \in {"status", "post"} => vm'[call'[s].vmid].owner = call'[s].inst
    BY <2>1, <2>2 DEF Undisturbed, Looks
  <2>4. (adapter' = "proxmox" /\ vm'[call'[s].vmid].owner = call'[s].inst) =>
          /\ vm'[call'[s].vmid].job = "none"
          /\ \A u \in Slots \ {s} : call'[u].vmid = call'[s].vmid => call'[u].at \notin {"status", "post"}
    BY <1>3, <2>1, <2>2 DEF Undisturbed, Moves
  <2>5. adapter' = "terraform" =>
          \A r \in DOMAIN run' : run'[r].inst = call'[s].inst => job'[r].at \notin {"plan", "apply"}
    BY <2>1, <2>2 DEF Undisturbed
  <2> QED
    BY <1>4, <2>3, <2>4, <2>5 DEF Undisturbed, Runs
<1>5. CASE t # s
  <2>1. call'[t] = call[t] /\ Guarded(t)
    BY <1>2, <1>3, <1>5 DEF Moves, Guarded
  <2>2. Undisturbed(t)
    BY <1>1 DEF UndisturbedHandlers
  <2>3. call[s].inst # call[t].inst
    BY <1>1, <1>5, <2>1, AloneMeansAlone
  <2>4. call[t].inst \in Instances /\ None \notin Instances
    BY <1>1, <2>1, PortAssumption DEF CallsFit, CallFits, Guarded
  <2>5. call'[t].at \in {"status", "post"} => vm'[call'[t].vmid].owner = call'[t].inst
    BY <2>1, <2>2 DEF Undisturbed
  <2>6. ASSUME adapter = "proxmox", vm[call[t].vmid].owner = call[t].inst
        PROVE  /\ \/ vm[call[t].vmid].job = "none"
                  \/ /\ vm[call[t].vmid].job = "stop" /\ call[t].at = "post"
                     /\ call[t].posts = <<"destroy">>
               /\ \A u \in Slots \ {t} : call'[u].vmid = call[t].vmid => call'[u].at \notin {"status", "post"}
    <3>1. /\ \/ vm[call[t].vmid].job = "none"
             \/ /\ vm[call[t].vmid].job = "stop" /\ call[t].at = "post"
                /\ call[t].posts = <<"destroy">>
          /\ \A u \in Slots \ {t} : call[u].vmid = call[t].vmid => call[u].at \notin {"status", "post"}
      BY <2>1, <2>2, <2>6 DEF Undisturbed
    <3>2. ASSUME call'[s].vmid = call[t].vmid, call'[s].at \in {"status", "post"}
          PROVE  FALSE
      <4>1. vm[call'[s].vmid].owner # call[s].inst
        BY <2>3, <2>6, <3>2
      <4>2. vm[call'[s].vmid] # Free
        BY <2>4, <2>6, <3>2, FreeTyped
      <4>3. call[s].at = "status" /\ call'[s].vmid = call[s].vmid
        BY <3>2, <4>1, <4>2 DEF Looks
      <4> QED
        BY <1>5, <3>1, <3>2, <4>3
    <3>3. \A u \in Slots \ {t} : u # s => call'[u] = call[u]
      BY <1>3 DEF Moves
    <3> QED
      BY <3>1, <3>2, <3>3
  <2>7. adapter' = "terraform" =>
          \A r \in DOMAIN run' : run'[r].inst = call'[t].inst => job'[r].at \notin {"plan", "apply"}
    BY <2>1, <2>2, <2>3 DEF Undisturbed
  <2> QED
    BY <2>1, <2>5, <2>6, <2>7 DEF Undisturbed, Runs
<1> QED
  BY <1>4, <1>5

LEMMA PostKeepsUndisturbed ==
  ASSUME AInv, NEW s \in Slots, Post(s), UNCHANGED <<run, job, adapter>>
  PROVE  UndisturbedHandlers'
<1>1. Typed /\ CallsFit /\ StatesFit /\ SoleHandlers /\ UndisturbedHandlers
  BY DEF AInv
<1>2. SUFFICES ASSUME NEW t \in Slots, Guarded(t)'
               PROVE  Undisturbed(t)'
  BY DEF UndisturbedHandlers, Undisturbed
<1>3. Moves(s) /\ call[s].at = "post" /\ call'[s].vmid = call[s].vmid /\ (Sent(s) \/ NotSent(s))
  BY <1>1, PostMoves
<1>4. PICK v : v = call[s].vmid
  OBVIOUS
<1>5. PICK e : e = Head(call[s].posts)
  OBVIOUS
<1>6. /\ v \in Vmids /\ call[s].inst \in Instances /\ PostsFit(call[s]) /\ e \in Effects
      /\ vm[v] \in VMs /\ call[s].disk \in Nat /\ vm \in [Vmids -> VMs]
  <2>1. call[s].vmid \in Vmids /\ call[s].inst \in Instances /\ PostsFit(call[s])
    BY <1>1, <1>3 DEF CallsFit, CallFits
  <2> QED
    BY <1>1, <1>4, <1>5, <2>1, PostEffects DEF Typed, CallRecords
<1>7. \A w \in Vmids : w # v => vm'[w] = vm[w]
  BY <1>3, <1>4, <1>6 DEF Sent, NotSent
<1>8. PICK k : k = CarriedOut(v, e, call[s].inst, call[s].disk)
  OBVIOUS
<1>9. /\ e = "clone" => k.owner = call[s].inst
      /\ e # "clone" => k.owner = vm[v].owner
      /\ e \in {"config", "grow"} => k.job = vm[v].job
      /\ e \in SingleEffects => k.job = e
  BY <1>6, <1>8, CarriedOutFacts
<1>10. Sent(s) => vm'[v] = k /\ Accepts(v, e)
  BY <1>4, <1>5, <1>6, <1>8 DEF Sent
<1>11. CASE t = s
  <2>1. Guarded(s) /\ call[s].method # "create" /\ call'[s].at # "answered" /\ call'[s].inst = call[s].inst
    BY <1>2, <1>3, <1>11 DEF Guarded, Moves
  <2>2. Undisturbed(s) /\ Sent(s)
    BY <1>1, <1>3, <2>1 DEF UndisturbedHandlers, NotSent
  <2>3. vm[v].owner = call[s].inst
    BY <1>3, <1>4, <2>1, <2>2 DEF Undisturbed
  <2>4. (e = "config" /\ call'[s].posts = <<"grow">>) \/ (e = "stop" /\ call'[s].posts = <<"destroy">>)
    BY <1>5, <2>1, <2>2 DEF Sent
  <2>5. vm'[v].owner = call[s].inst
    BY <1>9, <1>10, <2>2, <2>3, <2>4
  <2>6. e = "config" => vm'[v].job = "none"
    BY <1>9, <1>10, <2>2 DEF Accepts
  <2>7. e = "stop" => vm'[v].job = "stop"
    BY <1>9, <1>10, <2>2 DEF SingleEffects
  <2>8. call'[s].at = "post"
    <3>1. call'[s].posts # <<>>
      BY <2>4
    <3>2. call'[s].at \in {"owned", "status", "live", "post"} /\ CallFits(call'[s])
      BY <1>2, <1>3, <1>11 DEF Guarded, Moves
    <3>3. call'[s].done # 0
      BY <1>1, <2>2 DEF Sent, Typed, CallRecords
    <3> QED
      BY <3>2, <3>3 DEF CallFits
  <2>9. (adapter = "proxmox") =>
          \A u \in Slots \ {s} : call'[u].vmid = v => call'[u].at \notin {"status", "post"}
    BY <1>3, <1>4, <2>1, <2>2, <2>3 DEF Undisturbed, Moves
  <2>10. adapter = "terraform" =>
          \A r \in DOMAIN run : run[r].inst = call[s].inst => job[r].at \notin {"plan", "apply"}
    BY <2>1, <2>2 DEF Undisturbed, Runs
  <2> QED
    BY <1>3, <1>4, <1>11, <2>1, <2>4, <2>5, <2>6, <2>7, <2>8, <2>9, <2>10 DEF Undisturbed, Runs
<1>12. CASE t # s
  <2>1. call'[t] = call[t] /\ Guarded(t)
    BY <1>2, <1>3, <1>12 DEF Moves, Guarded
  <2>2. Undisturbed(t)
    BY <1>1 DEF UndisturbedHandlers
  <2>3. call[s].inst # call[t].inst
    BY <1>1, <1>12, <2>1, AloneMeansAlone
  <2>4. call[t].inst \in Instances /\ call[t].vmid \in Vmids /\ adapter \in {"proxmox", "terraform"}
    BY <1>1, <2>1 DEF CallsFit, CallFits, Guarded, Typed
  <2>5. ASSUME adapter = "proxmox", vm[call[t].vmid].owner = call[t].inst
        PROVE  call[t].vmid # v
    BY <1>3, <1>4, <1>12, <2>1, <2>2, <2>5 DEF Undisturbed
  <2>6. adapter = "terraform" => e # "clone"
    <3>1. adapter = "terraform" => call[s].method \in Direct
      BY <1>1, <1>3 DEF StatesFit
    <3> QED
      BY <1>5, <1>6, <3>1, PostEffects DEF SingleEffects
  <2>7. call[t].at \in {"status", "post"} => vm'[call[t].vmid].owner = call[t].inst
    <3>1. SUFFICES ASSUME call[t].at \in {"status", "post"}
                   PROVE  vm'[call[t].vmid].owner = call[t].inst
      OBVIOUS
    <3>2. vm[call[t].vmid].owner = call[t].inst
      BY <2>1, <2>2, <3>1 DEF Undisturbed
    <3>3. CASE call[t].vmid # v
      BY <1>7, <2>4, <3>2, <3>3
    <3>4. CASE call[t].vmid = v
      BY <1>3, <1>9, <1>10, <2>4, <2>5, <2>6, <3>2, <3>4 DEF NotSent
    <3> QED
      BY <3>3, <3>4
  <2>8. ASSUME adapter = "proxmox", vm'[call[t].vmid].owner = call[t].inst
        PROVE  vm[call[t].vmid].owner = call[t].inst /\ call[t].vmid # v
    <3>1. vm[call[t].vmid].owner = call[t].inst
      <4>1. CASE call[t].vmid # v
        BY <1>7, <2>4, <2>8, <4>1
      <4>2. CASE call[t].vmid = v
        BY <1>3, <1>9, <1>10, <2>3, <2>8, <4>2 DEF NotSent
      <4> QED
        BY <4>1, <4>2
    <3> QED
      BY <2>5, <2>8, <3>1
  <2>9. ASSUME adapter = "proxmox", vm'[call[t].vmid].owner = call[t].inst
        PROVE  /\ \/ vm'[call[t].vmid].job = "none"
                  \/ /\ vm'[call[t].vmid].job = "stop" /\ call[t].at = "post"
                     /\ call[t].posts = <<"destroy">>
               /\ \A u \in Slots \ {t} : call'[u].vmid = call[t].vmid => call'[u].at \notin {"status", "post"}
    <3>1. vm[call[t].vmid].owner = call[t].inst /\ call[t].vmid # v /\ vm'[call[t].vmid] = vm[call[t].vmid]
      BY <1>7, <2>4, <2>8, <2>9
    <3>2. \A u \in Slots \ {t} : call'[u].vmid = call[t].vmid => call'[u] = call[u]
      BY <1>3, <1>4, <3>1 DEF Moves
    <3> QED
      BY <2>1, <2>2, <2>9, <3>1, <3>2 DEF Undisturbed
  <2>10. adapter = "terraform" =>
          \A r \in DOMAIN run : run[r].inst = call[t].inst => job[r].at \notin {"plan", "apply"}
    BY <2>1, <2>2 DEF Undisturbed, Runs
  <2> QED
    BY <2>1, <2>7, <2>9, <2>10 DEF Undisturbed, Runs
<1> QED
  BY <1>11, <1>12

LEMMA MovesKeepTokens ==
  ASSUME AInv, NEW s \in Slots, Moves(s), UNCHANGED lease, Len(run') \in Nat, Len(run') >= Len(run),
         \A q \in 1..Len(run) : run'[q].inst = run[q].inst /\ run'[q].token = run[q].token,
         call'[s].at = "insert" =>
           /\ call'[s].seen = Len(run) /\ call'[s].token = call[s].token
           /\ call[s].token = lease[call[s].inst],
         call'[s].at = "refuse" => call'[s].seen \in 1..Len(run')
  PROVE  TokensFit'
<1>1. Typed /\ CallsFit /\ TokensFit /\ RunsFit
  BY DEF AInv
<1>2. SUFFICES ASSUME NEW t \in Slots PROVE TokenFits(call[t])'
  BY DEF TokensFit
<1>3. call[t] \in CallRecords /\ call[s] \in CallRecords /\ Len(run) \in Nat /\ run \in Seq(RunRecords)
  BY <1>1 DEF Typed
<1>4. TokenFits(call[t]) /\ TokenFits(call[s]) /\ call[t].seen \in Nat
  BY <1>1, <1>3 DEF TokensFit, CallRecords
<1>5. CASE t # s
  <2>1. call'[t] = call[t]
    BY <1>5 DEF Moves
  <2>2. call[t].at = "insert" =>
          /\ call[t].seen <= Len(run')
          /\ \A q \in 1..call[t].seen : run'[q].inst = call[t].inst => run'[q].token <= call[t].token
    <3>1. SUFFICES ASSUME call[t].at = "insert"
                   PROVE  /\ call[t].seen <= Len(run')
                          /\ \A q \in 1..call[t].seen :
                               run'[q].inst = call[t].inst => run'[q].token <= call[t].token
      OBVIOUS
    <3>2. /\ call[t].seen <= Len(run)
          /\ \A q \in 1..call[t].seen : run[q].inst = call[t].inst => run[q].token <= call[t].token
      BY <1>4, <3>1 DEF TokenFits
    <3>3. \A q \in 1..call[t].seen : q \in 1..Len(run)
      BY <1>3, <1>4, <3>2
    <3> QED
      BY <1>3, <1>4, <3>2, <3>3
  <2>3. call[t].at = "refuse" => call[t].seen \in 1..Len(run')
    BY <1>3, <1>4 DEF TokenFits
  <2> QED
    BY <1>4, <2>1, <2>2, <2>3 DEF TokenFits
<1>6. CASE t = s
  <2>1. call[s].at # "free" /\ call[s].inst \in Instances
    BY <1>1 DEF Moves, CallsFit, CallFits
  <2>2. call[s].token <= lease[call[s].inst] /\ 0 <= lease[call[s].inst]
    BY <1>1, <1>4, <2>1 DEF TokenFits, Typed
  <2>3. call'[s].inst = call[s].inst /\ call'[s].token <= lease'[call'[s].inst]
    BY <2>2 DEF Moves
  <2>4. ASSUME call'[s].at = "insert"
        PROVE  /\ call'[s].seen <= Len(run')
               /\ \A q \in 1..call'[s].seen : run'[q].inst = call[s].inst => run'[q].token <= call[s].token
    <3>1. \A q \in 1..Len(run) : run[q].token <= lease[run[q].inst]
      BY <1>1, <1>3 DEF RunsFit, RunFits, Runs
    <3> QED
      BY <1>3, <2>4, <3>1
  <2> QED
    BY <1>6, <2>3, <2>4 DEF TokenFits
<1> QED
  BY <1>5, <1>6

(* What is being refused goes on being refused.                            *)
LEMMA RefusalsStand ==
  ASSUME NEW r, NEW s \in Slots, StillRefusing(s), call[s].at = "refuse" => call[s].seen # r,
         Refusing(r)
  PROVE  Refusing(r)'
<1>1. PICK t \in Slots : call[t].at = "refuse" /\ call[t].seen = r
  BY DEF Refusing
<1>2. t # s
  BY <1>1
<1> QED
  BY <1>1, <1>2 DEF Refusing, StillRefusing

(* A step of a handler that only looks at the cluster.                     *)
LEMMA LooksKeep ==
  ASSUME AInv, NEW s \in Slots, Looks(s), call[s].at # "refuse", call'[s].at # "refuse",
         UNCHANGED <<vm, resource, waiting, lease, tfstate, run, job, stranded, adapter>>,
         (adapter = "terraform" /\ call'[s].at = "post") => call[s].method \in Direct,
         call'[s].at = "insert" =>
           /\ call'[s].seen = Len(run) /\ call'[s].token = call[s].token
           /\ call[s].token = lease[call[s].inst]
  PROVE  AInv'
<1>1. Typed /\ RunsFit /\ StatesFit /\ Moves(s)
  BY DEF AInv, Looks
<1>2. Typed'
  BY <1>1 DEF Typed, Moves
<1>3. CallsFit' /\ SoleHandlers'
  BY <1>1, MovesKeepCalls
<1>4. RunsFit'
  <2>1. \A r \in Runs : Refusing(r) => Refusing(r)'
    BY <1>1, RefusalsStand DEF Moves, StillRefusing
  <2> QED
    BY <1>1, <2>1 DEF RunsFit, RunFits, Runs
<1>5. TokensFit'
  <2>1. Len(run) \in Nat
    BY <1>1 DEF Typed
  <2> QED
    BY <1>1, <2>1, MovesKeepTokens
<1>6. StatesFit'
  <2>1. adapter = "terraform" => \A t \in Slots : call'[t].at = "post" => call'[t].method \in Direct
    BY <1>1 DEF StatesFit, Moves
  <2>2. \A r \in Runs : PlanFits(r) <=> PlanFits(r)'
    BY DEF PlanFits
  <2> QED
    BY <1>1, <2>1, <2>2 DEF StatesFit, Runs
<1>7. UndisturbedHandlers'
  BY LooksKeepUndisturbed DEF Runs
<1> QED
  BY <1>2, <1>3, <1>4, <1>5, <1>6, <1>7 DEF AInv

(* A request to Proxmox.                                                   *)
LEMMA PostKeeps ==
  ASSUME AInv, NEW s \in Slots, Post(s), UNCHANGED <<tfstate, run, job, stranded, adapter>>
  PROVE  AInv'
<1>1. Typed /\ CallsFit /\ RunsFit /\ StatesFit
  BY DEF AInv
<1>2. Moves(s) /\ call[s].at = "post" /\ call'[s].vmid = call[s].vmid /\ (Sent(s) \/ NotSent(s))
  BY <1>1, PostMoves
<1>3. UNCHANGED <<resource, waiting, lease>>
  BY DEF Post
<1>4. PICK v : v = call[s].vmid
  OBVIOUS
<1>5. PICK e : e = Head(call[s].posts)
  OBVIOUS
<1>6. /\ v \in Vmids /\ call[s].inst \in Instances /\ PostsFit(call[s]) /\ e \in Effects
      /\ vm[v] \in VMs /\ call[s].disk \in Nat /\ vm \in [Vmids -> VMs]
  <2>1. call[s].vmid \in Vmids /\ call[s].inst \in Instances /\ PostsFit(call[s])
    BY <1>1, <1>2 DEF CallsFit, CallFits
  <2> QED
    BY <1>1, <1>4, <1>5, <2>1, PostEffects DEF Typed, CallRecords
<1>7. PICK k : k = CarriedOut(v, e, call[s].inst, call[s].disk)
  OBVIOUS
<1>8. /\ k \in VMs
      /\ e # "clone" => k.owner = vm[v].owner
      /\ e \in SingleEffects => k.job = e
  BY <1>6, <1>7, CarriedOutFacts
<1>9. vm' = vm \/ vm' = [vm EXCEPT ![v] = k]
  BY <1>2, <1>4, <1>5, <1>7 DEF Sent, NotSent
<1>10. vm' \in [Vmids -> VMs]
  BY <1>6, <1>8, <1>9
<1>11. Typed'
  BY <1>1, <1>2, <1>3, <1>10 DEF Typed, Moves
<1>12. CallsFit' /\ SoleHandlers'
  BY <1>2, <1>3, MovesKeepCalls
<1>13. RunsFit'
  <2>1. \A r \in Runs : Refusing(r) => Refusing(r)'
    BY <1>2, RefusalsStand DEF Moves, StillRefusing
  <2> QED
    BY <1>1, <1>3, <2>1 DEF RunsFit, RunFits, Runs
<1>14. TokensFit'
  <2>1. Len(run) \in Nat
    BY <1>1 DEF Typed
  <2>2. call'[s].at \notin {"insert", "refuse"}
    <3>1. call'[s].at = "answered" \/ call'[s].done = call[s].done + 1
      BY <1>2 DEF Sent, NotSent
    <3>2. CallFits(call'[s]) /\ call[s].done \in Nat
      BY <1>1, <1>2 DEF Moves, Typed, CallRecords
    <3> QED
      BY <3>1, <3>2 DEF CallFits
  <2> QED
    BY <1>2, <1>3, <2>1, <2>2, MovesKeepTokens
<1>15. StatesFit'
  <2>1. SUFFICES ASSUME adapter = "terraform"
                 PROVE  /\ \A w \in Vmids : vm'[w].job \notin {"clone", "destroy"}
                        /\ \A t \in Slots : call'[t].at = "post" => call'[t].method \in Direct
                        /\ \A i \in Instances : tfstate[i].vmid # None => vm'[tfstate[i].vmid].owner = i
                        /\ \A r \in Runs : PlanFits(r)'
    BY <1>1 DEF StatesFit, Runs
  <2>2. call[s].method \in Direct /\ e \in SingleEffects
    BY <1>1, <1>2, <1>5, <1>6, <2>1, PostEffects DEF StatesFit
  <2>3. e \notin {"clone", "destroy"}
    BY <2>2 DEF SingleEffects
  <2>4. \A w \in Vmids : vm'[w].job \notin {"clone", "destroy"} /\ vm'[w].owner = vm[w].owner
    BY <1>1, <1>6, <1>8, <1>9, <2>1, <2>2, <2>3 DEF StatesFit
  <2>5. \A t \in Slots : call'[t].at = "post" => call'[t].method \in Direct
    BY <1>1, <1>2, <2>1, <2>2 DEF StatesFit, Moves
  <2>6. \A i \in Instances : tfstate[i].vmid # None => tfstate[i].vmid \in Vmids
    BY <1>1 DEF Typed, States, Nullable
  <2>7. \A r \in Runs : PlanFits(r)'
    BY <1>1, <2>1 DEF StatesFit, PlanFits
  <2> QED
    BY <1>1, <2>1, <2>4, <2>5, <2>6, <2>7 DEF StatesFit
<1>16. UndisturbedHandlers'
  BY PostKeepsUndisturbed
<1> QED
  BY <1>11, <1>12, <1>13, <1>14, <1>15, <1>16 DEF AInv

-----------------------------------------------------------------------------
(* Terraform's state.                                                      *)

LEMMA NoStateTyped == NoState \in States /\ NoState.vmid = None
BY DEF NoState, States, Nullable, Powers

(* A refresh raises the serial and forgets the VM or keeps it.             *)
LEMMA RefreshedFacts ==
  ASSUME Typed, NEW i \in Instances
  PROVE  /\ Refreshed(i) \in States
         /\ Refreshed(i).serial = tfstate[i].serial + 1
         /\ Refreshed(i).vmid \in {None, tfstate[i].vmid}
<1>1. tfstate[i] \in States
  BY DEF Typed
<1>2. PICK n \in Nat : n = tfstate[i].serial + 1
  BY <1>1 DEF States
<1>3. CASE InState(i)
  <2>1. vm[tfstate[i].vmid] \in VMs
    BY <1>1, <1>3 DEF InState, Typed, States, Nullable
  <2>2. PICK p \in Powers : p = vm[tfstate[i].vmid].power
    BY <2>1 DEF VMs
  <2>3. PICK z \in Nat : z = vm[tfstate[i].vmid].disk
    BY <2>1 DEF VMs
  <2>4. Refreshed(i) = [tfstate[i] EXCEPT !.power = p, !.disk = z, !.serial = n]
    BY <1>2, <1>3, <2>2, <2>3 DEF Refreshed
  <2> QED
    BY <1>1, <1>2, <2>4 DEF States
<1>4. CASE ~InState(i)
  <2>1. Refreshed(i) = [NoState EXCEPT !.serial = n]
    BY <1>2, <1>4 DEF Refreshed
  <2>2. NoState \in States /\ NoState.vmid = None
    BY NoStateTyped
  <2>3. [NoState EXCEPT !.serial = n] \in States /\ [NoState EXCEPT !.serial = n].serial = n
        /\ [NoState EXCEPT !.serial = n].vmid = NoState.vmid
    BY <2>2 DEF States
  <2> QED
    BY <1>2, <2>1, <2>2, <2>3
<1> QED
  BY <1>3, <1>4

(* A plan that is still fresh stays right while no state changes, and a    *)
(* state that changes leaves no plan of its instance fresh.                *)
LEMMA NewStateKeepsPlans ==
  ASSUME AInv, adapter = "terraform", NEW i \in Instances, NEW x \in States,
         x.serial = tfstate[i].serial + 1, tfstate' = [tfstate EXCEPT ![i] = x],
         UNCHANGED run, NEW r \in Runs, job'[r].actions = job[r].actions \/ job'[r].actions = {},
         job'[r].at = "apply" => job[r].at = "apply" /\ job'[r].serial = job[r].serial
  PROVE  PlanFits(r)'
<1>1. PlanFits(r) /\ tfstate \in [Instances -> States] /\ run[r].inst \in Instances
  <2>1. run \in Seq(RunRecords)
    BY DEF AInv, Typed
  <2>2. run[r] \in RunRecords
    BY <2>1 DEF Runs
  <2> QED
    BY <2>2 DEF AInv, StatesFit, Typed, RunRecords
<1>2. tfstate[i].serial \in Nat /\ tfstate[run[r].inst].serial \in Nat
  BY <1>1 DEF States
<1>3. job[r].serial \in Nat
  <2>1. r \in DOMAIN job /\ job \in Seq(JobRecords)
    BY DEF AInv, Typed, RunsFit, Runs
  <2>2. job[r] \in JobRecords
    BY <2>1
  <2> QED
    BY <2>2 DEF JobRecords
<1>4. ("delete" \in job'[r].actions) => run'[r].purge
  BY <1>1 DEF PlanFits
<1>5. ASSUME job'[r].at = "apply"
      PROVE  /\ job'[r].serial <= tfstate'[run[r].inst].serial
             /\ (/\ job'[r].serial = tfstate'[run[r].inst].serial
                 /\ "delete" \in job'[r].actions \/ "update" \in job'[r].actions)
                => tfstate'[run[r].inst].vmid # None
  <2>1. job[r].serial <= tfstate[run[r].inst].serial
    BY <1>1, <1>5 DEF PlanFits
  <2>2. CASE run[r].inst = i
    BY <1>1, <1>2, <1>3, <1>5, <2>1, <2>2
  <2>3. CASE run[r].inst # i
    BY <1>1, <1>5, <2>1, <2>3 DEF PlanFits
  <2> QED
    BY <2>2, <2>3
<1> QED
  BY <1>4, <1>5 DEF PlanFits

LEMMA RefreshKeepsStates ==
  ASSUME AInv, NEW i \in Instances, refresh(i), UNCHANGED <<vm, run, job, adapter>>,
         \A t \in Slots : call'[t].at = "post" => call[t].at = "post" /\ call'[t].method = call[t].method
  PROVE  StatesFit' /\ tfstate' \in [Instances -> States]
<1>1. Typed /\ StatesFit
  BY DEF AInv
<1>2. CASE tfstate' = tfstate
  BY <1>1, <1>2 DEF StatesFit, Typed, PlanFits, Runs
<1>3. CASE tfstate' = [tfstate EXCEPT ![i] = Refreshed(i)]
  <2>1. PICK x : x = Refreshed(i)
    OBVIOUS
  <2>2. x \in States /\ x.serial = tfstate[i].serial + 1 /\ x.vmid \in {None, tfstate[i].vmid}
    BY <1>1, <2>1, RefreshedFacts
  <2>3. tfstate' = [tfstate EXCEPT ![i] = x] /\ tfstate \in [Instances -> States]
    BY <1>1, <1>3, <2>1 DEF Typed
  <2>4. tfstate' \in [Instances -> States] /\ \A j \in Instances : tfstate'[j].vmid \in {None, tfstate[j].vmid}
    BY <2>2, <2>3
  <2>5. adapter = "terraform" => \A r \in Runs : PlanFits(r)'
    BY <2>2, <2>3, NewStateKeepsPlans
  <2> QED
    BY <1>1, <2>4, <2>5 DEF StatesFit, Runs
<1> QED
  BY <1>2, <1>3 DEF refresh

LEMMA observeStateKeeps ==
  ASSUME AInv, NEW s \in Slots, observeState(s), UNCHANGED adapter
  PROVE  AInv'
<1>1. Typed /\ CallsFit /\ RunsFit
  BY DEF AInv
<1>2. Looks(s) /\ call'[s].at # "post" /\ Moves(s)
  BY <1>1, observeStateLooks DEF Looks
<1>3. UNCHANGED <<vm, resource, waiting, lease, run, job, stranded>> /\ call[s].at = "refresh"
  BY DEF observeState, UNCHANGEDButCalls, runVars, At
<1>4. call[s].inst \in Instances /\ refresh(call[s].inst)
  <2>1. call[s].inst \in Instances
    BY <1>1, <1>3 DEF CallsFit, CallFits
  <2> QED
    BY <2>1 DEF observeState, refresh
<1>5. StatesFit' /\ tfstate' \in [Instances -> States]
  <2>1. \A t \in Slots : call'[t].at = "post" => call[t].at = "post" /\ call'[t].method = call[t].method
    BY <1>2 DEF Moves
  <2> QED
    BY <1>3, <1>4, <2>1, RefreshKeepsStates
<1>6. Typed'
  BY <1>1, <1>2, <1>3, <1>5 DEF Typed, Moves
<1>7. CallsFit' /\ SoleHandlers'
  BY <1>2, <1>3, MovesKeepCalls
<1>8. RunsFit'
  <2>1. \A r \in Runs : Refusing(r) => Refusing(r)'
    BY <1>2, <1>3, RefusalsStand DEF Moves, StillRefusing
  <2> QED
    BY <1>1, <1>3, <2>1 DEF RunsFit, RunFits, Runs
<1>9. TokensFit'
  <2>1. Len(run) \in Nat /\ call'[s].at \notin {"insert", "refuse"}
    BY <1>1, <1>2, <1>3 DEF Typed, Looks
  <2> QED
    BY <1>2, <1>3, <2>1, MovesKeepTokens
<1>10. UndisturbedHandlers'
  BY <1>2, <1>3, LooksKeepUndisturbed DEF Runs
<1> QED
  BY <1>5, <1>6, <1>7, <1>8, <1>9, <1>10 DEF AInv

-----------------------------------------------------------------------------
(* The runs.                                                               *)

LEMMA NoJobTyped ==
  NoJob \in JobRecords /\ NoJob.at = "none" /\ NoJob.actions = {}
BY DEF NoJob, JobRecords, JobAts, Powers

(* A row is added, whose run has a job, a handler about to refuse it, or   *)
(* nobody who can be waited for.                                           *)
LEMMA RowInserted ==
  ASSUME AInv, NEW s \in Slots, adapter = "terraform", Looks(s), UNCHANGED adapter,
         call[s].at = "insert", call'[s].at \in {"answered", "refuse"},
         call'[s].at = "refuse" => call'[s].seen = Len(run) + 1,
         UNCHANGED <<vm, resource, waiting, lease, tfstate>>, stranded \subseteq stranded',
         NEW x \in RunRecords, x.inst = call[s].inst, x.token = call[s].token,
         NEW j \in JobRecords, j.actions = {}, j.at = "none" \/ (j.at = "plan" /\ call'[s].at = "answered"),
         j.at = "none" => Len(run) + 1 \in stranded' \/ call'[s].at = "refuse",
         run' = Append(run, x), job' = Append(job, j)
  PROVE  AInv'
<1>1. Typed /\ CallsFit /\ RunsFit /\ TokensFit /\ StatesFit
  BY DEF AInv
<1>2. Moves(s)
  BY DEF Looks
<1>3. /\ call[s] \in CallRecords /\ call[s].inst \in Instances
      /\ call[s].token \in Nat /\ call[s].token <= lease[call[s].inst]
  <2>1. call[s] \in CallRecords
    BY <1>1 DEF Typed
  <2>2. call[s].inst \in Instances
    BY <1>1 DEF CallsFit, CallFits
  <2>3. call[s].token <= lease[call[s].inst]
    BY <1>1 DEF TokensFit, TokenFits
  <2> QED
    BY <2>1, <2>2, <2>3 DEF CallRecords
<1>4. PICK n \in Nat : n = Len(run) + 1
  BY <1>1 DEF Typed
<1>5. /\ run' \in Seq(RunRecords) /\ Len(run') = n /\ run'[n] = x /\ n \notin Runs
       /\ DOMAIN run' = Runs \cup {n} /\ \A r \in Runs : run'[r] = run[r]
  BY <1>1, <1>4, ExtendedSeq DEF Typed, Runs
<1>6. /\ job' \in Seq(JobRecords) /\ Len(job') = n /\ job'[n] = j
       /\ \A r \in Runs : job'[r] = job[r]
  <2>1. job \in Seq(JobRecords) /\ Len(job) = Len(run) /\ DOMAIN job = Runs
    BY <1>1 DEF Typed, RunsFit, Runs
  <2> QED
    BY <1>4, <2>1, ExtendedSeq
<1>7. Typed'
  BY <1>1, <1>2, <1>5, <1>6 DEF Typed, Moves
<1>8. CallsFit' /\ SoleHandlers'
  BY <1>2, MovesKeepCalls
<1>9. RunsFit'
  <2>1. SUFFICES ASSUME NEW r \in DOMAIN run' PROVE RunFits(r)'
    BY <1>5, <1>6 DEF RunsFit, Runs
  <2>2. CASE r \in Runs
    <3>1. Refusing(r) => Refusing(r)'
      BY <1>2, RefusalsStand DEF Moves, StillRefusing
    <3> QED
      BY <1>1, <1>5, <1>6, <2>2, <3>1 DEF RunsFit, RunFits
  <2>3. CASE r = n
    <3>1. j.at # "none" \/ n \in stranded' \/ Refusing(n)'
      BY <1>4 DEF Refusing
    <3> QED
      BY <1>3, <1>5, <1>6, <2>3, <3>1 DEF RunFits
  <2> QED
    BY <1>5, <2>2, <2>3
<1>10. TokensFit'
  <2>1. Len(run) \in Nat /\ Len(run') \in Nat /\ Len(run') >= Len(run) /\ 1..Len(run) = Runs
    BY <1>1, <1>4, <1>5 DEF Typed, Runs
  <2>2. call'[s].at = "refuse" => call'[s].seen \in 1..Len(run')
    BY <1>4, <1>5, <2>1
  <2> QED
    BY <1>2, <1>5, <2>1, <2>2, MovesKeepTokens
<1>11. StatesFit'
  <2>1. \A t \in Slots : call'[t].at = "post" => call'[t].method \in Direct
    BY <1>1, <1>2 DEF StatesFit, Moves
  <2>2. \A r \in Runs : PlanFits(r)'
    BY <1>1, <1>5, <1>6 DEF StatesFit, PlanFits
  <2>3. PlanFits(n)'
    BY <1>6 DEF PlanFits
  <2>4. \A r \in DOMAIN run' : PlanFits(r)'
    BY <1>5, <2>2, <2>3
  <2> QED
    BY <1>1, <2>1, <2>4 DEF StatesFit, Runs
<1>12. UndisturbedHandlers'
  <2>1. \A r \in DOMAIN run' : job'[r].at \in {"plan", "apply"} =>
          \/ r \in Runs /\ run'[r].inst = run[r].inst /\ job[r].at \in {"plan", "apply"}
          \/ run'[r].inst = call[s].inst /\ call'[s].at = "answered"
    BY <1>5, <1>6
  <2> QED
    BY <2>1, LooksKeepUndisturbed
<1> QED
  BY <1>7, <1>8, <1>9, <1>10, <1>11, <1>12 DEF AInv

LEMMA insertRunKeeps ==
  ASSUME AInv, NEW s \in Slots, adapter = "terraform", insertRun(s), UNCHANGED adapter
  PROVE  AInv'
<1>1. Typed /\ CallsFit /\ RunsFit /\ TokensFit /\ StatesFit
  BY DEF AInv
<1>2. /\ Looks(s) /\ call'[s].at \in {"answered", "refuse"} /\ Moves(s)
      /\ call'[s].at = "refuse" => call'[s].seen = Len(run) + 1
  BY <1>1, insertRunLooks DEF Looks
<1>3. UNCHANGED <<vm, resource, waiting, lease, tfstate>> /\ call[s].at = "insert"
  BY DEF insertRun, UNCHANGEDButCalls, At
<1>4. /\ call[s] \in CallRecords /\ call[s].inst \in Instances
      /\ call[s].token \in Nat /\ call[s].power \in Powers /\ call[s].disk \in Nat
  <2>1. call[s] \in CallRecords
    BY <1>1 DEF Typed
  <2>2. call[s].inst \in Instances
    BY <1>1, <1>3 DEF CallsFit, CallFits
  <2> QED
    BY <2>1, <2>2 DEF CallRecords
<1>5. PICK b \in BOOLEAN : b = (call[s].method = "purge")
  OBVIOUS
<1>6. PICK x : x = [inst |-> call[s].inst, token |-> call[s].token, purge |-> b, status |-> "running"]
  OBVIOUS
<1>7. x \in RunRecords /\ x.inst = call[s].inst /\ x.token = call[s].token
  BY <1>4, <1>6 DEF RunRecords
<1>8. PICK j : j = [NoJob EXCEPT !.at = "plan", !.power = call[s].power, !.disk = call[s].disk]
  OBVIOUS
<1>9. j \in JobRecords /\ j.at = "plan" /\ j.actions = {}
  <2>1. "plan" \in JobAts
    BY DEF JobAts
  <2> QED
    BY <1>4, <1>8, <2>1, NoJobTyped DEF JobRecords
<1>10. \/ /\ run' = Append(run, x) /\ job' = Append(job, j) /\ stranded' = stranded
          /\ call' = [call EXCEPT ![s] = Answered(call[s], "accepted")]
       \/ /\ run' = Append(run, x) /\ job' = Append(job, NoJob) /\ stranded' = stranded
          /\ call' = [call EXCEPT ![s].at = "refuse", ![s].seen = Len(run) + 1]
       \/ /\ run' = Append(run, x) /\ job' = Append(job, NoJob)
          /\ stranded' = stranded \cup {Len(run) + 1}
       \/ /\ UNCHANGED <<run, job, stranded>>
          /\ call' = [call EXCEPT ![s] = Answered(call[s], "internal")]
  BY <1>5, <1>6, <1>8 DEF insertRun, Answer
<1>11. ASSUME call' = [call EXCEPT ![s].at = "refuse", ![s].seen = Len(run) + 1]
       PROVE  call'[s].at = "refuse"
  BY <1>1, <1>4, <1>11 DEF Typed, CallRecords
<1>12. ASSUME NEW a \in Answers, call' = [call EXCEPT ![s] = Answered(call[s], a)]
       PROVE  call'[s].at = "answered"
  BY <1>1, <1>4, <1>12, AnsweredFields DEF Typed
<1>13. CASE /\ run' = Append(run, x) /\ job' = Append(job, j) /\ stranded' = stranded
            /\ call' = [call EXCEPT ![s] = Answered(call[s], "accepted")]
  <2>1. call'[s].at = "answered"
    BY <1>12, <1>13 DEF Answers
  <2> QED
    BY <1>2, <1>3, <1>7, <1>9, <1>13, <2>1, RowInserted
<1>14. CASE /\ run' = Append(run, x) /\ job' = Append(job, NoJob) /\ stranded' = stranded
            /\ call' = [call EXCEPT ![s].at = "refuse", ![s].seen = Len(run) + 1]
  <2>1. call'[s].at = "refuse"
    BY <1>11, <1>14
  <2> QED
    BY <1>2, <1>3, <1>7, <1>14, <2>1, NoJobTyped, RowInserted
<1>15. CASE /\ run' = Append(run, x) /\ job' = Append(job, NoJob)
            /\ stranded' = stranded \cup {Len(run) + 1}
  BY <1>2, <1>3, <1>7, <1>15, NoJobTyped, RowInserted
<1>16. CASE /\ UNCHANGED <<run, job, stranded>>
            /\ call' = [call EXCEPT ![s] = Answered(call[s], "internal")]
  <2>1. call'[s].at = "answered"
    BY <1>12, <1>16 DEF Answers
  <2> QED
    BY <1>2, <1>3, <1>16, <2>1, LooksKeep
<1> QED
  BY <1>10, <1>13, <1>14, <1>15, <1>16

(* A step of a run's background job replaces the job and, perhaps, the     *)
(* status of the run.                                                      *)
RunsKept(r) ==
  /\ run' \in Seq(RunRecords) /\ DOMAIN run' = DOMAIN run /\ Len(run') = Len(run)
  /\ \A q \in Runs : /\ run'[q].inst = run[q].inst /\ run'[q].token = run[q].token
                     /\ run'[q].purge = run[q].purge
                     /\ q # r => run'[q].status = run[q].status
JobsKept(r, j) ==
  /\ job' \in Seq(JobRecords) /\ Len(job') = Len(job) /\ job'[r] = j
  /\ \A q \in Runs : q # r => job'[q] = job[q]

LEMMA JobUpdated ==
  ASSUME Typed, RunsFit, NEW r \in Runs, NEW j \in JobRecords, job' = [job EXCEPT ![r] = j]
  PROVE  JobsKept(r, j)
<1>1. job \in Seq(JobRecords) /\ DOMAIN job = Runs
  BY DEF Typed, RunsFit, Runs
<1> QED
  BY <1>1, UpdatedSeq DEF JobsKept

LEMMA RunTyped ==
  ASSUME Typed, RunsFit, NEW r \in Runs
  PROVE  /\ run[r] \in RunRecords /\ run[r].inst \in Instances
         /\ job[r] \in JobRecords /\ job[r].at \in JobAts /\ job[r].power \in Powers
         /\ job[r].disk \in Nat /\ job[r].serial \in Nat
<1>1. run \in Seq(RunRecords) /\ job \in Seq(JobRecords) /\ r \in DOMAIN run /\ r \in DOMAIN job
  BY DEF Typed, RunsFit, Runs
<1>2. run[r] \in RunRecords
  BY <1>1
<1>3. job[r] \in JobRecords
  BY <1>1
<1> QED
  BY <1>2, <1>3 DEF RunRecords, JobRecords

LEMMA SameRuns ==
  ASSUME Typed, RunsFit, NEW r \in Runs, run' = run
  PROVE  RunsKept(r)
BY DEF RunsKept, Typed

LEMMA StatusUpdated ==
  ASSUME Typed, RunsFit, NEW r \in Runs, NEW st \in {"running", "succeeded", "failed", "unknown"},
         run' = [run EXCEPT ![r].status = st]
  PROVE  RunsKept(r) /\ run'[r].status = st
<1>1. run \in Seq(RunRecords) /\ run[r] \in RunRecords
  BY RunTyped DEF Typed
<1>2. PICK x : x = [run[r] EXCEPT !.status = st]
  OBVIOUS
<1>3. /\ x \in RunRecords /\ x.status = st
      /\ x.inst = run[r].inst /\ x.token = run[r].token /\ x.purge = run[r].purge
  BY <1>1, <1>2 DEF RunRecords
<1>4. run' = [run EXCEPT ![r] = x]
  BY <1>1, <1>2
<1>5. /\ run' \in Seq(RunRecords) /\ Len(run') = Len(run) /\ DOMAIN run' = DOMAIN run
      /\ run'[r] = x /\ \A q \in DOMAIN run : q # r => run'[q] = run[q]
  BY <1>1, <1>3, <1>4, UpdatedSeq DEF Runs
<1> QED
  BY <1>3, <1>5 DEF RunsKept, Runs

(* The row of a refused plan is ended, or left to nobody.                  *)
LEMMA completeRefusedKeeps ==
  ASSUME AInv, NEW s \in Slots, adapter = "terraform", completeRefused(s), UNCHANGED adapter
  PROVE  AInv'
<1>1. Typed /\ CallsFit /\ RunsFit /\ TokensFit /\ StatesFit
  BY DEF AInv
<1>2. Looks(s) /\ call'[s].at = "answered" /\ call[s].at = "refuse" /\ Moves(s)
  BY <1>1, completeRefusedLooks DEF Looks
<1>3. UNCHANGED <<vm, resource, waiting, lease, tfstate, job>>
  BY DEF completeRefused, UNCHANGEDButCalls
<1>4. PICK r \in Runs : r = call[s].seen
  BY <1>1, <1>2 DEF TokensFit, TokenFits, Typed, Runs
<1>5. RunsKept(r) /\ stranded \subseteq stranded' /\ (run'[r].status # "running" \/ r \in stranded')
      /\ run'[r].status \in {run[r].status, "failed"}
  <2>1. CASE run' = [run EXCEPT ![r].status = "failed"] /\ stranded' = stranded
    <3>1. RunsKept(r) /\ run'[r].status = "failed"
      BY <1>1, <2>1, StatusUpdated
    <3> QED
      BY <2>1, <3>1
  <2>2. CASE run' = run /\ stranded' = stranded \cup {r}
    BY <1>1, <2>2, SameRuns
  <2> QED
    BY <1>4, <2>1, <2>2 DEF completeRefused
<1>6. DOMAIN run' = Runs /\ Len(run') = Len(run) /\ Len(run) \in Nat /\ Runs = 1..Len(run)
  BY <1>1, <1>5 DEF RunsKept, Runs, Typed
<1>7. Typed'
  BY <1>1, <1>2, <1>3, <1>5 DEF Typed, Moves, RunsKept
<1>8. CallsFit' /\ SoleHandlers'
  BY <1>2, <1>3, MovesKeepCalls
<1>9. RunsFit'
  <2>1. ASSUME NEW q \in Runs, q # r PROVE RunFits(q)'
    <3>1. Refusing(q) => Refusing(q)'
      BY <1>2, <1>4, <2>1, RefusalsStand DEF Moves, StillRefusing
    <3> QED
      BY <1>1, <1>3, <1>5, <2>1, <3>1 DEF RunsFit, RunFits, RunsKept
  <2>2. RunFits(r)'
    BY <1>1, <1>3, <1>5 DEF RunsFit, RunFits, RunsKept
  <2> QED
    BY <1>1, <1>3, <1>6, <2>1, <2>2 DEF RunsFit, Runs
<1>10. TokensFit'
  <2>1. \A q \in 1..Len(run) : run'[q].inst = run[q].inst /\ run'[q].token = run[q].token
    BY <1>5, <1>6 DEF RunsKept
  <2> QED
    BY <1>2, <1>3, <1>6, <2>1, MovesKeepTokens
<1>11. StatesFit'
  <2>1. \A t \in Slots : call'[t].at = "post" => call'[t].method \in Direct
    BY <1>1, <1>2 DEF StatesFit, Moves
  <2>2. \A q \in Runs : PlanFits(q)'
    BY <1>1, <1>3, <1>5 DEF StatesFit, PlanFits, RunsKept
  <2> QED
    BY <1>1, <1>3, <1>6, <2>1, <2>2 DEF StatesFit, Runs
<1>12. UndisturbedHandlers'
  <2>1. \A q \in DOMAIN run' : job'[q].at \in {"plan", "apply"} =>
          q \in Runs /\ run'[q].inst = run[q].inst /\ job[q].at \in {"plan", "apply"}
    BY <1>3, <1>5, <1>6 DEF RunsKept
  <2> QED
    BY <1>2, <1>3, <2>1, LooksKeepUndisturbed
<1> QED
  BY <1>7, <1>8, <1>9, <1>10, <1>11, <1>12 DEF AInv

(* What such a step keeps: a VM changes its owner only by the apply of a   *)
(* run of the old one.                                                     *)
LEMMA JobStepKeeps ==
  ASSUME AInv, adapter = "terraform", NEW r \in Runs, NEW j, RunsKept(r), JobsKept(r, j), RunFits(r)',
         UNCHANGED <<call, resource, waiting, lease, adapter>>, stranded \subseteq stranded',
         j.at \in {"plan", "apply"} => job[r].at \in {"plan", "apply"},
         vm' \in [Vmids -> VMs], tfstate' \in [Instances -> States], StatesFit',
         \A v \in Vmids : vm'[v].owner # vm[v].owner =>
           job[r].at = "apply" /\ vm[v].owner \in {None, run[r].inst}
  PROVE  AInv'
<1>1. Typed /\ CallsFit /\ RunsFit /\ TokensFit /\ SoleHandlers /\ UndisturbedHandlers
  BY DEF AInv
<1>2. Typed'
  BY <1>1 DEF Typed, RunsKept, JobsKept
<1>3. CallsFit' /\ SoleHandlers'
  BY <1>1 DEF CallsFit, SoleHandlers, Sole
<1>4. RunsFit'
  <2>1. \A q \in Runs : q # r => RunFits(q)'
    BY <1>1 DEF RunsFit, RunFits, RunsKept, JobsKept, Refusing
  <2> QED
    BY <1>1, <2>1 DEF RunsFit, RunsKept, JobsKept, Runs
<1>5. TokensFit'
  <2>1. Len(run') = Len(run)
    BY DEF RunsKept
  <2>2. SUFFICES ASSUME NEW t \in Slots, call[t].at = "insert"
                 PROVE  /\ call[t].seen <= Len(run')
                        /\ \A q \in 1..call[t].seen :
                             run'[q].inst = call[t].inst => run'[q].token <= call[t].token
    BY <1>1, <2>1 DEF TokensFit, TokenFits
  <2>3. /\ call[t].seen <= Len(run)
        /\ \A q \in 1..call[t].seen : run[q].inst = call[t].inst => run[q].token <= call[t].token
    BY <1>1, <2>2 DEF TokensFit, TokenFits
  <2>4. \A q \in 1..call[t].seen : q \in Runs
    <3>1. call[t].seen \in Nat /\ run \in Seq(RunRecords)
      BY <1>1 DEF Typed, CallRecords
    <3> QED
      BY <2>3, <3>1 DEF Runs
  <2> QED
    BY <2>3, <2>4 DEF RunsKept
<1>6. UndisturbedHandlers'
  <2>1. SUFFICES ASSUME NEW t \in Slots, Guarded(t)
                 PROVE  Undisturbed(t)'
    BY DEF UndisturbedHandlers, Undisturbed, Guarded
  <2>2. Undisturbed(t) /\ call[t].inst \in Instances /\ call[t].vmid \in Vmids
    BY <1>1, <2>1 DEF UndisturbedHandlers, CallsFit, CallFits, Guarded
  <2>3. \A q \in Runs : run[q].inst = call[t].inst => job[q].at \notin {"plan", "apply"}
    BY <2>1, <2>2 DEF Undisturbed
  <2>4. call[t].at \in {"status", "post"} => vm'[call[t].vmid].owner = call[t].inst
    BY <2>1, <2>2, <2>3, PortAssumption DEF Undisturbed
  <2>5. \A q \in Runs : run'[q].inst = call[t].inst => job'[q].at \notin {"plan", "apply"}
    BY <2>3 DEF RunsKept, JobsKept
  <2> QED
    BY <2>1, <2>4, <2>5 DEF Undisturbed, Runs, RunsKept
<1> QED
  BY <1>2, <1>3, <1>4, <1>5, <1>6 DEF AInv

(* One that touches neither the VMs nor a state.                           *)
LEMMA PlainJobStepKeeps ==
  ASSUME AInv, adapter = "terraform", NEW r \in Runs, NEW j, RunsKept(r), JobsKept(r, j), RunFits(r)',
         UNCHANGED <<vm, tfstate, call, resource, waiting, lease, adapter>>, stranded \subseteq stranded',
         j.at \in {"plan", "apply"} => job[r].at \in {"plan", "apply"}, PlanFits(r)'
  PROVE  AInv'
<1>1. Typed /\ StatesFit
  BY DEF AInv
<1>2. vm' \in [Vmids -> VMs] /\ tfstate' \in [Instances -> States]
  BY <1>1 DEF Typed
<1>3. \A q \in Runs : q # r => PlanFits(q)'
  BY <1>1 DEF StatesFit, PlanFits, RunsKept, JobsKept
<1>4. StatesFit'
  BY <1>1, <1>3 DEF StatesFit, Runs, RunsKept
<1>5. \A v \in Vmids : vm'[v].owner = vm[v].owner
  OBVIOUS
<1> QED
  BY <1>2, <1>4, <1>5, JobStepKeeps

(* What a plan may hold.                                                   *)
LEMMA PlansFit ==
  ASSUME NEW i, NEW want, NEW d \in BOOLEAN, NEW p \in Plans(i, want, d), p.gate = "allowed"
  PROVE  /\ p.actions \subseteq {"create", "update", "delete", "no-op"}
         /\ "delete" \in p.actions => d
         /\ ("delete" \in p.actions \/ "update" \in p.actions) => tfstate[i].vmid # None
<1>1. p = [actions |-> PlannedActions(i, want, d), gate |-> evaluatePlan(PlannedActions(i, want, d), d)]
  BY DEF Plans
<1>2. p.actions = PlannedActions(i, want, d)
  BY <1>1
<1>3. "delete" \in p.actions => d
  BY <1>1, <1>2 DEF evaluatePlan
<1>4. InState(i) => tfstate[i].vmid # None
  BY DEF InState
<1>5. CASE d
  BY <1>2, <1>4, <1>5 DEF PlannedActions
<1>6. CASE ~d
  BY <1>2, <1>3, <1>4, <1>6 DEF PlannedActions
<1> QED
  BY <1>3, <1>5, <1>6

(* The adapter of a deployment that has runs is Terraform's.               *)
LEMMA RunsAreTerraform ==
  ASSUME AInv, Runs # {}
  PROVE  adapter = "terraform"
BY DEF AInv, Typed, StatesFit, Runs

LEMMA jobPlansKeeps ==
  ASSUME AInv, NEW r \in Runs, jobPlans(r), UNCHANGED adapter
  PROVE  AInv'
<1>1. Typed /\ RunsFit /\ StatesFit /\ adapter = "terraform"
  BY RunsAreTerraform DEF AInv
<1>2. /\ job[r].at = "plan" /\ run' = run /\ UNCHANGED <<vm, tfstate, stranded>>
      /\ UNCHANGED <<call, resource, waiting, lease>>
  BY DEF jobPlans, portVars
<1>3. run[r] \in RunRecords /\ job[r] \in JobRecords /\ run[r].inst \in Instances /\ run[r].purge \in BOOLEAN
  BY <1>1, RunTyped DEF RunRecords
<1>4. PICK p \in Plans(run[r].inst, job[r], run[r].purge) :
        job' = [job EXCEPT ![r] = IF p.gate = "allowed"
                  THEN [job[r] EXCEPT !.at = "apply", !.actions = p.actions,
                                      !.serial = tfstate[run[r].inst].serial]
                  ELSE [NoJob EXCEPT !.at = "catch"]]
  BY DEF jobPlans, PlanAgain
<1>5. PICK n : n = tfstate[run[r].inst].serial
  OBVIOUS
<1>6. n \in Nat
  BY <1>1, <1>3, <1>5 DEF Typed, States
<1>7. PICK j : j = IF p.gate = "allowed"
                   THEN [job[r] EXCEPT !.at = "apply", !.actions = p.actions, !.serial = n]
                   ELSE [NoJob EXCEPT !.at = "catch"]
  OBVIOUS
<1>8. "apply" \in JobAts /\ "catch" \in JobAts
  BY DEF JobAts
<1>9. /\ j \in JobRecords /\ j.at \in {"apply", "catch"}
      /\ j.at = "apply" => p.gate = "allowed" /\ j.actions = p.actions /\ j.serial = n
      /\ j.at = "catch" => j.actions = {}
  <2>1. CASE p.gate = "allowed"
    <3>1. p.actions \subseteq {"create", "update", "delete", "no-op"}
      BY <1>3, <1>4, <2>1, PlansFit
    <3>2. j = [job[r] EXCEPT !.at = "apply", !.actions = p.actions, !.serial = n]
      BY <1>7, <2>1
    <3> QED
      BY <1>3, <1>6, <1>8, <2>1, <3>1, <3>2 DEF JobRecords
  <2>2. CASE p.gate # "allowed"
    BY <1>7, <1>8, <2>2, NoJobTyped DEF JobRecords
  <2> QED
    BY <2>1, <2>2
<1>10. JobsKept(r, j)
  <2>1. job' = [job EXCEPT ![r] = j]
    BY <1>4, <1>5, <1>7
  <2> QED
    BY <1>1, <1>9, <2>1, JobUpdated
<1>11. RunsKept(r) /\ job'[r] = j
  BY <1>1, <1>2, <1>10, SameRuns DEF JobsKept
<1>12. RunFits(r)'
  <2>1. run[r].token <= lease[run[r].inst]
    BY <1>1 DEF RunsFit, RunFits
  <2> QED
    BY <1>2, <1>9, <1>11, <2>1 DEF RunFits
<1>13. PlanFits(r)'
  <2>1. /\ "delete" \in j.actions => run[r].purge
        /\ j.at = "apply" => (("delete" \in j.actions \/ "update" \in j.actions) => tfstate[run[r].inst].vmid # None)
    BY <1>3, <1>4, <1>9, PlansFit
  <2> QED
    BY <1>2, <1>5, <1>6, <1>9, <1>11, <2>1 DEF PlanFits
<1> QED
  BY <1>1, <1>2, <1>10, <1>11, <1>12, <1>13, PlainJobStepKeeps

LEMMA completeRunKeeps ==
  ASSUME AInv, NEW r \in Runs, completeRun(r), UNCHANGED adapter
  PROVE  AInv'
<1>1. Typed /\ RunsFit /\ StatesFit /\ adapter = "terraform"
  BY RunsAreTerraform DEF AInv
<1>2. /\ job[r].at = "complete" /\ UNCHANGED <<vm, tfstate, stranded>>
      /\ UNCHANGED <<call, resource, waiting, lease>>
  BY DEF completeRun, portVars
<1>3. run[r] \in RunRecords /\ job[r] \in JobRecords
  BY <1>1, RunTyped
<1>4. run[r].token <= lease[run[r].inst] /\ PlanFits(r)
  BY <1>1 DEF RunsFit, RunFits, StatesFit
<1>5. "record" \in JobAts /\ "catch" \in JobAts
  BY DEF JobAts
<1>6. CASE /\ run' = [run EXCEPT ![r].status = RunStatus(job[r].exit)]
           /\ job' = [job EXCEPT ![r].at = "record"]
  <2>1. PICK st \in {"succeeded", "failed"} : st = RunStatus(job[r].exit)
    BY DEF RunStatus
  <2>2. RunsKept(r) /\ run'[r].status = st
    BY <1>1, <1>6, <2>1, StatusUpdated
  <2>3. PICK j : j = [job[r] EXCEPT !.at = "record"]
    OBVIOUS
  <2>4. j \in JobRecords /\ j.at = "record" /\ j.actions = job[r].actions
    BY <1>3, <1>5, <2>3 DEF JobRecords
  <2>5. job' = [job EXCEPT ![r] = j]
    BY <1>1, <1>6, <2>3 DEF Typed
  <2>6. JobsKept(r, j) /\ job'[r] = j
    BY <1>1, <2>4, <2>5, JobUpdated DEF JobsKept
  <2>7. RunFits(r)'
    BY <1>2, <1>4, <2>2, <2>4, <2>6 DEF RunFits, RunsKept
  <2>8. PlanFits(r)'
    BY <1>4, <2>2, <2>4, <2>6 DEF PlanFits, RunsKept
  <2> QED
    BY <1>1, <1>2, <2>2, <2>4, <2>6, <2>7, <2>8, PlainJobStepKeeps
<1>7. CASE run' = run /\ job' = [job EXCEPT ![r] = [NoJob EXCEPT !.at = "catch"]]
  <2>1. RunsKept(r)
    BY <1>1, <1>7, SameRuns
  <2>2. PICK j : j = [NoJob EXCEPT !.at = "catch"]
    OBVIOUS
  <2>3. j \in JobRecords /\ j.at = "catch" /\ j.actions = {}
    BY <1>5, <2>2, NoJobTyped DEF JobRecords
  <2>4. JobsKept(r, j) /\ job'[r] = j
    BY <1>1, <1>7, <2>2, <2>3, JobUpdated DEF JobsKept
  <2>5. RunFits(r)'
    BY <1>2, <1>4, <1>7, <2>3, <2>4 DEF RunFits
  <2>6. PlanFits(r)'
    BY <2>3, <2>4 DEF PlanFits
  <2> QED
    BY <1>1, <1>2, <2>1, <2>3, <2>4, <2>5, <2>6, PlainJobStepKeeps
<1> QED
  BY <1>6, <1>7 DEF completeRun

(* A job ends: the workspace is recorded or the last write has been tried. *)
LEMMA JobEndKeeps ==
  ASSUME AInv, NEW r \in Runs, recordWorkspace(r) \/ jobCatches(r), UNCHANGED adapter
  PROVE  AInv'
<1>1. Typed /\ RunsFit /\ StatesFit /\ adapter = "terraform"
  BY RunsAreTerraform DEF AInv
<1>2. UNCHANGED <<vm, tfstate, call, resource, waiting, lease>> /\ job' = [job EXCEPT ![r] = NoJob]
  BY DEF recordWorkspace, jobCatches, portVars
<1>3. /\ RunsKept(r) /\ stranded \subseteq stranded'
      /\ run'[r].status # "running" \/ r \in stranded'
  <2>1. CASE recordWorkspace(r)
    <3>1. run' = run /\ stranded' = stranded /\ job[r].at = "record"
      BY <2>1 DEF recordWorkspace
    <3>2. run[r].status # "running"
      BY <1>1, <3>1 DEF RunsFit, RunFits
    <3> QED
      BY <1>1, <3>1, <3>2, SameRuns
  <2>2. CASE jobCatches(r)
    <3>1. CASE run' = [run EXCEPT ![r].status = "unknown"] /\ stranded' = stranded
      BY <1>1, <3>1, StatusUpdated
    <3>2. CASE run' = run /\ stranded' = stranded \cup {r}
      BY <1>1, <3>2, SameRuns
    <3> QED
      BY <2>2, <3>1, <3>2 DEF jobCatches
  <2> QED
    BY <2>1, <2>2
<1>4. JobsKept(r, NoJob) /\ job'[r] = NoJob
  BY <1>1, <1>2, NoJobTyped, JobUpdated DEF JobsKept
<1>5. RunFits(r)'
  <2>1. run[r].token <= lease[run[r].inst]
    BY <1>1 DEF RunsFit, RunFits
  <2> QED
    BY <1>2, <1>3, <1>4, <2>1, NoJobTyped DEF RunFits, RunsKept
<1>6. PlanFits(r)'
  BY <1>4, NoJobTyped DEF PlanFits
<1> QED
  BY <1>1, <1>2, <1>3, <1>4, <1>5, <1>6, NoJobTyped, PlainJobStepKeeps

(* What an apply leaves at a VMID: a VM where there was none, the VM of    *)
(* the run's instance changed, or nothing where a purge's run found it.    *)
Applied(r, v, new, x) ==
  LET i == run[r].inst IN
  /\ vm' = [vm EXCEPT ![v] = new] /\ tfstate' = [tfstate EXCEPT ![i] = x]
  /\ new.job = "none" /\ x.serial = tfstate[i].serial + 1
  /\ \/ vm[v] = Free /\ new.owner = i /\ x.vmid = v
     \/ vm[v].owner = i /\ new.owner = i /\ x.vmid = v
     \/ vm[v].owner = i /\ new = Free /\ x.vmid = None /\ run[r].purge

LEMMA BuiltTyped ==
  ASSUME Typed, RunsFit, NEW r \in Runs, NEW v \in Vmids, NEW tainted \in BOOLEAN
  PROVE  /\ Built(r, v) \in VMs /\ Built(r, v).owner = run[r].inst /\ Built(r, v).job = "none"
         /\ StateOf(r, v, tainted) \in States /\ StateOf(r, v, tainted).vmid = v
         /\ StateOf(r, v, tainted).serial = tfstate[run[r].inst].serial + 1
<1>1. run[r].inst \in Instances /\ job[r].power \in Powers /\ job[r].disk \in Nat
  BY RunTyped
<1>2. tfstate[run[r].inst].serial + 1 \in Nat
  BY <1>1 DEF Typed, States
<1>3. "none" \in Jobs
  BY DEF Jobs
<1>4. Built(r, v) \in VMs /\ Built(r, v).owner = run[r].inst /\ Built(r, v).job = "none"
  BY <1>1, <1>3 DEF Built, VMs, Nullable
<1>5. /\ StateOf(r, v, tainted) \in States /\ StateOf(r, v, tainted).vmid = v
      /\ StateOf(r, v, tainted).serial = tfstate[run[r].inst].serial + 1
  BY <1>1, <1>2 DEF StateOf, States, Nullable
<1> QED
  BY <1>4, <1>5

LEMMA jobAppliesEffect ==
  ASSUME AInv, NEW r \in Runs, jobApplies(r)
  PROVE  \/ vm' = vm /\ tfstate' = tfstate
         \/ \E v \in Vmids : \E new \in VMs : \E x \in States : Applied(r, v, new, x)
<1>1. Typed /\ RunsFit /\ StatesFit /\ adapter = "terraform"
  BY RunsAreTerraform DEF AInv
<1>2. PICK i : i = run[r].inst
  OBVIOUS
<1>3. i \in Instances /\ tfstate[i] \in States /\ job[r].at = "apply" /\ job[r] \in JobRecords
  BY <1>1, <1>2, RunTyped DEF Typed, jobApplies
<1>4. PICK v : v = IF tfstate[i].vmid = None THEN vmIdFor(i) ELSE tfstate[i].vmid
  OBVIOUS
<1>5. v \in Vmids /\ vm[v] \in VMs
  <2>1. vmIdFor(i) \in Vmids
    BY <1>3, ProbesInRange DEF vmIdFor
  <2> QED
    BY <1>1, <1>3, <1>4, <2>1 DEF Typed, States, Nullable
<1>6. tfstate[i].vmid # None => vm[v].owner = i
  BY <1>1, <1>3, <1>4 DEF StatesFit
<1>7. ASSUME job[r].serial = tfstate[i].serial, "delete" \in job[r].actions \/ "update" \in job[r].actions
      PROVE  vm[v].owner = i
  BY <1>1, <1>2, <1>3, <1>6, <1>7 DEF StatesFit, PlanFits
<1>8. "delete" \in job[r].actions => run[r].purge
  BY <1>1 DEF StatesFit, PlanFits
<1>9. PICK B : B = Built(r, v)
  OBVIOUS
<1>10. PICK N : N = [NoState EXCEPT !.serial = tfstate[i].serial + 1]
  OBVIOUS
<1>11. N \in States /\ N.vmid = None /\ N.serial = tfstate[i].serial + 1
  <2>1. PICK n \in Nat : n = tfstate[i].serial + 1
    BY <1>3 DEF States
  <2>2. N = [NoState EXCEPT !.serial = n]
    BY <1>10, <2>1
  <2> QED
    BY <2>1, <2>2, NoStateTyped DEF States
<1>12. PICK U : U = [vm[v] EXCEPT !.power = job[r].power, !.disk = job[r].disk]
  OBVIOUS
<1>13. U \in VMs /\ U.owner = vm[v].owner /\ U.job = vm[v].job
  BY <1>3, <1>5, <1>12 DEF VMs, JobRecords
<1>14. \/ vm' = vm /\ tfstate' = tfstate
       \/ /\ vm[v] = Free
          /\ \/ vm' = [vm EXCEPT ![v] = B] /\ tfstate' = [tfstate EXCEPT ![i] = StateOf(r, v, FALSE)]
             \/ /\ vm' = [vm EXCEPT ![v] = [B EXCEPT !.power = "stopped"]]
                /\ tfstate' = [tfstate EXCEPT ![i] = StateOf(r, v, TRUE)]
       \/ /\ job[r].serial = tfstate[i].serial /\ "update" \in job[r].actions /\ vm[v].job = "none"
          /\ vm' = [vm EXCEPT ![v] = U] /\ tfstate' = [tfstate EXCEPT ![i] = StateOf(r, v, FALSE)]
       \/ /\ job[r].serial = tfstate[i].serial /\ "delete" \in job[r].actions
          /\ vm' = [vm EXCEPT ![v] = Free] /\ tfstate' = [tfstate EXCEPT ![i] = N]
  BY <1>2, <1>4, <1>9, <1>10, <1>12 DEF jobApplies
<1>15. ASSUME NEW b \in BOOLEAN
       PROVE  /\ StateOf(r, v, b) \in States /\ StateOf(r, v, b).vmid = v
              /\ StateOf(r, v, b).serial = tfstate[i].serial + 1
  BY <1>1, <1>2, <1>5, BuiltTyped
<1>16. CASE /\ vm[v] = Free
            /\ vm' = [vm EXCEPT ![v] = B] /\ tfstate' = [tfstate EXCEPT ![i] = StateOf(r, v, FALSE)]
  <2>1. B \in VMs /\ B.owner = i /\ B.job = "none"
    BY <1>1, <1>2, <1>5, <1>9, BuiltTyped
  <2>2. Applied(r, v, B, StateOf(r, v, FALSE))
    BY <1>2, <1>15, <1>16, <2>1 DEF Applied
  <2> QED
    BY <1>5, <1>15, <2>1, <2>2
<1>17. CASE /\ vm[v] = Free
            /\ vm' = [vm EXCEPT ![v] = [B EXCEPT !.power = "stopped"]]
            /\ tfstate' = [tfstate EXCEPT ![i] = StateOf(r, v, TRUE)]
  <2>1. PICK C : C = [B EXCEPT !.power = "stopped"]
    OBVIOUS
  <2>2. C \in VMs /\ C.owner = i /\ C.job = "none"
    <3>1. B \in VMs /\ B.owner = i /\ B.job = "none"
      BY <1>1, <1>2, <1>5, <1>9, BuiltTyped
    <3> QED
      BY <2>1, <3>1 DEF VMs, Powers
  <2>3. Applied(r, v, C, StateOf(r, v, TRUE))
    BY <1>2, <1>15, <1>17, <2>1, <2>2 DEF Applied
  <2> QED
    BY <1>5, <1>15, <2>2, <2>3
<1>18. CASE /\ job[r].serial = tfstate[i].serial /\ "update" \in job[r].actions /\ vm[v].job = "none"
            /\ vm' = [vm EXCEPT ![v] = U] /\ tfstate' = [tfstate EXCEPT ![i] = StateOf(r, v, FALSE)]
  <2>1. vm[v].owner = i
    BY <1>7, <1>18
  <2>2. Applied(r, v, U, StateOf(r, v, FALSE))
    BY <1>2, <1>13, <1>15, <1>18, <2>1 DEF Applied
  <2> QED
    BY <1>5, <1>13, <1>15, <2>2
<1>19. CASE /\ job[r].serial = tfstate[i].serial /\ "delete" \in job[r].actions
            /\ vm' = [vm EXCEPT ![v] = Free] /\ tfstate' = [tfstate EXCEPT ![i] = N]
  <2>1. vm[v].owner = i /\ run[r].purge
    BY <1>7, <1>8, <1>19
  <2>2. Applied(r, v, Free, N)
    BY <1>2, <1>11, <1>19, <2>1, FreeTyped DEF Applied
  <2> QED
    BY <1>5, <1>11, <2>2, FreeTyped
<1> QED
  BY <1>14, <1>16, <1>17, <1>18, <1>19

LEMMA jobAppliesKeeps ==
  ASSUME AInv, NEW r \in Runs, jobApplies(r), UNCHANGED adapter
  PROVE  AInv'
<1>1. Typed /\ RunsFit /\ StatesFit /\ adapter = "terraform"
  BY RunsAreTerraform DEF AInv
<1>2. /\ job[r].at = "apply" /\ run' = run /\ stranded' = stranded
      /\ UNCHANGED <<call, resource, waiting, lease>>
  BY DEF jobApplies
<1>3. PICK code \in {0, 1} : job' = [job EXCEPT ![r] = [NoJob EXCEPT !.at = "complete", !.exit = code]]
  BY DEF jobApplies, Exit
<1>4. PICK j : j = [NoJob EXCEPT !.at = "complete", !.exit = code]
  OBVIOUS
<1>5. j \in JobRecords /\ j.at = "complete" /\ j.actions = {}
  <2>1. "complete" \in JobAts /\ code \in Nat
    BY DEF JobAts
  <2> QED
    BY <1>4, <2>1, NoJobTyped DEF JobRecords
<1>6. RunsKept(r) /\ JobsKept(r, j) /\ job'[r] = j
  BY <1>1, <1>2, <1>3, <1>4, <1>5, JobUpdated, SameRuns DEF JobsKept
<1>7. RunFits(r)'
  <2>1. run[r].token <= lease[run[r].inst]
    BY <1>1 DEF RunsFit, RunFits
  <2> QED
    BY <1>2, <1>5, <1>6, <2>1 DEF RunFits
<1>8. CASE vm' = vm /\ tfstate' = tfstate
  <2>1. PlanFits(r)'
    BY <1>5, <1>6 DEF PlanFits
  <2> QED
    BY <1>1, <1>2, <1>5, <1>6, <1>7, <1>8, <2>1, PlainJobStepKeeps
<1>9. CASE \E v \in Vmids : \E new \in VMs : \E x \in States : Applied(r, v, new, x)
  <2>1. PICK v \in Vmids, new \in VMs, x \in States : Applied(r, v, new, x)
    BY <1>9
  <2>2. PICK i \in Instances : i = run[r].inst
    BY <1>1, RunTyped
  <2>3. /\ vm' = [vm EXCEPT ![v] = new] /\ tfstate' = [tfstate EXCEPT ![i] = x]
        /\ new.job = "none" /\ x.serial = tfstate[i].serial + 1
        /\ \/ vm[v] = Free /\ new.owner = i /\ x.vmid = v
           \/ vm[v].owner = i /\ new.owner = i /\ x.vmid = v
           \/ vm[v].owner = i /\ new = Free /\ x.vmid = None /\ run[r].purge
    BY <2>1, <2>2 DEF Applied
  <2>4. vm \in [Vmids -> VMs] /\ tfstate \in [Instances -> States]
    BY <1>1 DEF Typed
  <2>5. vm' \in [Vmids -> VMs] /\ tfstate' \in [Instances -> States]
    BY <2>3, <2>4
  <2>6. \A q \in Runs : PlanFits(q)'
    <3>1. SUFFICES ASSUME NEW q \in Runs PROVE PlanFits(q)'
      OBVIOUS
    <3>2. /\ job'[q].actions = job[q].actions \/ job'[q].actions = {}
          /\ job'[q].at = "apply" => job[q].at = "apply" /\ job'[q].serial = job[q].serial
      BY <1>5, <1>6 DEF JobsKept
    <3> QED
      BY <1>1, <1>2, <2>3, <3>2, NewStateKeepsPlans
  <2>7. \A w \in Vmids : vm'[w].job \notin {"clone", "destroy"}
    BY <1>1, <2>3, <2>4 DEF StatesFit
  <2>8. \A k \in Instances : tfstate'[k].vmid # None => vm'[tfstate'[k].vmid].owner = k
    <3>1. SUFFICES ASSUME NEW k \in Instances, tfstate'[k].vmid # None
                   PROVE  vm'[tfstate'[k].vmid].owner = k
      OBVIOUS
    <3>2. CASE k = i
      BY <2>3, <2>4, <3>1, <3>2
    <3>3. CASE k # i
      <4>1. tfstate'[k] = tfstate[k] /\ tfstate[k].vmid \in Vmids
        BY <2>3, <2>4, <3>1, <3>3 DEF States, Nullable
      <4>2. vm[tfstate[k].vmid].owner = k
        BY <1>1, <3>1, <4>1 DEF StatesFit
      <4>3. tfstate[k].vmid # v
        BY <2>3, <3>3, <4>2, FreeTyped, PortAssumption
      <4> QED
        BY <2>3, <2>4, <4>1, <4>2, <4>3
    <3> QED
      BY <3>2, <3>3
  <2>9. StatesFit'
    BY <1>1, <1>2, <2>6, <2>7, <2>8 DEF StatesFit, Runs
  <2>10. \A w \in Vmids : vm'[w].owner # vm[w].owner => vm[w].owner \in {None, i}
    BY <2>3, <2>4, FreeTyped
  <2> QED
    BY <1>1, <1>2, <1>5, <1>6, <1>7, <2>2, <2>5, <2>9, <2>10, JobStepKeeps
<1> QED
  BY <1>8, <1>9, jobAppliesEffect

-----------------------------------------------------------------------------
(* The callers.                                                            *)

LEMMA NoCallFacts ==
  /\ NoCall \in CallRecords /\ CallFits(NoCall)
  /\ NoCall.at = "free" /\ NoCall.inst = None /\ NoCall.vmid = None
  /\ NoCall.live = FALSE /\ NoCall.alone = FALSE
<1>1. <<>> \in Seq(Effects) /\ {} \in SUBSET Vmids
  OBVIOUS
<1>2. NoCall \in CallRecords
  BY <1>1 DEF NoCall, CallRecords, Ats, Nullable, Gates, Powers
<1>3. NoCall.at = "free" /\ NoCall.done = 0 /\ NoCall.answer = "none" /\ NoCall.inst = None /\ NoCall.vmid = None
  BY DEF NoCall
<1>4. NoCall.live = FALSE /\ NoCall.alone = FALSE
  BY DEF NoCall
<1>5. CallFits(NoCall)
  BY <1>3, NotRefusals DEF CallFits
<1> QED
  BY <1>2, <1>3, <1>4, <1>5

Firsts == {"violates_boundary", "list", "search", "owned", "plan", "refresh", "live", "state"}

LEMMA StartCallKeeps ==
  ASSUME AInv, NEW s \in Slots, NEW i \in Instances, NEW m \in CallNames, NEW disk \in Nat,
         NEW first \in Firsts, NEW alone \in BOOLEAN,
         StartCall(s, i, m, disk, first, alone), UNCHANGED <<tfstate, run, job, stranded, adapter>>,
         first = "list" => m = "create",
         first = "owned" => m \notin {"create", "observe"},
         first = "live" => m \in Direct \cup {"purge"},
         alone => Quiet(i),
         (alone /\ adapter = "terraform") =>
           \A r \in Runs : run[r].inst = i => job[r].at \notin {"plan", "apply"}
  PROVE  AInv'
<1>1. Typed /\ CallsFit /\ RunsFit /\ TokensFit /\ StatesFit /\ SoleHandlers /\ UndisturbedHandlers
  BY DEF AInv
<1>2. /\ call[s].at = "free" /\ waiting[i] = "idle" /\ MayCall(i, m)
      /\ lease' = [lease EXCEPT ![i] = lease[i] + 1]
      /\ waiting' = [waiting EXCEPT ![i] = s]
      /\ vm' = vm /\ resource' = resource
  BY <1>1 DEF StartCall, At, Typed
<1>3. PICK v \in Nullable(Vmids) : v = resource[i]
  BY <1>1 DEF Typed
<1>4. PICK n \in Nat : n = lease[i] + 1
  BY <1>1 DEF Typed
<1>5. PICK d : d = [NoCall EXCEPT !.at = first, !.inst = i, !.method = m, !.disk = disk,
                                  !.vmid = v, !.live = TRUE, !.token = n, !.alone = alone]
  OBVIOUS
<1>6. call' = [call EXCEPT ![s] = d]
  BY <1>3, <1>4, <1>5 DEF StartCall
<1>7. /\ d \in CallRecords /\ d.at = first /\ d.inst = i /\ d.method = m /\ d.vmid = v
      /\ d.done = 0 /\ d.answer = "none" /\ d.token = n
  <2>1. first \in Ats /\ i \in Nullable(Instances) /\ m \in CallNames \cup {"none"}
    BY DEF Firsts, Ats, Nullable
  <2>2. NoCall \in CallRecords /\ NoCall.done = 0 /\ NoCall.answer = "none"
    BY NoCallFacts DEF NoCall
  <2>3. ASSUME NEW live \in BOOLEAN
        PROVE  [NoCall EXCEPT !.at = first, !.inst = i, !.method = m, !.disk = disk,
                  !.vmid = v, !.live = live, !.token = n, !.alone = alone] \in CallRecords
    BY <2>1, <2>2 DEF CallRecords
  <2> QED
    BY <1>5, <2>1, <2>2, <2>3 DEF CallRecords
<1>8. d.live = TRUE /\ d.alone = alone
  BY <1>5, NoCallFacts DEF CallRecords
<1>9. call \in [Slots -> CallRecords] /\ call'[s] = d /\ \A t \in Slots : t # s => call'[t] = call[t]
  BY <1>1, <1>6 DEF Typed
<1>10. call' \in [Slots -> CallRecords]
  BY <1>6, <1>7, <1>9
<1>11. \A k \in Instances : lease[k] \in Nat /\ lease'[k] \in Nat /\ lease'[k] >= lease[k]
  BY <1>1, <1>2, <1>4 DEF Typed
<1>12. lease' \in [Instances -> Nat] /\ lease'[i] = n /\ waiting' \in [Instances -> Slots \cup {"idle", "task"}]
       /\ waiting'[i] = s /\ \A k \in Instances : k # i => waiting'[k] = waiting[k]
  BY <1>1, <1>2, <1>4 DEF Typed
<1>13. Typed'
  BY <1>1, <1>2, <1>10, <1>12 DEF Typed
<1>14. m \notin {"create", "observe"} => v \in Vmids /\ v # None
  BY <1>2, <1>3, PortAssumption DEF MayCall, Nullable
<1>15. CallFits(d)
  <2>1. first \in {"existing", "owned", "status", "live", "post"} => m \notin {"create", "observe"}
    BY DEF Firsts, Direct
  <2> QED
    BY <1>7, <1>14, <2>1, NotRefusals DEF CallFits, Firsts
<1>16. CallsFit'
  BY <1>1, <1>9, <1>15 DEF CallsFit
<1>17. SoleHandlers'
  <2>1. SUFFICES ASSUME NEW t \in Slots, call'[t].live PROVE Sole(t)'
    BY DEF SoleHandlers, Sole
  <2>2. CASE t = s
    <3>1. alone => \A u \in Slots : call[u].inst # i
      BY DEF Quiet
    <3> QED
      BY <1>7, <1>8, <1>9, <1>12, <2>2, <3>1 DEF Sole
  <2>3. CASE t # s
    <3>1. call'[t] = call[t] /\ Sole(t) /\ call[t].live
      BY <1>1, <1>9, <2>1, <2>3 DEF SoleHandlers
    <3>2. call[t].inst \in Instances /\ call[t].inst # i
      BY <1>2, <3>1, PortAssumption DEF Sole
    <3> QED
      BY <1>7, <1>9, <1>12, <3>1, <3>2 DEF Sole
  <2> QED
    BY <2>2, <2>3
<1>18. RunsFit'
  <2>1. SUFFICES ASSUME NEW r \in Runs PROVE RunFits(r)'
    BY <1>1 DEF RunsFit, Runs
  <2>2. Refusing(r) => Refusing(r)'
    BY <1>2, <1>9, RefusalsStand DEF StillRefusing
  <2>3. run[r].inst \in Instances /\ run[r].token \in Nat /\ RunFits(r)
    BY <1>1, RunTyped DEF RunRecords, RunsFit
  <2> QED
    BY <1>11, <2>3, <2>2 DEF RunFits
<1>19. TokensFit'
  <2>1. SUFFICES ASSUME NEW t \in Slots PROVE TokenFits(call[t])'
    BY DEF TokensFit
  <2>2. CASE t = s
    BY <1>7, <1>9, <1>12, <2>2 DEF TokenFits, Firsts
  <2>3. CASE t # s
    <3>1. call'[t] = call[t] /\ TokenFits(call[t]) /\ call[t].token \in Nat
          /\ (call[t].at # "free" => call[t].inst \in Instances)
      BY <1>1, <1>9, <2>3 DEF TokensFit, CallsFit, CallFits, CallRecords
    <3> QED
      BY <1>11, <3>1 DEF TokenFits
  <2> QED
    BY <2>2, <2>3
<1>20. StatesFit'
  <2>1. \A t \in Slots : call'[t].at = "post" => call'[t] = call[t]
    BY <1>7, <1>9 DEF Firsts
  <2>2. \A r \in Runs : PlanFits(r) <=> PlanFits(r)'
    BY DEF PlanFits
  <2> QED
    BY <1>1, <1>2, <2>1, <2>2 DEF StatesFit, Runs
<1>21. UndisturbedHandlers'
  <2>1. SUFFICES ASSUME NEW t \in Slots, Guarded(t)' PROVE Undisturbed(t)'
    BY DEF UndisturbedHandlers, Undisturbed
  <2>2. CASE t = s
    <3>1. alone /\ Quiet(i) /\ first \notin {"status", "post"} /\ m \notin {"create", "observe"}
      BY <1>7, <1>8, <1>9, <2>1, <2>2 DEF Guarded, Firsts, Direct
    <3>2. vm[v].job = "none" /\ \A u \in Slots : call[u].vmid # v
      BY <1>3, <1>14, <3>1 DEF Quiet
    <3>3. \A u \in Slots \ {s} : call'[u].vmid # v
      BY <1>9, <3>2
    <3> QED
      BY <1>2, <1>7, <1>9, <2>2, <3>1, <3>2, <3>3 DEF Undisturbed, Runs
  <2>3. CASE t # s
    <3>1. call'[t] = call[t] /\ Guarded(t) /\ Undisturbed(t)
      BY <1>1, <1>9, <2>1, <2>3 DEF Guarded, UndisturbedHandlers
    <3>2. call'[s].at \notin {"status", "post"}
      BY <1>7, <1>9 DEF Firsts
    <3> QED
      BY <1>2, <1>9, <3>1, <3>2 DEF Undisturbed, Runs
  <2> QED
    BY <2>2, <2>3
<1> QED
  BY <1>13, <1>16, <1>17, <1>18, <1>19, <1>20, <1>21 DEF AInv

(* Runs and states stand while only the callers and their calls change.    *)
LEMMA RunsStand ==
  ASSUME AInv, UNCHANGED <<lease, tfstate, run, job, stranded, adapter, vm>>,
         \A t \in Slots : call[t].at = "refuse" => call'[t].at = "refuse" /\ call'[t].seen = call[t].seen,
         \A t \in Slots : call'[t].at = "post" => call[t].at = "post" /\ call'[t].method = call[t].method
  PROVE  RunsFit' /\ StatesFit'
<1>1. RunsFit /\ StatesFit
  BY DEF AInv
<1>2. RunsFit'
  BY <1>1 DEF RunsFit, RunFits, Runs, Refusing
<1>3. \A r \in Runs : PlanFits(r) <=> PlanFits(r)'
  BY DEF PlanFits
<1> QED
  BY <1>1, <1>2, <1>3 DEF StatesFit, Runs

LEMMA DeliverKeeps ==
  ASSUME AInv, NEW s \in Slots, Deliver(s), UNCHANGED <<tfstate, run, job, stranded, adapter>>
  PROVE  AInv'
<1>1. Typed /\ CallsFit /\ TokensFit /\ SoleHandlers /\ UndisturbedHandlers
  BY DEF AInv
<1>2. /\ call[s].at = "answered" /\ call' = [call EXCEPT ![s] = NoCall]
      /\ UNCHANGED <<vm, lease>>
  BY DEF Deliver, At
<1>3. PICK i : i = call[s].inst
  OBVIOUS
<1>4. i \in Instances /\ call \in [Slots -> CallRecords] /\ call[s].vmid \in Nullable(Vmids)
  BY <1>1, <1>2, <1>3 DEF CallsFit, CallFits, Typed, CallRecords
<1>5. call'[s] = NoCall /\ \A t \in Slots : t # s => call'[t] = call[t]
  BY <1>2, <1>4
<1>6. call' \in [Slots -> CallRecords]
  BY <1>2, <1>4, NoCallFacts
<1>7. resource' \in [Instances -> Nullable(Vmids)]
  BY <1>1, <1>3, <1>4 DEF Deliver, Typed
<1>8. /\ waiting' \in [Instances -> Slots \cup {"idle", "task"}]
      /\ \A k \in Instances : waiting'[k] = waiting[k] \/ (k = i /\ call[s].live)
  BY <1>1, <1>3, <1>4 DEF Deliver, Typed
<1>9. Typed'
  BY <1>1, <1>2, <1>6, <1>7, <1>8 DEF Typed
<1>10. CallsFit'
  BY <1>1, <1>5, NoCallFacts DEF CallsFit
<1>11. SoleHandlers'
  <2>1. SUFFICES ASSUME NEW t \in Slots, call'[t].live PROVE Sole(t)'
    BY DEF SoleHandlers, Sole
  <2>2. t # s /\ call'[t] = call[t] /\ Sole(t) /\ Sole(s)
    BY <1>1, <1>5, <2>1, NoCallFacts DEF SoleHandlers
  <2>3. call[t].inst \in Instances /\ waiting'[call[t].inst] = t
    BY <1>3, <1>8, <2>1, <2>2 DEF Sole
  <2>4. None \notin Instances
    BY PortAssumption
  <2>5. call[t].alone => \A u \in Slots : u # t => call'[u].inst # call[t].inst
    BY <1>5, <2>1, <2>2, <2>3, <2>4, NoCallFacts DEF Sole
  <2> QED
    BY <2>2, <2>3, <2>5 DEF Sole
<1>12. TokensFit'
  <2>1. TokenFits(NoCall)'
    BY NoCallFacts DEF TokenFits
  <2>2. \A t \in Slots : t # s => TokenFits(call[t])'
    BY <1>1, <1>2, <1>5 DEF TokensFit, TokenFits
  <2> QED
    BY <1>5, <2>1, <2>2 DEF TokensFit, TokenFits
<1>13. RunsFit' /\ StatesFit'
  <2>1. \A t \in Slots : call'[t].at = "post" => call[t].at = "post" /\ call'[t].method = call[t].method
    BY <1>5, NoCallFacts
  <2>2. \A t \in Slots : call[t].at = "refuse" => call'[t].at = "refuse" /\ call'[t].seen = call[t].seen
    BY <1>2, <1>5
  <2> QED
    BY <1>2, <2>1, <2>2, RunsStand
<1>14. UndisturbedHandlers'
  <2>1. SUFFICES ASSUME NEW t \in Slots, Guarded(t)' PROVE Undisturbed(t)'
    BY DEF UndisturbedHandlers, Undisturbed
  <2>2. t # s /\ call'[t] = call[t] /\ Guarded(t) /\ Undisturbed(t)
    BY <1>1, <1>5, <2>1, NoCallFacts DEF Guarded, UndisturbedHandlers
  <2>3. \A u \in Slots : call'[u].at \in {"status", "post"} => call'[u] = call[u]
    BY <1>5, NoCallFacts
  <2> QED
    BY <1>2, <2>2, <2>3 DEF Undisturbed, Runs
<1> QED
  BY <1>9, <1>10, <1>11, <1>12, <1>13, <1>14 DEF AInv

LEMMA AbandonKeeps ==
  ASSUME AInv, NEW i \in Instances, Abandon(i), UNCHANGED <<tfstate, run, job, stranded, adapter>>
  PROVE  AInv'
<1>1. Typed /\ CallsFit /\ TokensFit /\ SoleHandlers /\ UndisturbedHandlers
  BY DEF AInv
<1>2. PICK s \in Slots : s = waiting[i]
  BY DEF Abandon
<1>3. /\ call' = [call EXCEPT ![s].live = FALSE] /\ waiting' = [waiting EXCEPT ![i] = "idle"]
      /\ UNCHANGED <<vm, resource, lease>>
  BY <1>2 DEF Abandon
<1>4. PICK d : d = [call[s] EXCEPT !.live = FALSE]
  OBVIOUS
<1>5. call \in [Slots -> CallRecords] /\ call[s] \in CallRecords
  BY <1>1 DEF Typed
<1>6. call'[s] = d /\ call' = [call EXCEPT ![s] = d] /\ \A t \in Slots : t # s => call'[t] = call[t]
  BY <1>3, <1>4, <1>5
<1>7. /\ d \in CallRecords /\ d.at = call[s].at /\ d.inst = call[s].inst /\ d.method = call[s].method
      /\ d.vmid = call[s].vmid /\ d.posts = call[s].posts /\ d.done = call[s].done
      /\ d.token = call[s].token /\ d.seen = call[s].seen /\ d.answer = call[s].answer
  BY <1>4, <1>5 DEF CallRecords
<1>8. d.live = FALSE /\ d.garbled = call[s].garbled
  BY <1>4, <1>5 DEF CallRecords
<1>9. call' \in [Slots -> CallRecords]
  BY <1>5, <1>6, <1>7
<1>10. /\ waiting' \in [Instances -> Slots \cup {"idle", "task"}]
       /\ \A k \in Instances : k # i => waiting'[k] = waiting[k]
  BY <1>1, <1>3 DEF Typed
<1>11. Typed'
  BY <1>1, <1>3, <1>9, <1>10 DEF Typed
<1>12. CallFits(d)
  <2>1. CallFits(call[s])
    BY <1>1 DEF CallsFit
  <2>2. call[s].at = "free" => d = NoCall
    <3>1. ASSUME NEW c \in CallRecords, NEW b, c.live = b
          PROVE  [c EXCEPT !.live = b] = c
      BY <3>1 DEF CallRecords
    <3> QED
      BY <1>4, <2>1, <3>1, NoCallFacts DEF CallFits
  <2>3. PostsFit(call[s]) => PostsFit(d)
    BY <1>7 DEF PostsFit
  <2> QED
    BY <1>7, <1>8, <2>1, <2>2, <2>3 DEF CallFits
<1>13. CallsFit'
  BY <1>1, <1>6, <1>12 DEF CallsFit
<1>14. SoleHandlers'
  <2>1. SUFFICES ASSUME NEW t \in Slots, call'[t].live PROVE Sole(t)'
    BY DEF SoleHandlers, Sole
  <2>2. t # s /\ call'[t] = call[t] /\ Sole(t)
    BY <1>1, <1>6, <1>8, <2>1 DEF SoleHandlers
  <2>3. call[t].inst \in Instances /\ waiting'[call[t].inst] = t
    BY <1>2, <1>10, <2>1, <2>2 DEF Sole
  <2>4. \A u \in Slots : call'[u].inst = call[u].inst
    BY <1>6, <1>7
  <2> QED
    BY <2>1, <2>2, <2>3, <2>4 DEF Sole
<1>15. TokensFit'
  <2>1. SUFFICES ASSUME NEW t \in Slots PROVE TokenFits(call[t])'
    BY DEF TokensFit
  <2>2. call'[t].at = call[t].at /\ call'[t].inst = call[t].inst /\ call'[t].token = call[t].token
        /\ call'[t].seen = call[t].seen /\ TokenFits(call[t])
    BY <1>1, <1>6, <1>7 DEF TokensFit
  <2> QED
    BY <1>3, <2>2 DEF TokenFits
<1>16. RunsFit' /\ StatesFit'
  <2>1. \A t \in Slots : call'[t].at = "post" => call[t].at = "post" /\ call'[t].method = call[t].method
    BY <1>6, <1>7
  <2>2. \A t \in Slots : call[t].at = "refuse" => call'[t].at = "refuse" /\ call'[t].seen = call[t].seen
    BY <1>6, <1>7
  <2> QED
    BY <1>3, <2>1, <2>2, RunsStand
<1>17. UndisturbedHandlers'
  <2>1. SUFFICES ASSUME NEW t \in Slots, Guarded(t)' PROVE Undisturbed(t)'
    BY DEF UndisturbedHandlers, Undisturbed
  <2>2. t # s /\ call'[t] = call[t] /\ Guarded(t) /\ Undisturbed(t)
    BY <1>1, <1>6, <1>8, <2>1 DEF Guarded, UndisturbedHandlers
  <2>3. \A u \in Slots : call'[u].at = call[u].at /\ call'[u].vmid = call[u].vmid
    BY <1>6, <1>7
  <2> QED
    BY <1>3, <2>2, <2>3 DEF Undisturbed, Runs
<1> QED
  BY <1>11, <1>13, <1>14, <1>15, <1>16, <1>17 DEF AInv

LEMMA PollKeeps ==
  ASSUME AInv, NEW i \in Instances, PollTask(i), UNCHANGED adapter
  PROVE  AInv'
<1>1. Typed /\ CallsFit /\ TokensFit /\ SoleHandlers /\ UndisturbedHandlers
  BY DEF AInv
<1>2. /\ waiting[i] = "task" /\ waiting' = [waiting EXCEPT ![i] = "idle"]
      /\ UNCHANGED <<vm, call, resource, lease, tfstate, run, job, stranded>>
  BY DEF PollTask, getTask, getRunState, runVars
<1>3. /\ waiting' \in [Instances -> Slots \cup {"idle", "task"}]
      /\ \A k \in Instances : k # i => waiting'[k] = waiting[k]
  BY <1>1, <1>2 DEF Typed
<1>4. Typed' /\ CallsFit' /\ TokensFit'
  BY <1>1, <1>2, <1>3 DEF Typed, CallsFit, TokensFit, TokenFits
<1>5. SoleHandlers'
  <2>1. SUFFICES ASSUME NEW t \in Slots, call[t].live PROVE Sole(t)'
    BY <1>2 DEF SoleHandlers, Sole
  <2>2. Sole(t) /\ t # "task"
    BY <1>1, PortAssumption DEF SoleHandlers
  <2> QED
    BY <1>2, <1>3, <2>1, <2>2 DEF Sole
<1>6. RunsFit' /\ StatesFit'
  BY <1>2, RunsStand
<1>7. UndisturbedHandlers'
  BY <1>1, <1>2 DEF UndisturbedHandlers, Undisturbed, Guarded, Runs
<1> QED
  BY <1>4, <1>5, <1>6, <1>7 DEF AInv

LEMMA TaskEndsKeeps ==
  ASSUME AInv, NEW v \in Vmids, TaskEnds(v), UNCHANGED <<tfstate, run, job, stranded, adapter>>
  PROVE  AInv'
<1>1. Typed /\ CallsFit /\ RunsFit /\ TokensFit /\ StatesFit /\ SoleHandlers /\ UndisturbedHandlers
  BY DEF AInv
<1>2. vm[v].job # "none" /\ UNCHANGED <<call, resource, waiting, lease>> /\ vm \in [Vmids -> VMs] /\ vm[v] \in VMs
  BY <1>1 DEF TaskEnds, Typed
<1>3. PICK w \in {Finished(v), TaskFails(v)} : vm' = [vm EXCEPT ![v] = w]
  BY DEF TaskEnds
<1>4. /\ w \in VMs /\ w.job = "none" /\ w.owner \in {vm[v].owner, None}
      /\ vm[v].job \notin {"clone", "destroy"} => w.owner = vm[v].owner
  BY <1>2, TaskEndFacts
<1>5. vm' \in [Vmids -> VMs] /\ vm'[v] = w /\ \A u \in Vmids : u # v => vm'[u] = vm[u]
  BY <1>2, <1>3, <1>4
<1>6. Typed' /\ CallsFit' /\ RunsFit' /\ TokensFit' /\ SoleHandlers'
  <2>1. Typed' /\ CallsFit' /\ TokensFit'
    BY <1>1, <1>2, <1>5 DEF Typed, CallsFit, TokensFit, TokenFits
  <2>2. RunsFit' /\ SoleHandlers'
    BY <1>1, <1>2 DEF RunsFit, RunFits, Refusing, Runs, SoleHandlers, Sole
  <2> QED
    BY <2>1, <2>2
<1>7. StatesFit'
  <2>1. adapter = "terraform" => \A u \in Vmids : vm'[u].owner = vm[u].owner /\ vm'[u].job \notin {"clone", "destroy"}
    BY <1>1, <1>4, <1>5 DEF StatesFit
  <2>2. \A k \in Instances : tfstate[k].vmid # None => tfstate[k].vmid \in Vmids
    BY <1>1 DEF Typed, States, Nullable
  <2>3. \A r \in Runs : PlanFits(r) <=> PlanFits(r)'
    BY DEF PlanFits
  <2> QED
    BY <1>1, <1>2, <2>1, <2>2, <2>3 DEF StatesFit, Runs
<1>8. UndisturbedHandlers'
  <2>1. SUFFICES ASSUME NEW t \in Slots, Guarded(t) PROVE Undisturbed(t)'
    BY <1>2 DEF UndisturbedHandlers, Undisturbed, Guarded
  <2>2. /\ Undisturbed(t) /\ call[t].inst \in Instances /\ call[t].vmid \in Vmids
        /\ adapter \in {"proxmox", "terraform"} /\ None \notin Instances
    BY <1>1, <2>1, PortAssumption DEF UndisturbedHandlers, CallsFit, CallFits, Guarded, Typed
  <2>3. vm[call[t].vmid].owner = call[t].inst => vm'[call[t].vmid].owner = call[t].inst
    BY <1>1, <1>2, <1>4, <1>5, <2>1, <2>2 DEF Undisturbed, StatesFit
  <2>4. vm'[call[t].vmid].owner = call[t].inst => vm[call[t].vmid].owner = call[t].inst
    BY <1>4, <1>5, <2>2
  <2>5. vm'[call[t].vmid] = vm[call[t].vmid] \/ vm'[call[t].vmid].job = "none"
    BY <1>4, <1>5, <2>2
  <2> QED
    BY <1>2, <2>1, <2>2, <2>3, <2>4, <2>5 DEF Undisturbed, Runs
<1> QED
  BY <1>6, <1>7, <1>8 DEF AInv

-----------------------------------------------------------------------------
(* The invariant.                                                          *)

LEMMA BackgroundRefreshKeeps ==
  ASSUME AInv, NEW i \in Instances, refreshAfterDirectMutation(i), UNCHANGED adapter
  PROVE  AInv'
<1>1. Typed /\ CallsFit /\ RunsFit /\ TokensFit /\ SoleHandlers /\ UndisturbedHandlers
  BY DEF AInv
<1>2. UNCHANGED <<vm, call, resource, waiting, lease, run, job, stranded>> /\ refresh(i)
  BY DEF refreshAfterDirectMutation, refresh, portVars
<1>3. StatesFit' /\ tfstate' \in [Instances -> States]
  BY <1>2, RefreshKeepsStates
<1>4. Typed' /\ CallsFit' /\ TokensFit'
  BY <1>1, <1>2, <1>3 DEF Typed, CallsFit, TokensFit, TokenFits
<1>5. RunsFit' /\ SoleHandlers'
  BY <1>1, <1>2 DEF RunsFit, RunFits, Refusing, Runs, SoleHandlers, Sole
<1>6. UndisturbedHandlers'
  BY <1>1, <1>2 DEF UndisturbedHandlers, Undisturbed, Guarded, Runs
<1> QED
  BY <1>3, <1>4, <1>5, <1>6 DEF AInv

LEMMA AdapterCrashKeeps ==
  ASSUME AInv, AdapterCrash, UNCHANGED adapter
  PROVE  AInv'
<1>1. Typed /\ CallsFit /\ RunsFit /\ TokensFit /\ StatesFit /\ SoleHandlers
  BY DEF AInv
<1>2. /\ UNCHANGED <<vm, resource, waiting, lease, tfstate, run>>
      /\ stranded' = stranded \cup {r \in Runs : run[r].status = "running"}
      /\ job' = [r \in Runs |-> NoJob]
      /\ call' = [s \in Slots |-> IF call[s].at = "free" THEN NoCall ELSE Answered(call[s], "unavailable")]
  BY DEF AdapterCrash, UNCHANGEDButCalls
<1>3. run \in Seq(RunRecords) /\ Len(run) \in Nat /\ Runs = 1..Len(run)
  BY <1>1 DEF Typed, Runs
<1>4. job' \in Seq(JobRecords) /\ Len(job') = Len(run) /\ \A r \in Runs : job'[r] = NoJob
  <2>1. job' = [r \in 1..Len(run) |-> NoJob]
    BY <1>2, <1>3
  <2> QED
    BY <1>3, <2>1, NoJobTyped
<1>5. ASSUME NEW s \in Slots
      PROVE  /\ call'[s] \in CallRecords /\ CallFits(call'[s])
             /\ call'[s].at \in {"free", "answered"}
             /\ call'[s].at # "free" => call[s].at # "free" /\ call'[s].token = 0
             /\ call'[s].inst = call[s].inst
             /\ call'[s].live = call[s].live /\ call'[s].alone = call[s].alone
  <2>1. call[s] \in CallRecords /\ CallFits(call[s])
    BY <1>1 DEF Typed, CallsFit
  <2>2. CASE call[s].at = "free"
    BY <1>2, <2>1, <2>2, NoCallFacts DEF CallFits
  <2>3. CASE call[s].at # "free"
    <3>1. PICK d : d = Answered(call[s], "unavailable")
      OBVIOUS
    <3>2. "unavailable" \in Answers
      BY DEF Answers, LostAnswer
    <3>3. /\ d \in CallRecords /\ d.at = "answered" /\ d.answer = "unavailable"
          /\ d.inst = call[s].inst /\ d.method = call[s].method
          /\ d.live = call[s].live /\ d.alone = call[s].alone /\ d.token = 0
      BY <2>1, <3>1, <3>2, AnsweredFields
    <3>4. CallFits(d)
      BY <2>1, <2>3, <3>3, NotRefusals DEF CallFits
    <3>5. call'[s] = d
      BY <1>2, <2>3, <3>1
    <3> QED
      BY <2>3, <3>3, <3>4, <3>5
  <2> QED
    BY <2>2, <2>3
<1>6. call' \in [Slots -> CallRecords]
  <2>1. \A s \in Slots : call'[s] \in CallRecords
    BY <1>5
  <2>2. call' = [s \in Slots |-> call'[s]]
    BY <1>2
  <2> QED
    BY <2>1, <2>2
<1>7. Typed'
  BY <1>1, <1>2, <1>4, <1>6 DEF Typed
<1>8. CallsFit' /\ SoleHandlers'
  <2>1. CallsFit'
    BY <1>5 DEF CallsFit
  <2>2. SoleHandlers'
    BY <1>1, <1>2, <1>5 DEF SoleHandlers, Sole
  <2> QED
    BY <2>1, <2>2
<1>9. RunsFit'
  <2>1. \A r \in Runs : RunFits(r)'
    BY <1>1, <1>2, <1>4, NoJobTyped DEF RunsFit, RunFits
  <2> QED
    BY <1>2, <1>4, <2>1 DEF RunsFit, Runs
<1>10. TokensFit'
  <2>1. SUFFICES ASSUME NEW s \in Slots PROVE TokenFits(call[s])'
    BY DEF TokensFit
  <2>2. call'[s].at # "free" => call[s].inst \in Instances /\ call'[s].inst = call[s].inst /\ call'[s].token = 0
    BY <1>1, <1>5 DEF CallsFit, CallFits
  <2>3. \A k \in Instances : 0 <= lease[k]
    BY <1>1 DEF Typed
  <2> QED
    BY <1>2, <1>5, <2>2, <2>3 DEF TokenFits
<1>11. StatesFit'
  <2>1. \A r \in Runs : PlanFits(r)'
    BY <1>4, NoJobTyped DEF PlanFits
  <2>2. \A s \in Slots : call'[s].at # "post"
    BY <1>5
  <2> QED
    BY <1>1, <1>2, <2>1, <2>2 DEF StatesFit, Runs
<1>12. UndisturbedHandlers'
  BY <1>5 DEF UndisturbedHandlers, Undisturbed, Guarded
<1> QED
  BY <1>7, <1>8, <1>9, <1>10, <1>11, <1>12 DEF AInv

LEMMA AInit ==
  ASSUME AdaptersInit
  PROVE  AInv
<1>1. /\ vm = [v \in Vmids |-> Free] /\ call = [s \in Slots |-> NoCall]
      /\ resource = [i \in Instances |-> None] /\ waiting = [i \in Instances |-> "idle"]
      /\ lease = [i \in Instances |-> 0] /\ tfstate = [i \in Instances |-> NoState]
      /\ run = <<>> /\ job = <<>> /\ stranded = {} /\ adapter \in {"proxmox", "terraform"}
  BY DEF AdaptersInit, PortInit, TerraformInit
<1>2. Typed
  <2>1. None \in Nullable(Vmids) /\ run \in Seq(RunRecords) /\ job \in Seq(JobRecords)
    BY <1>1 DEF Nullable
  <2> QED
    BY <1>1, <2>1, FreeTyped, NoCallFacts, NoStateTyped DEF Typed
<1>3. \A s \in Slots : call[s] = NoCall
  BY <1>1
<1>4. CallsFit /\ SoleHandlers /\ UndisturbedHandlers /\ TokensFit
  <2>1. CallsFit /\ SoleHandlers
    BY <1>3, NoCallFacts DEF CallsFit, SoleHandlers, Sole
  <2>2. UndisturbedHandlers /\ TokensFit
    BY <1>3, NoCallFacts DEF UndisturbedHandlers, Undisturbed, Guarded, TokensFit, TokenFits
  <2> QED
    BY <2>1, <2>2
<1>5. Runs = {} /\ Len(run) = Len(job)
  BY <1>1 DEF Runs
<1>6. RunsFit /\ StatesFit
  <2>1. \A v \in Vmids : vm[v].job = "none"
    BY <1>1, FreeTyped
  <2>2. \A i \in Instances : tfstate[i].vmid = None
    BY <1>1, NoStateTyped
  <2>3. \A s \in Slots : call[s].at # "post"
    BY <1>3, NoCallFacts
  <2> QED
    BY <1>1, <1>5, <2>1, <2>2, <2>3 DEF RunsFit, StatesFit
<1> QED
  BY <1>2, <1>4, <1>6 DEF AInv

LEMMA CallKeeps ==
  ASSUME AInv, NEW s \in Slots, NEW i \in Instances, NEW m \in Methods, NEW disk \in DisksOf(m),
         Call(s, i, m, disk), UNCHANGED adapter
  PROVE  AInv'
<1>1. m \in CallNames /\ disk \in Nat
  BY PortAssumption DEF DisksOf
<1>2. CASE adapter = "proxmox"
  <2>1. PICK own \in BOOLEAN :
          StartCall(s, i, m, disk,
            IF ~assertOwnership(m, own) THEN "violates_boundary"
            ELSE IF m = "create" THEN "list"
            ELSE IF m = "observe" THEN "search" ELSE "owned", Quiet(i))
    BY <1>2 DEF Call, ProxmoxCall
  <2>2. PICK first \in Firsts :
          /\ first = IF ~assertOwnership(m, own) THEN "violates_boundary"
                     ELSE IF m = "create" THEN "list"
                     ELSE IF m = "observe" THEN "search" ELSE "owned"
          /\ first = "list" => m = "create"
          /\ first = "owned" => m \notin {"create", "observe"}
          /\ first # "live"
    BY DEF Firsts
  <2>3. PICK alone \in BOOLEAN : alone = Quiet(i)
    BY DEF Quiet
  <2>4. StartCall(s, i, m, disk, first, alone)
    BY <2>1, <2>2, <2>3
  <2>5. UNCHANGED <<tfstate, run, job, stranded>>
    BY <1>2 DEF Call, runVars
  <2> QED
    BY <1>1, <1>2, <2>2, <2>3, <2>4, <2>5, StartCallKeeps
<1>3. CASE adapter # "proxmox"
  <2>1. StartCall(s, i, m, disk,
          CASE m = "create" -> "plan"
            [] m = "observe" -> "refresh"
            [] m \in Direct \cup {"purge"} -> "live"
            [] OTHER -> "state",
          Quiet(i) /\ \A r \in Runs : run[r].inst = i => job[r].at \notin {"plan", "apply"})
    BY <1>3 DEF Call, TerraformCall
  <2>2. PICK first : first = CASE m = "create" -> "plan"
                               [] m = "observe" -> "refresh"
                               [] m \in Direct \cup {"purge"} -> "live"
                               [] OTHER -> "state"
    OBVIOUS
  <2>3. first \in {"plan", "refresh", "live", "state"} /\ (first = "live" => m \in Direct \cup {"purge"})
    BY <2>2 DEF Direct
  <2>4. PICK alone \in BOOLEAN :
          alone = (Quiet(i) /\ \A r \in Runs : run[r].inst = i => job[r].at \notin {"plan", "apply"})
    OBVIOUS
  <2>5. StartCall(s, i, m, disk, first, alone)
    BY <2>1, <2>2, <2>4
  <2>6. UNCHANGED <<tfstate, run, job, stranded>>
    BY <1>3 DEF Call, TerraformCall, runVars
  <2>7. first \in Firsts /\ first # "list" /\ first # "owned"
    BY <2>3 DEF Firsts
  <2> QED
    BY <1>1, <2>3, <2>4, <2>5, <2>6, <2>7, StartCallKeeps
<1> QED
  BY <1>2, <1>3

LEMMA ProxmoxHandlerKeeps ==
  ASSUME AInv, NEW s \in Slots, adapter = "proxmox", ProxmoxHandler(s),
         UNCHANGED <<tfstate, refreshing, runVars, adapter>>
  PROVE  AInv'
<1>1. Typed /\ CallsFit
  BY DEF AInv
<1>2. UNCHANGED <<tfstate, run, job, stranded>>
  BY DEF runVars
<1>3. CASE Post(s)
  BY <1>2, <1>3, PostKeeps
<1>4. CASE ~Post(s)
  <2>1. UNCHANGED <<vm, resource, waiting, lease>> /\ call[s].at \notin {"begin", "insert", "refuse"}
    BY <1>4 DEF ProxmoxHandler, Refuse, listVms, findOwnedOrFreeVmid, submitClone, Owned, currentStatus,
                observeInstance, QueryFails, UNCHANGEDButCalls, At
  <2>2. Looks(s)
    BY <1>1, <1>4, RefuseLooks, listVmsLooks, findOwnedOrFreeVmidLooks, submitCloneLooks, OwnedLooks,
       currentStatusLooks, observeInstanceLooks, QueryFailsLooks
       DEF ProxmoxHandler, Answers, LostAnswer, UnreadableAnswer
  <2>3. call'[s].at \notin {"insert", "refuse"}
    BY <2>1, <2>2 DEF Looks
  <2> QED
    BY <1>2, <2>1, <2>2, <2>3, LooksKeep
<1> QED
  BY <1>3, <1>4

LEMMA TerraformHandlerKeeps ==
  ASSUME AInv, NEW s \in Slots, adapter = "terraform", TerraformHandler(s), UNCHANGED adapter
  PROVE  AInv'
<1>1. Typed /\ CallsFit
  BY DEF AInv
<1>2. CASE directPost(s)
  BY <1>2, PostKeeps DEF directPost, runVars
<1>3. CASE observeState(s)
  BY <1>3, observeStateKeeps
<1>4. CASE insertRun(s)
  BY <1>4, insertRunKeeps
<1>5. CASE beginRun(s)
  <2>1. UNCHANGED <<vm, resource, waiting, lease, tfstate, run, job, stranded>>
    BY <1>5 DEF beginRun, UNCHANGEDButCalls, runVars
  <2>2. call[s].at = "begin"
    BY <1>5 DEF beginRun, At
  <2>3. call'[s].at # "refuse"
    BY <1>1, <1>5, <2>2, beginRunLooks DEF Looks
  <2> QED
    BY <1>1, <1>5, <2>1, <2>2, <2>3, beginRunLooks, LooksKeep
<1>6. CASE completeRefused(s)
  BY <1>6, completeRefusedKeeps
<1>7. CASE directMutation(s) \/ PurgeOwned(s) \/ readState(s) \/ startApply(s) \/ BackendUnreachable(s)
  <2>1. UNCHANGED <<vm, resource, waiting, lease, tfstate, run, job, stranded>>
        /\ call[s].at \notin {"begin", "insert", "refuse"}
    BY <1>7 DEF directMutation, PurgeOwned, readState, startApply, BackendUnreachable, QueryFails,
                UNCHANGEDButCalls, runVars, At
  <2>2. Looks(s) /\ (call'[s].at = "post" => call[s].method \in Direct)
    <3>1. CASE directMutation(s)
      BY <1>1, <3>1, directMutationLooks
    <3>2. CASE PurgeOwned(s)
      BY <1>1, <3>2, PurgeOwnedLooks
    <3>3. CASE readState(s)
      BY <1>1, <3>3, readStateLooks
    <3>4. CASE startApply(s)
      BY <1>1, <3>4, startApplyLooks
    <3>5. CASE BackendUnreachable(s)
      BY <1>1, <3>5, BackendUnreachableLooks
    <3> QED
      BY <1>7, <3>1, <3>2, <3>3, <3>4, <3>5
  <2>3. call'[s].at \notin {"insert", "refuse"}
    BY <2>1, <2>2 DEF Looks
  <2> QED
    BY <2>1, <2>2, <2>3, LooksKeep
<1> QED
  BY <1>2, <1>3, <1>4, <1>5, <1>7, <1>6 DEF TerraformHandler

LEMMA AStep ==
  ASSUME AInv, [AdaptersNext]_adapterVars
  PROVE  AInv'
<1>1. CASE UNCHANGED adapterVars
  BY <1>1 DEF adapterVars, terraformVars, portVars, runVars, AInv, Typed, CallsFit, RunsFit, RunFits,
              TokensFit, TokenFits, StatesFit, PlanFits, SoleHandlers, Sole, UndisturbedHandlers,
              Undisturbed, Guarded, Runs, Refusing
<1>2. CASE AdaptersNext
  <2>1. UNCHANGED adapter
    BY <1>2 DEF AdaptersNext
  <2>2. ASSUME NEW s \in Slots, NEW i \in Instances, NEW m \in Methods, NEW disk \in DisksOf(m),
               Call(s, i, m, disk)
        PROVE  AInv'
    BY <2>1, <2>2, CallKeeps
  <2>3. ASSUME NEW i \in Instances, PollTask(i)
        PROVE  AInv'
    BY <2>1, <2>3, PollKeeps
  <2>4. ASSUME NEW s \in Slots, IF adapter = "proxmox"
                                THEN ProxmoxHandler(s) /\ UNCHANGED <<tfstate, refreshing, runVars>>
                                ELSE TerraformHandler(s)
        PROVE  AInv'
    <3>1. adapter \in {"proxmox", "terraform"}
      BY DEF AInv, Typed
    <3> QED
      BY <2>1, <2>4, <3>1, ProxmoxHandlerKeeps, TerraformHandlerKeeps
  <2>5. CASE TerraformBackground
    BY <2>1, <2>5, jobPlansKeeps, jobAppliesKeeps, completeRunKeeps, JobEndKeeps, BackgroundRefreshKeeps
       DEF TerraformBackground
  <2>6. CASE AdapterCrash
    BY <2>1, <2>6, AdapterCrashKeeps
  <2>7. CASE /\ \/ \E s \in Slots : Deliver(s)
                \/ \E i \in Instances : Abandon(i)
                \/ \E v \in Vmids : TaskEnds(v)
             /\ UNCHANGED <<tfstate, refreshing, runVars>>
    <3>1. UNCHANGED <<tfstate, run, job, stranded>>
      BY <2>7 DEF runVars
    <3> QED
      BY <2>1, <2>7, <3>1, DeliverKeeps, AbandonKeeps, TaskEndsKeeps
  <2> QED
    BY <1>2, <2>2, <2>3, <2>4, <2>5, <2>6, <2>7 DEF AdaptersNext
<1> QED
  BY <1>1, <1>2

(* AInv holds of every reachable state of the provider service.            *)
THEOREM AdaptersInvariance == AdaptersSpec => []AInv
<1>1. AdaptersInit => AInv
  BY AInit
<1>2. AInv /\ [AdaptersNext]_adapterVars => AInv'
  BY AStep
<1> QED
  BY <1>1, <1>2, PTL DEF AdaptersSpec

(* A refusal means that nothing was sent, or only the first request of a   *)
(* resize or of a purge, or that what Proxmox answered could not be read.  *)
THEOREM RefusalsAreSafe == AdaptersSpec => []RefusedMeansUnchanged
<1>1. AInv => RefusedMeansUnchanged
  BY DEF AInv, CallsFit, CallFits, RefusedMeansUnchanged
<1> QED
  BY <1>1, AdaptersInvariance, PTL

(* A run that is running has a job that will end it or a handler about to  *)
(* record its refusal, unless the adapter died or could not write.         *)
THEOREM RunsAreWorkedOn == AdaptersSpec => []RunningHasItsJob
<1>1. AInv => RunningHasItsJob
  BY DEF AInv, RunsFit, RunFits, Refusing, RunningHasItsJob, At
<1> QED
  BY <1>1, AdaptersInvariance, PTL

(* A handler that passed the fence carries the newest token of the runs it *)
(* saw.                                                                    *)
THEOREM FenceHolds == AdaptersSpec => []RunsInTokenOrder
<1>1. AInv => RunsInTokenOrder
  BY DEF AInv, TokensFit, TokenFits, RunsInTokenOrder, At
<1> QED
  BY <1>1, AdaptersInvariance, PTL

-----------------------------------------------------------------------------
(* What a step may do to the cluster.                                      *)

LEMMA HandlerMoves ==
  ASSUME AInv, NEW s \in Slots,
         IF adapter = "proxmox" THEN ProxmoxHandler(s) ELSE TerraformHandler(s)
  PROVE  Post(s) \/ (Looks(s) /\ vm' = vm)
<1>1. Typed /\ CallsFit
  BY DEF AInv
<1>2. CASE ProxmoxHandler(s)
  <2>1. Post(s) \/ Looks(s)
    BY <1>1, <1>2, RefuseLooks, listVmsLooks, findOwnedOrFreeVmidLooks, submitCloneLooks, OwnedLooks,
       currentStatusLooks, observeInstanceLooks, QueryFailsLooks
       DEF ProxmoxHandler, Answers, LostAnswer, UnreadableAnswer
  <2>2. Post(s) \/ vm' = vm
    BY <1>2 DEF ProxmoxHandler, Refuse, listVms, findOwnedOrFreeVmid, submitClone, Owned, currentStatus,
                observeInstance, QueryFails, UNCHANGEDButCalls
  <2> QED
    BY <2>1, <2>2
<1>3. CASE TerraformHandler(s)
  <2>1. BackendUnreachable(s) => Looks(s)
    BY <1>1, BackendUnreachableLooks
  <2>2. Post(s) \/ Looks(s)
    BY <1>1, <1>3, <2>1, directMutationLooks, PurgeOwnedLooks, observeStateLooks, readStateLooks,
       startApplyLooks, beginRunLooks, insertRunLooks, completeRefusedLooks DEF TerraformHandler, directPost
  <2>3. Post(s) \/ vm' = vm
    BY <1>3 DEF TerraformHandler, directMutation, PurgeOwned, directPost, observeState, readState, startApply,
                beginRun, insertRun, completeRefused, BackendUnreachable, QueryFails, UNCHANGEDButCalls
  <2> QED
    BY <2>2, <2>3
<1> QED
  BY <1>2, <1>3

(* Only a request that Proxmox accepted is counted.                        *)
LEMMA CountedIsSent ==
  ASSUME AInv, AdaptersNext, NEW s \in Slots, call'[s].done > call[s].done
  PROVE  Post(s) /\ Sent(s)
<1>1. Typed /\ CallsFit /\ call \in [Slots -> CallRecords] /\ call[s] \in CallRecords /\ call[s].done \in Nat
  BY DEF AInv, Typed, CallRecords
<1>2. call'[s].done # call[s].done /\ call'[s].done # 0
  BY <1>1
<1>3. ASSUME NEW t \in Slots, NEW i \in Instances, NEW m \in Methods, NEW disk \in DisksOf(m), Call(t, i, m, disk)
      PROVE  FALSE
  <2>1. PICK first, alone : StartCall(t, i, m, disk, first, alone)
    BY <1>3 DEF Call, ProxmoxCall, TerraformCall
  <2>2. PICK d : /\ d = [NoCall EXCEPT !.at = first, !.inst = i, !.method = m, !.disk = disk,
                           !.vmid = resource[i], !.live = TRUE, !.token = lease[i] + 1, !.alone = alone]
                 /\ call' = [call EXCEPT ![t] = d]
    BY <2>1 DEF StartCall
  <2>3. d.done = NoCall.done
    BY <2>2, NoCallFacts DEF CallRecords
  <2>4. NoCall.done = 0
    BY DEF NoCall
  <2> QED
    BY <1>1, <1>2, <2>2, <2>3, <2>4
<1>4. ASSUME NEW i \in Instances, PollTask(i)
      PROVE  FALSE
  BY <1>2, <1>4 DEF PollTask, getTask, getRunState
<1>5. ASSUME NEW t \in Slots, IF adapter = "proxmox" THEN ProxmoxHandler(t) ELSE TerraformHandler(t)
      PROVE  Post(s)
  <2>1. Post(t) \/ Looks(t)
    BY <1>5, HandlerMoves
  <2>2. Moves(t) /\ (t = s => Post(t))
    BY <1>1, <1>2, <2>1, PostMoves DEF Looks
  <2> QED
    BY <1>2, <2>2, <2>1 DEF Moves
<1>6. CASE TerraformBackground
  BY <1>2, <1>6 DEF TerraformBackground, jobPlans, jobApplies, completeRun, recordWorkspace, jobCatches,
                    refreshAfterDirectMutation, portVars
<1>7. CASE AdapterCrash
  <2>1. call'[s] = IF call[s].at = "free" THEN NoCall ELSE Answered(call[s], "unavailable")
    BY <1>7 DEF AdapterCrash
  <2>2. NoCall.done = 0 /\ Answered(call[s], "unavailable").done = call[s].done
    BY <1>1, AnsweredFields DEF NoCall, Answers, LostAnswer
  <2> QED
    BY <1>2, <2>1, <2>2
<1>8. ASSUME NEW t \in Slots, Deliver(t)
      PROVE  FALSE
  <2>1. call' = [call EXCEPT ![t] = NoCall] /\ NoCall.done = 0
    BY <1>8 DEF Deliver, NoCall
  <2> QED
    BY <1>1, <1>2, <2>1
<1>9. ASSUME NEW i \in Instances, Abandon(i)
      PROVE  FALSE
  <2>1. PICK t \in Slots : call' = [call EXCEPT ![t].live = FALSE]
    BY <1>9 DEF Abandon
  <2> QED
    BY <1>1, <1>2, <2>1 DEF CallRecords
<1>10. ASSUME NEW v \in Vmids, TaskEnds(v)
       PROVE  FALSE
  BY <1>2, <1>10 DEF TaskEnds
<1>11. Post(s)
  BY <1>3, <1>4, <1>5, <1>6, <1>7, <1>8, <1>9, <1>10 DEF AdaptersNext
<1>12. Sent(s)
  BY <1>1, <1>2, <1>11, PostMoves DEF NotSent
<1> QED
  BY <1>11, <1>12

(* A VM is changed by the handler of its own instance alone, or by one     *)
(* whose caller has gone or that did not begin alone.                      *)
THEOREM ChangesOwnVm == AdaptersSpec => MutatesOwnVm
<1>1. ASSUME AInv, AdaptersNext, NEW s \in Slots, call'[s].done > call[s].done, call[s].live, call[s].alone
      PROVE  vm[call[s].vmid].owner \in {None, call[s].inst}
  <2>1. Post(s) /\ Sent(s) /\ call[s].at = "post" /\ PostsFit(call[s])
    <3>1. Post(s) /\ Sent(s)
      BY <1>1, CountedIsSent
    <3>2. call[s].at = "post"
      BY <3>1 DEF Post, At
    <3> QED
      BY <1>1, <3>1, <3>2 DEF AInv, CallsFit, CallFits
  <2>2. CASE call[s].method = "create"
    <3>1. Head(call[s].posts) = "clone"
      BY <2>1, <2>2, PostEffects
    <3> QED
      BY <2>1, <3>1, FreeTyped DEF Sent, Accepts
  <2>3. CASE call[s].method # "create"
    BY <1>1, <2>1, <2>3 DEF AInv, UndisturbedHandlers, Undisturbed, Guarded
  <2> QED
    BY <2>2, <2>3
<1>2. AInv /\ [AdaptersNext]_adapterVars =>
        [\A s \in Slots : call'[s].done > call[s].done =>
            \/ vm[call[s].vmid].owner \in {None, call[s].inst}
            \/ ~call[s].live \/ ~call[s].alone]_portVars
  BY <1>1 DEF adapterVars, terraformVars, portVars
<1> QED
  BY <1>2, AdaptersInvariance, PTL DEF AdaptersSpec, MutatesOwnVm

(* Who takes a VM from its owner, and who gives it a new one.              *)
LEMMA OwnersChange ==
  ASSUME AInv, AdaptersNext, NEW v \in Vmids, vm'[v].owner # vm[v].owner
  PROVE  \/ \E s \in Slots : /\ Post(s) /\ call[s].method = "create" /\ call'[s].at = "answered"
                             /\ vm[v] = Free /\ vm'[v].owner = call[s].inst
         \/ vm'[v].owner = None /\ vm[v].job \in {"clone", "destroy"}
         \/ \E r \in Runs : vm[v].owner = None \/ (vm[v].owner = run[r].inst /\ run[r].purge)
<1>1. Typed /\ CallsFit /\ vm \in [Vmids -> VMs] /\ vm[v] \in VMs
  BY DEF AInv, Typed
<1>2. vm' # vm
  OBVIOUS
<1>3. ASSUME NEW s \in Slots, NEW i \in Instances, NEW m \in Methods, NEW disk \in DisksOf(m), Call(s, i, m, disk)
      PROVE  FALSE
  BY <1>2, <1>3 DEF Call, ProxmoxCall, TerraformCall, StartCall
<1>4. ASSUME NEW i \in Instances, PollTask(i)
      PROVE  FALSE
  BY <1>2, <1>4 DEF PollTask, getTask, getRunState
<1>5. ASSUME NEW s \in Slots, IF adapter = "proxmox" THEN ProxmoxHandler(s) ELSE TerraformHandler(s)
      PROVE  /\ Post(s) /\ call[s].method = "create" /\ call'[s].at = "answered"
             /\ vm[v] = Free /\ vm'[v].owner = call[s].inst
  <2>1. Post(s)
    BY <1>2, <1>5, HandlerMoves
  <2>2. call[s].at = "post" /\ Sent(s)
    BY <1>1, <1>2, <2>1, PostMoves DEF NotSent
  <2>3. PICK e : e = Head(call[s].posts)
    OBVIOUS
  <2>4. PICK w : w = call[s].vmid
    OBVIOUS
  <2>5. /\ w \in Vmids /\ call[s].inst \in Instances /\ call[s].disk \in Nat
        /\ PostsFit(call[s]) /\ e \in Effects
    <3>1. call[s].vmid \in Vmids /\ call[s].inst \in Instances /\ PostsFit(call[s])
      BY <1>1, <2>2 DEF CallsFit, CallFits
    <3> QED
      BY <1>1, <2>3, <2>4, <3>1, PostEffects DEF Typed, CallRecords
  <2>6. PICK k : k = CarriedOut(w, e, call[s].inst, call[s].disk)
    OBVIOUS
  <2>7. vm' = [vm EXCEPT ![w] = k] /\ Accepts(w, e)
    BY <2>2, <2>3, <2>4, <2>6 DEF Sent
  <2>8. v = w /\ vm'[v] = k
    BY <1>1, <2>7
  <2>9. e # "clone" => k.owner = vm[v].owner
    BY <1>1, <2>5, <2>6, <2>8, CarriedOutFacts
  <2>10. e = "clone" /\ k.owner = call[s].inst
    BY <1>1, <2>5, <2>6, <2>8, <2>9, CarriedOutFacts
  <2>11. call[s].method = "create" /\ vm[v] = Free
    BY <2>3, <2>5, <2>7, <2>8, <2>10, PostEffects DEF Accepts
  <2>12. call'[s].at = "answered"
    BY <2>2, <2>3, <2>10 DEF Sent
  <2> QED
    BY <2>1, <2>8, <2>10, <2>11, <2>12
<1>6. ASSUME NEW r \in Runs, jobApplies(r)
      PROVE  vm[v].owner = None \/ (vm[v].owner = run[r].inst /\ run[r].purge)
  <2>1. PICK w \in Vmids, new \in VMs, x \in States : Applied(r, w, new, x)
    BY <1>2, <1>6, jobAppliesEffect
  <2>2. v = w /\ vm'[v] = new
    BY <1>1, <2>1 DEF Applied
  <2> QED
    BY <2>1, <2>2, FreeTyped DEF Applied
<1>7. CASE TerraformBackground
  <2>1. \E r \in Runs : jobApplies(r)
    BY <1>2, <1>7 DEF TerraformBackground, jobPlans, completeRun, recordWorkspace, jobCatches,
                      refreshAfterDirectMutation, portVars
  <2> QED
    BY <1>6, <2>1
<1>8. ~AdapterCrash /\ (\A s \in Slots : ~Deliver(s)) /\ (\A i \in Instances : ~Abandon(i))
  BY <1>2 DEF AdapterCrash, UNCHANGEDButCalls, Deliver, Abandon
<1>9. ASSUME NEW w \in Vmids, TaskEnds(w)
      PROVE  vm'[v].owner = None /\ vm[v].job \in {"clone", "destroy"}
  <2>1. PICK x \in {Finished(w), TaskFails(w)} : vm' = [vm EXCEPT ![w] = x]
    BY <1>9 DEF TaskEnds
  <2>2. v = w /\ vm'[v] = x
    BY <1>1, <2>1
  <2>3. vm[v].job # "none"
    BY <1>9, <2>2 DEF TaskEnds
  <2> QED
    BY <1>1, <2>1, <2>2, <2>3, TaskEndFacts
<1> QED
  BY <1>3, <1>4, <1>5, <1>7, <1>8, <1>9 DEF AdaptersNext

(* Of the Terraform adapter's runs only a purge's takes a VM away.         *)
THEOREM PurgesAloneDestroy == AdaptersSpec => OnlyPurgeDestroys
<1>1. ASSUME AInv, AdaptersNext, NEW v \in Vmids,
             vm[v].owner # None, vm'[v].owner # vm[v].owner, run # <<>>
      PROVE  \E r \in Runs : run[r].inst = vm[v].owner /\ run[r].purge
  <2>1. adapter = "terraform"
    BY <1>1 DEF AInv, Typed, StatesFit
  <2>2. vm[v].job \notin {"clone", "destroy"} /\ vm[v] # Free
    BY <1>1, <2>1, FreeTyped DEF AInv, StatesFit
  <2> QED
    BY <1>1, <2>2, OwnersChange
<1>2. AInv /\ [AdaptersNext]_adapterVars =>
        [\A v \in Vmids : (vm[v].owner # None /\ vm'[v].owner # vm[v].owner /\ run # <<>>) =>
            \E r \in Runs : run[r].inst = vm[v].owner /\ run[r].purge]_terraformVars
  BY <1>1 DEF adapterVars, terraformVars, portVars
<1> QED
  BY <1>2, AdaptersInvariance, PTL DEF AdaptersSpec, OnlyPurgeDestroys

-----------------------------------------------------------------------------
(* The probe sequence of an instance visits each VMID once.                *)

LEMMA DivisionFacts ==
  ASSUME NEW n \in Nat, n > 0, NEW a \in Nat
  PROVE  a % n \in 0..(n - 1) /\ a \div n \in Nat /\ a = n * (a \div n) + (a % n)
OBVIOUS

LEMMA MultiplesApart ==
  ASSUME NEW n \in Nat, NEW p \in Nat, NEW q \in Nat, p + 1 <= q
  PROVE  n * p + n <= n * q
OBVIOUS

LEMMA RemainderUnique ==
  ASSUME NEW n \in Nat, n > 0, NEW p \in Nat, NEW q \in Nat,
         NEW r \in 0..(n - 1), NEW t \in 0..(n - 1), n * p + r = n * q + t
  PROVE  r = t
<1>1. CASE p < q
  BY <1>1, MultiplesApart
<1>2. CASE q < p
  BY <1>2, MultiplesApart
<1>3. CASE p = q
  BY <1>3
<1> QED
  BY <1>1, <1>2, <1>3

LEMMA WrapsAround ==
  ASSUME NEW n \in Nat, n > 0, NEW a \in Nat, NEW k \in 0..(n - 1)
  PROVE  (a + k) % n = IF (a % n) + k < n THEN (a % n) + k ELSE (a % n) + k - n
<1>1. PICK q \in Nat : q = a \div n
  BY DivisionFacts
<1>2. PICK r \in 0..(n - 1) : r = a % n
  BY DivisionFacts
<1>3. a = n * q + r
  BY <1>1, <1>2, DivisionFacts
<1>4. PICK p \in Nat : p = (a + k) \div n
  BY DivisionFacts
<1>5. PICK t \in 0..(n - 1) : t = (a + k) % n
  BY DivisionFacts
<1>6. a + k = n * p + t
  BY <1>4, <1>5, DivisionFacts
<1>7. n * q \in Nat /\ n * p \in Nat /\ n * (q + 1) = n * q + n
  OBVIOUS
<1>8. CASE r + k < n
  BY <1>2, <1>3, <1>5, <1>6, <1>7, <1>8, RemainderUnique
<1>9. CASE r + k >= n
  <2>1. PICK x \in 0..(n - 1) : x = r + k - n
    BY <1>9
  <2>2. PICK u \in Nat : u = q + 1
    OBVIOUS
  <2>3. n * u + x = n * p + t
    BY <1>3, <1>6, <1>7, <2>1, <2>2
  <2>4. x = t
    BY <2>3, RemainderUnique
  <2> QED
    BY <1>2, <1>5, <1>9, <2>1, <2>4
<1> QED
  BY <1>8, <1>9

LEMMA ProbesVisitOnce ==
  ASSUME NEW i \in Instances
  PROVE  /\ \A k, l \in Vmids : ProbeAt(i, k) = ProbeAt(i, l) => k = l
         /\ \A v \in Vmids : \E k \in Vmids : ProbeAt(i, k) = v
<1>1. PICK n \in Nat : n = Size /\ n > 0
  BY PortAssumption
<1>2. PICK a \in Nat : a = SeedOf[i]
  BY PortAssumption
<1>3. PICK r \in 0..(n - 1) : r = a % n
  BY <1>1, DivisionFacts
<1>4. Vmids = 0..(n - 1)
  BY <1>1 DEF Vmids
<1>5. \A k \in Vmids : ProbeAt(i, k) = IF r + k < n THEN r + k ELSE r + k - n
  BY <1>1, <1>2, <1>3, <1>4, WrapsAround DEF ProbeAt
<1>6. \A k, l \in Vmids : ProbeAt(i, k) = ProbeAt(i, l) => k = l
  BY <1>3, <1>4, <1>5
<1>7. ASSUME NEW v \in Vmids
      PROVE  \E k \in Vmids : ProbeAt(i, k) = v
  <2>1. v \in 0..(n - 1)
    BY <1>4
  <2>2. CASE r <= v
    <3>1. v - r \in Vmids /\ r + (v - r) = v /\ v < n
      BY <1>3, <1>4, <2>1, <2>2
    <3> QED
      BY <1>5, <3>1
  <2>3. CASE v < r
    <3>1. v - r + n \in Vmids /\ r + (v - r + n) - n = v /\ ~(r + (v - r + n) < n)
      BY <1>3, <1>4, <2>1, <2>3
    <3> QED
      BY <1>5, <3>1
  <2> QED
    BY <1>3, <2>1, <2>2, <2>3
<1> QED
  BY <1>6, <1>7

LEMMA PositionFacts ==
  ASSUME NEW i \in Instances, NEW v \in Vmids
  PROVE  /\ Position(i, v) \in Vmids /\ ProbeAt(i, Position(i, v)) = v
         /\ \A k \in Vmids : ProbeAt(i, k) = v => Position(i, v) = k
<1>1. Position(i, v) \in Vmids /\ ProbeAt(i, Position(i, v)) = v
  BY ProbesVisitOnce DEF Position
<1> QED
  BY <1>1, ProbesVisitOnce

-----------------------------------------------------------------------------
(* The search of a create that began alone: no VM of its instance is at a  *)
(* VMID it has passed.                                                     *)
Passed(f, i, k) == \A l \in 0..(k - 1) : f[ProbeAt(i, l)].owner # i
Searching(s) == call[s].live /\ call[s].alone /\ call[s].method = "create"
SearchFits(s) ==
  /\ call[s].at = "list" => call[s].offset = 0
  /\ Searching(s) =>
       /\ call[s].at = "probe" => call[s].offset \in Vmids /\ Passed(vm, call[s].inst, call[s].offset)
       /\ call[s].at \in {"existing", "post"} =>
            \E k \in Vmids : call[s].vmid = ProbeAt(call[s].inst, k) /\ Passed(vm, call[s].inst, k)
Searches == adapter = "proxmox" => \A s \in Slots : SearchFits(s)

(* How a slot's call moves along the search.                               *)
SearchMoves(s) ==
  \/ call'[s].at \notin {"list", "probe", "existing", "post"}
  \/ call'[s].at = "list" /\ call'[s].offset = 0
  \/ /\ call'[s].inst = call[s].inst /\ call'[s].method = call[s].method
     /\ (call'[s].live => call[s].live) /\ (call'[s].alone => call[s].alone)
     /\ \/ /\ call'[s].at = call[s].at /\ call'[s].vmid = call[s].vmid
           /\ call'[s].offset = call[s].offset
        \/ call[s].at = "list" /\ call'[s].at = "probe" /\ call'[s].offset = call[s].offset
        \/ /\ call[s].at = "probe" /\ call'[s].at = "probe" /\ call[s].offset # Size - 1
           /\ call'[s].offset = call[s].offset + 1
           /\ vm[ProbeAt(call[s].inst, call[s].offset)].owner # call[s].inst
        \/ /\ call[s].at = "probe" /\ call'[s].at = "existing"
           /\ call'[s].vmid = ProbeAt(call[s].inst, call[s].offset)
        \/ call[s].at = "existing" /\ call'[s].at = "post" /\ call'[s].vmid = call[s].vmid
        \/ call'[s].at = "post" /\ call[s].method # "create"

LEMMA HandlerSearchMoves ==
  ASSUME AInv, NEW s \in Slots, ProxmoxHandler(s)
  PROVE  SearchMoves(s)
<1>1. Typed /\ CallsFit /\ call \in [Slots -> CallRecords] /\ call[s] \in CallRecords /\ CallFits(call[s])
  BY DEF AInv, Typed, CallsFit
<1>2. Moves(s)
  BY <1>1, PostMoves, RefuseLooks, listVmsLooks, findOwnedOrFreeVmidLooks, submitCloneLooks, OwnedLooks,
     currentStatusLooks, observeInstanceLooks, QueryFailsLooks
     DEF ProxmoxHandler, Looks, Answers, LostAnswer, UnreadableAnswer
<1>3. ASSUME NEW a \in Answers, call' = [call EXCEPT ![s] = Answered(call[s], a)]
      PROVE  SearchMoves(s)
  <2>1. call'[s].at = "answered"
    BY <1>1, <1>3, AnsweredFields
  <2> QED
    BY <2>1 DEF SearchMoves
<1>4. CASE Refuse(s) \/ observeInstance(s) \/ QueryFails(s, {"list", "probe", "existing", "owned", "status", "search"},
                                                            LostAnswer \cup UnreadableAnswer)
  <2>1. PICK a \in Answers : call' = [call EXCEPT ![s] = Answered(call[s], a)]
    BY <1>4 DEF Refuse, observeInstance, QueryFails, Answer, Answers, LostAnswer, UnreadableAnswer,
                absentObservation
  <2> QED
    BY <1>3, <2>1
<1>5. CASE listVms(s)
  <2>1. call[s].at = "list" /\ call'[s].at = "probe" /\ call'[s].offset = call[s].offset
    BY <1>1, <1>5 DEF listVms, At, CallRecords
  <2> QED
    BY <1>2, <2>1 DEF SearchMoves, Moves
<1>6. CASE findOwnedOrFreeVmid(s)
  <2>1. PICK v : v = ProbeAt(call[s].inst, call[s].offset)
    OBVIOUS
  <2>2. call[s].at = "probe"
    BY <1>6 DEF findOwnedOrFreeVmid, At
  <2>3. CASE v \notin call[s].occupied \/ Recognised(s, v)
    <3>1. call' = [call EXCEPT ![s].at = "existing", ![s].vmid = v, ![s].occupied = {}, ![s].offset = 0]
      BY <1>6, <2>1, <2>3 DEF findOwnedOrFreeVmid
    <3>2. call'[s].at = "existing" /\ call'[s].vmid = v
      BY <1>1, <3>1 DEF CallRecords
    <3> QED
      BY <1>2, <2>1, <2>2, <3>2 DEF SearchMoves, Moves
  <2>4. CASE ~(v \notin call[s].occupied \/ Recognised(s, v))
    <3>1. CASE vm[v] = Free \/ call[s].offset = Size - 1
      BY <1>3, <1>6, <2>1, <2>4, <3>1 DEF findOwnedOrFreeVmid, Answer, Answers
    <3>2. CASE ~(vm[v] = Free \/ call[s].offset = Size - 1)
      <4>1. call' = [call EXCEPT ![s].offset = call[s].offset + 1]
        BY <1>1, <1>6, <2>1, <2>4, <3>2 DEF findOwnedOrFreeVmid
      <4>2. call'[s].at = call[s].at /\ call'[s].offset = call[s].offset + 1
        BY <1>1, <4>1 DEF CallRecords
      <4>3. vm[v].owner # call[s].inst
        BY <2>4 DEF Recognised
      <4> QED
        BY <1>2, <2>1, <2>2, <3>2, <4>2, <4>3 DEF SearchMoves, Moves
    <3> QED
      BY <3>1, <3>2
  <2> QED
    BY <2>3, <2>4
<1>7. CASE submitClone(s)
  <2>1. CASE vm[call[s].vmid] # Free
    BY <1>3, <1>7, <2>1 DEF submitClone, Answer, Answers
  <2>2. CASE vm[call[s].vmid] = Free
    <3>1. call[s].at = "existing" /\ call' = [call EXCEPT ![s].at = "post", ![s].posts = <<"clone">>]
      BY <1>7, <2>2 DEF submitClone, At
    <3>2. call'[s].at = "post" /\ call'[s].vmid = call[s].vmid
      BY <1>1, <3>1 DEF CallRecords
    <3> QED
      BY <1>2, <3>1, <3>2 DEF SearchMoves, Moves
  <2> QED
    BY <2>1, <2>2
<1>8. CASE Owned(s) \/ currentStatus(s)
  <2>1. call[s].at \in {"owned", "status"} /\ call[s].method # "create"
    BY <1>1, <1>8 DEF Owned, currentStatus, At, CallFits
  <2>2. CASE \E a \in Answers : call' = [call EXCEPT ![s] = Answered(call[s], a)]
    BY <1>3, <2>2
  <2>3. CASE \E p : call' = [call EXCEPT ![s].at = "post", ![s].posts = p]
    <3>1. call'[s].at = "post"
      BY <1>1, <2>3 DEF CallRecords
    <3> QED
      BY <1>2, <2>1, <3>1 DEF SearchMoves, Moves
  <2>4. CASE call' = [call EXCEPT ![s].at = "status"]
    <3>1. call'[s].at = "status"
      BY <1>1, <2>4 DEF CallRecords
    <3> QED
      BY <3>1 DEF SearchMoves
  <2>5. CASE Owned(s)
    BY <2>2, <2>3, <2>4, <2>5 DEF Owned, applyInstanceConfiguration, Answer, Goto, Answers
  <2>6. CASE currentStatus(s)
    <3>1. HttpRefusal \subseteq Answers /\ "succeeded" \in Answers
      BY DEF HttpRefusal, Answers, LostAnswer
    <3>2. Handler(call[s].method).locked # "ignored" => Handler(call[s].method).locked \in Answers
      BY DEF Handler, startInstance, shutdownInstance, stopInstance, rebootInstance, resizeInstance,
             markInstanceRetained, purgeInstance, snapshotMutation, Answers, LostAnswer
    <3> QED
      BY <2>2, <2>3, <2>6, <3>1, <3>2 DEF currentStatus, Answer
  <2> QED
    BY <1>8, <2>5, <2>6
<1>9. CASE Post(s)
  <2>1. Sent(s) \/ NotSent(s)
    BY <1>1, <1>9, PostMoves
  <2>2. CASE call'[s].at = "answered"
    BY <2>2 DEF SearchMoves
  <2>3. CASE call'[s].at # "answered"
    <3>1. Sent(s) /\ Head(call[s].posts) # "clone"
      BY <2>1, <2>3 DEF Sent, NotSent
    <3>2. call[s].at = "post" /\ PostsFit(call[s])
      BY <1>1, <1>9 DEF Post, At, CallFits
    <3>3. call[s].method # "create"
      BY <3>1, <3>2, PostEffects
    <3>4. call'[s].at \notin {"list", "probe", "existing"}
      <4>1. CallFits(call'[s]) /\ call'[s].method # "create"
        BY <1>2, <3>3 DEF Moves
      <4> QED
        BY <4>1 DEF CallFits
    <3> QED
      BY <1>2, <3>3, <3>4 DEF SearchMoves, Moves
  <2> QED
    BY <2>2, <2>3
<1> QED
  BY <1>4, <1>5, <1>6, <1>7, <1>8, <1>9 DEF ProxmoxHandler

LEMMA SearchStep ==
  ASSUME AInv, adapter = "proxmox", AdaptersNext, NEW s \in Slots
  PROVE  SearchMoves(s)
<1>1. Typed /\ CallsFit /\ call \in [Slots -> CallRecords] /\ call[s] \in CallRecords
  BY DEF AInv, Typed
<1>2. ASSUME call'[s] = call[s]
      PROVE  SearchMoves(s)
  BY <1>2 DEF SearchMoves
<1>3. ASSUME NEW t \in Slots, NEW i \in Instances, NEW m \in Methods, NEW disk \in DisksOf(m), Call(t, i, m, disk)
      PROVE  SearchMoves(s)
  <2>1. PICK first, alone : StartCall(t, i, m, disk, first, alone)
    BY <1>3 DEF Call, ProxmoxCall, TerraformCall
  <2>2. PICK own \in BOOLEAN :
          StartCall(t, i, m, disk,
            IF ~assertOwnership(m, own) THEN "violates_boundary"
            ELSE IF m = "create" THEN "list"
            ELSE IF m = "observe" THEN "search" ELSE "owned", Quiet(i))
    BY <1>3 DEF Call, ProxmoxCall
  <2>3. PICK f \in {"violates_boundary", "list", "search", "owned"} :
          f = IF ~assertOwnership(m, own) THEN "violates_boundary"
              ELSE IF m = "create" THEN "list"
              ELSE IF m = "observe" THEN "search" ELSE "owned"
    OBVIOUS
  <2>4. PICK d : /\ d = [NoCall EXCEPT !.at = f, !.inst = i, !.method = m, !.disk = disk,
                           !.vmid = resource[i], !.live = TRUE, !.token = lease[i] + 1, !.alone = Quiet(i)]
                 /\ call' = [call EXCEPT ![t] = d]
    BY <2>2, <2>3 DEF StartCall
  <2>5. d.at = f /\ d.offset = 0
    <3>1. NoCall.offset = 0
      BY DEF NoCall
    <3> QED
      BY <2>4, <3>1, NoCallFacts DEF CallRecords
  <2>6. CASE t = s
    <3>1. call'[s] = d
      BY <1>1, <2>4, <2>6
    <3> QED
      BY <2>5, <3>1 DEF SearchMoves
  <2>7. CASE t # s
    BY <1>1, <1>2, <2>4, <2>7
  <2> QED
    BY <2>6, <2>7
<1>4. ASSUME NEW i \in Instances, PollTask(i)
      PROVE  SearchMoves(s)
  BY <1>2, <1>4 DEF PollTask, getTask, getRunState
<1>5. ASSUME NEW t \in Slots, ProxmoxHandler(t)
      PROVE  SearchMoves(s)
  <2>1. CASE t = s
    BY <1>5, <2>1, HandlerSearchMoves
  <2>2. CASE t # s
    <3>1. Post(t) \/ Looks(t)
      BY <1>5, HandlerMoves
    <3> QED
      BY <1>1, <1>2, <2>2, <3>1, PostMoves DEF Looks, Moves
  <2> QED
    BY <2>1, <2>2
<1>6. Runs = {}
  BY RunsAreTerraform
<1>7. CASE TerraformBackground
  BY <1>2, <1>6, <1>7 DEF TerraformBackground, refreshAfterDirectMutation, portVars
<1>8. ~AdapterCrash
  BY <1>6 DEF AdapterCrash
<1>9. ASSUME NEW t \in Slots, Deliver(t)
      PROVE  SearchMoves(s)
  <2>1. call' = [call EXCEPT ![t] = NoCall]
    BY <1>9 DEF Deliver
  <2>2. call'[s] = call[s] \/ call'[s] = NoCall
    BY <1>1, <2>1
  <2> QED
    BY <1>2, <2>2, NoCallFacts DEF SearchMoves
<1>10. ASSUME NEW i \in Instances, Abandon(i)
       PROVE  SearchMoves(s)
  <2>1. PICK t \in Slots : call' = [call EXCEPT ![t].live = FALSE]
    BY <1>10 DEF Abandon
  <2>2. CASE t # s
    BY <1>1, <1>2, <2>1, <2>2
  <2>3. CASE t = s
    <3>1. call'[s] = [call[s] EXCEPT !.live = FALSE]
      BY <1>1, <2>1, <2>3
    <3>2. /\ call'[s].inst = call[s].inst /\ call'[s].method = call[s].method
          /\ call'[s].at = call[s].at /\ call'[s].vmid = call[s].vmid /\ call'[s].offset = call[s].offset
      BY <1>1, <3>1 DEF CallRecords
    <3>3. call'[s].live = FALSE /\ call'[s].alone = call[s].alone
      BY <1>1, <3>1 DEF CallRecords
    <3> QED
      BY <3>2, <3>3 DEF SearchMoves
  <2> QED
    BY <2>2, <2>3
<1>11. ASSUME NEW v \in Vmids, TaskEnds(v)
       PROVE  SearchMoves(s)
  BY <1>2, <1>11 DEF TaskEnds
<1> QED
  BY <1>3, <1>4, <1>5, <1>7, <1>8, <1>9, <1>10, <1>11 DEF AdaptersNext

(* No VM becomes the instance's while a create that began alone searches.  *)
LEMMA SearcherGainsNothing ==
  ASSUME AInv, adapter = "proxmox", AdaptersNext, NEW s \in Slots, Searching(s),
         call'[s].at # "answered", call[s].at # "free", NEW v \in Vmids,
         vm'[v].owner = call[s].inst
  PROVE  vm[v].owner = call[s].inst
<1>1. call[s].inst \in Instances /\ call[s].inst # None
  BY PortAssumption DEF AInv, CallsFit, CallFits
<1>2. Runs = {}
  BY RunsAreTerraform
<1>3. SUFFICES ASSUME vm'[v].owner # vm[v].owner PROVE FALSE
  OBVIOUS
<1>4. PICK t \in Slots : /\ call'[t].at = "answered" /\ vm'[v].owner = call[t].inst
  BY <1>1, <1>2, <1>3, OwnersChange
<1>5. t # s /\ call[t].inst = call[s].inst
  BY <1>4
<1> QED
  BY <1>5 DEF AInv, SoleHandlers, Sole, Searching

LEMMA SearchesKept ==
  ASSUME AInv, Searches, AdaptersNext
  PROVE  Searches'
<1>1. SUFFICES ASSUME adapter = "proxmox", NEW s \in Slots PROVE SearchFits(s)'
  BY DEF Searches, AdaptersNext
<1>2. SearchMoves(s) /\ SearchFits(s)
  BY <1>1, SearchStep DEF Searches
<1>3. SUFFICES ASSUME call'[s].at \in {"probe", "existing", "post"}, Searching(s)'
               PROVE  /\ call'[s].at = "probe" =>
                           call'[s].offset \in Vmids /\ Passed(vm', call[s].inst, call'[s].offset)
                      /\ call'[s].at \in {"existing", "post"} =>
                           \E k \in Vmids : call'[s].vmid = ProbeAt(call[s].inst, k) /\ Passed(vm', call[s].inst, k)
                      /\ call'[s].inst = call[s].inst
  <2>1. call'[s].at = "list" => call'[s].offset = 0
    BY <1>2 DEF SearchMoves, SearchFits
  <2> QED
    BY <2>1 DEF SearchFits
<1>4. /\ call'[s].inst = call[s].inst /\ Searching(s)
      /\ \/ /\ call'[s].at = call[s].at /\ call'[s].vmid = call[s].vmid
            /\ call'[s].offset = call[s].offset
         \/ call[s].at = "list" /\ call'[s].at = "probe" /\ call'[s].offset = call[s].offset
         \/ /\ call[s].at = "probe" /\ call'[s].at = "probe" /\ call[s].offset # Size - 1
            /\ call'[s].offset = call[s].offset + 1
            /\ vm[ProbeAt(call[s].inst, call[s].offset)].owner # call[s].inst
         \/ /\ call[s].at = "probe" /\ call'[s].at = "existing"
            /\ call'[s].vmid = ProbeAt(call[s].inst, call[s].offset)
         \/ call[s].at = "existing" /\ call'[s].at = "post" /\ call'[s].vmid = call[s].vmid
  BY <1>2, <1>3 DEF SearchMoves, Searching
<1>5. PICK i \in Instances : i = call[s].inst
  BY <1>4, <1>3 DEF AInv, CallsFit, CallFits
<1>6. \A v \in Vmids : vm'[v].owner = i => vm[v].owner = i
  BY <1>1, <1>3, <1>4, <1>5, SearcherGainsNothing
<1>7. ASSUME NEW k \in Nat, Passed(vm, i, k)
      PROVE  Passed(vm', i, k)
  <2>1. \A l \in 0..(k - 1) : ProbeAt(i, l) \in Vmids
    BY ProbesInRange
  <2> QED
    BY <1>6, <1>7, <2>1 DEF Passed
<1>8. Vmids \subseteq Nat /\ 0 \in Vmids
  BY PortAssumption DEF Vmids
<1>9. CASE call[s].at = "list"
  <2>1. call'[s].at = "probe" /\ call'[s].offset = 0
    BY <1>2, <1>3, <1>4, <1>9 DEF SearchFits
  <2>2. Passed(vm', i, 0)
    BY DEF Passed
  <2> QED
    BY <1>4, <1>5, <1>8, <2>1, <2>2
<1>10. CASE call[s].at = "probe"
  <2>1. PICK k \in Vmids : k = call[s].offset /\ Passed(vm, i, k)
    BY <1>2, <1>4, <1>5, <1>10 DEF SearchFits
  <2>2. Passed(vm', i, k)
    BY <1>7, <1>8, <2>1
  <2>3. CASE call'[s].at = "probe" /\ call'[s].offset = k
    BY <1>4, <1>5, <2>1, <2>2, <2>3
  <2>4. CASE call'[s].at = "probe" /\ call'[s].offset = k + 1 /\ k # Size - 1 /\ vm[ProbeAt(i, k)].owner # i
    <3>1. k + 1 \in Vmids
      <4>1. PICK n \in Nat : n = Size /\ n # 0
        BY PortAssumption
      <4>2. k \in 0..(n - 1) /\ k # n - 1
        BY <2>4, <4>1 DEF Vmids
      <4> QED
        BY <4>1, <4>2 DEF Vmids
    <3>2. ProbeAt(i, k) \in Vmids
      BY <1>8, ProbesInRange
    <3>3. vm'[ProbeAt(i, k)].owner # i
      BY <1>6, <2>4, <3>2
    <3>4. PICK n \in Vmids : n = k + 1
      BY <3>1
    <3>5. ASSUME NEW l \in 0..(n - 1)
          PROVE  vm'[ProbeAt(i, l)].owner # i
      <4>1. l = k \/ l \in 0..(k - 1)
        BY <1>8, <3>4
      <4>2. CASE l = k
        BY <3>3, <4>2
      <4>3. CASE l \in 0..(k - 1)
        BY <2>2, <4>3 DEF Passed
      <4> QED
        BY <4>1, <4>2, <4>3
    <3>6. Passed(vm', i, n)
      BY <3>5 DEF Passed
    <3> QED
      BY <1>4, <1>5, <2>4, <3>4, <3>6
  <2>5. CASE call'[s].at = "existing" /\ call'[s].vmid = ProbeAt(i, k)
    BY <1>4, <1>5, <2>2, <2>5
  <2> QED
    BY <1>4, <1>5, <1>10, <2>1, <2>3, <2>4, <2>5
<1>11. CASE call[s].at \in {"existing", "post"}
  <2>1. PICK k \in Vmids : call[s].vmid = ProbeAt(i, k) /\ Passed(vm, i, k)
    BY <1>2, <1>4, <1>5, <1>11 DEF SearchFits
  <2>2. Passed(vm', i, k) /\ call'[s].at \in {"existing", "post"} /\ call'[s].vmid = ProbeAt(i, k)
    BY <1>4, <1>7, <1>8, <1>11, <2>1
  <2> QED
    BY <1>4, <1>5, <2>1, <2>2
<1> QED
  BY <1>3, <1>4, <1>9, <1>10, <1>11

(* No VM of the instance is at a VMID that the search of a create has      *)
(* passed (findOwnedOrFreeVmid), whatever is cloned and destroyed while it *)
(* goes on.                                                                *)
THEOREM SearchesPass == AdaptersSpec => [](AInv /\ Searches)
<1>1. AdaptersInit => AInv /\ Searches
  <2>1. SUFFICES ASSUME AdaptersInit PROVE Searches
    BY AInit
  <2>2. \A s \in Slots : call[s].at = "free"
    BY <2>1, NoCallFacts DEF AdaptersInit, PortInit
  <2> QED
    BY <2>2 DEF Searches, SearchFits
<1>2. AInv /\ Searches /\ [AdaptersNext]_adapterVars => (AInv /\ Searches)'
  <2>1. SUFFICES ASSUME AInv, Searches, [AdaptersNext]_adapterVars PROVE Searches'
    BY AStep
  <2>2. CASE AdaptersNext
    BY <2>1, <2>2, SearchesKept
  <2>3. CASE UNCHANGED adapterVars
    BY <2>1, <2>3 DEF Searches, SearchFits, Searching, Passed, adapterVars, terraformVars, portVars
  <2> QED
    BY <2>1, <2>2, <2>3
<1> QED
  BY <1>1, <1>2, PTL DEF AdaptersSpec

(* A create that is submitted again clones a second VM only at a VMID its  *)
(* search reaches before the first one's: every VMID it passed was         *)
(* occupied by another instance's VM, and none of them can become its own. *)
THEOREM SecondVmOnlyAhead == AdaptersSpec => SecondVmOnlyBefore
<1>1. ASSUME AInv, Searches, AdaptersNext, NEW s \in Slots, call'[s].done > call[s].done,
             vm[call[s].vmid] = Free, call[s].live, call[s].alone,
             NEW w \in Vmids, vm[w].owner = call[s].inst
      PROVE  Position(call[s].inst, call[s].vmid) < Position(call[s].inst, w)
  <2>1. Post(s) /\ Sent(s) /\ call[s].at = "post"
    <3>1. Post(s) /\ Sent(s)
      BY <1>1, CountedIsSent
    <3> QED
      BY <3>1 DEF Post, At
  <2>2. PostsFit(call[s]) /\ call[s].inst \in Instances /\ call[s].vmid \in Vmids
    BY <1>1, <2>1 DEF AInv, CallsFit, CallFits
  <2>3. call[s].method = "create"
    BY <1>1, <2>1, <2>2, PostEffects DEF Sent, Accepts
  <2>4. adapter = "proxmox"
    BY <1>1, <2>1, <2>3 DEF AInv, Typed, StatesFit, Direct
  <2>5. PICK k \in Vmids : call[s].vmid = ProbeAt(call[s].inst, k) /\ Passed(vm, call[s].inst, k)
    BY <1>1, <2>1, <2>3, <2>4 DEF Searches, SearchFits, Searching
  <2>6. PICK i \in Instances : i = call[s].inst
    BY <2>2
  <2>7. Position(i, call[s].vmid) = k
    BY <2>2, <2>5, <2>6, PositionFacts
  <2>8. PICK l \in Vmids : l = Position(i, w) /\ ProbeAt(i, l) = w
    BY PositionFacts
  <2>9. l \notin 0..(k - 1)
    BY <1>1, <2>5, <2>6, <2>8 DEF Passed
  <2>10. l # k
    <3>1. vm[w] # Free
      BY <1>1, <2>2, FreeTyped, PortAssumption
    <3> QED
      BY <1>1, <2>5, <2>6, <2>8, <3>1
  <2>11. k < l
    BY <2>9, <2>10 DEF Vmids
  <2> QED
    BY <2>6, <2>7, <2>8, <2>11
<1>2. AInv /\ Searches /\ [AdaptersNext]_adapterVars =>
        [\A s \in Slots : LET i == call[s].inst v == call[s].vmid IN
           (call'[s].done > call[s].done /\ vm[v] = Free /\ call[s].live /\ call[s].alone) =>
             \A w \in Vmids : vm[w].owner = i => Position(i, v) < Position(i, w)]_portVars
  BY <1>1 DEF adapterVars, terraformVars, portVars
<1> QED
  BY <1>2, SearchesPass, PTL DEF AdaptersSpec, SecondVmOnlyBefore
=============================================================================
