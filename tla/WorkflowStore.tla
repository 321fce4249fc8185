--------------------------- MODULE WorkflowStore ---------------------------
(***************************************************************************)
(* The orchestrator's workflow persistence                                 *)
(* (packages/postgres-adapter/src/workflow-store.ts): the command inbox,   *)
(* the workflow rows, the per-instance lease with its fencing token, the   *)
(* governed dead letters and their replay.  Every method of the store is   *)
(* one PostgreSQL transaction that locks the rows it reads, so every       *)
(* method is one action here.  What happens between two transactions of a  *)
(* worker (the provider call) is not an action of this module: the worker  *)
(* only keeps the claim it read, and anything may happen before it writes. *)
(*                                                                         *)
(* The caller of checkpoint, complete and deadLetterWorkflow is left free  *)
(* to pass any stage, resource and task; module Provisioning restricts it  *)
(* to what the workflow executors pass.                                    *)
(***************************************************************************)
EXTENDS Integers, Sequences

CONSTANTS
  Ops,              \* operations; an operation has one command event
  CreateOps,        \* those whose action is create_instance
  Instances,        \* instances, the unit of leasing
  InstanceOf,       \* the instance an operation mutates
  Procs,            \* orchestrator processes, each running one worker loop
  WorkerIds,        \* values of WORKER_ID
  WorkerIdOf,       \* the WORKER_ID a process was started with
  Stages,           \* stages an executor may checkpoint
  StageAttempts,    \* retry counters an executor may checkpoint
  Resources,        \* provider resource ids
  Tasks,            \* provider task references
  Requests,         \* replay requests an administrator makes
  None,             \* SQL NULL
  ClocksAgree,      \* the workers' clocks agree with the database's
  MixedDeployments, \* some consumers do not support some commands' schema
  ForeignReplays,   \* operations for which an unauthorised replay record exists
  MaxToken          \* bound on the fencing tokens of one instance

ASSUME StoreAssumption ==
  /\ CreateOps \subseteq Ops
  /\ InstanceOf \in [Ops -> Instances]
  /\ WorkerIdOf \in [Procs -> WorkerIds]
  /\ StageAttempts \subseteq Nat
  /\ 0 \in StageAttempts
  /\ None \notin Ops \cup WorkerIds \cup Resources \cup Tasks \cup Requests
  /\ ClocksAgree \in BOOLEAN
  /\ MixedDeployments \in BOOLEAN
  /\ ForeignReplays \subseteq Ops
  /\ MaxToken \in Nat

VARIABLES
  published,   \* records on provisioning.commands.v1, delivered at least once
  receipts,    \* workflow.command_receipts: <<operation, generation, payload>>
  completed,   \* the receipts whose completed_at is set: <<operation, generation>>
  workflow,    \* workflow.workflows, by operation
  admitted,    \* the operations of workflow.workflows in created_at order
  lease,       \* workflow.instance_leases, by instance
  claim,       \* the ClaimedWorkflow each process keeps in memory
  deadLetter,  \* workflow.dead_letters, by the operation of the original event
  request,     \* workflow.replay_requests
  quarantined, \* workflow.poison_records: <<record, failure code>>
  facts        \* workflow.outbox rows for the provisioning.events and dlq topics

vars == <<published, receipts, completed, workflow, admitted, lease, claim,
          deadLetter, request, quarantined, facts>>

-----------------------------------------------------------------------------
Unfinished == {"running", "retry_wait"}
Terminal == {"succeeded", "failed", "manual_review"}
StageNames == Stages \cup {"accepted", "completed", "failed", "manual_review"}
Nullable(S) == S \cup {None}

(* A row with status "none" is absent, as is a lease whose token is 0.     *)
Rows == [status : Unfinished \cup Terminal \cup {"none"}, stage : StageNames,
         stageAttempt : Nat, gen : Nat, token : Nat,
         resource : Nullable(Resources), task : Nullable(Tasks)]
Leases == [owner : Nullable(WorkerIds), token : Nat, live : BOOLEAN]
Claims == [op : Nullable(Ops), gen : Nat, token : Nat, stage : StageNames,
           stageAttempt : Nat, resource : Nullable(Resources),
           task : Nullable(Tasks)]
DeadLetters == [status : {"none", "open", "replay_requested", "replayed"},
                gen : Nat, allowed : BOOLEAN]
ReplayRequests == [status : {"none", "authorized", "completed", "rejected"},
                   op : Nullable(Ops), gen : Nat]
(* `request' identifies the payload: an authorised replay carries the      *)
(* causation id and outbox id of the request that authorised it.           *)
Messages ==
  [kind : {"command"}, op : Ops, gen : Nat, request : Nullable(Requests)]
    \cup [kind : {"replay"}, op : Ops, gen : {0}, request : Requests]
FactKinds == {"progress", "succeeded", "failed", "manual_review",
              "dead_lettered", "replay_completed", "replay_rejected"}
(* `writer' is the fencing token under which a worker ended a generation,  *)
(* 0 for progress and for the consumer's facts.                            *)
Facts == [kind : FactKinds, op : Ops, gen : Nat, stage : StageNames, writer : Nat]
RejectionCodes == {"IDENTITY_CONFLICT", "UNAUTHORIZED", "STATE_CONFLICT"}

TypeOK ==
  /\ published \subseteq Messages
  /\ receipts \subseteq Ops \X Nat \X Nullable(Requests)
  /\ completed \subseteq Ops \X Nat
  /\ workflow \in [Ops -> Rows]
  /\ admitted \in Seq(Ops)
  /\ lease \in [Instances -> Leases]
  /\ claim \in [Procs -> Claims]
  /\ deadLetter \in [Ops -> DeadLetters]
  /\ request \in [Requests -> ReplayRequests]
  /\ quarantined \subseteq Messages \X RejectionCodes
  /\ facts \subseteq Facts

(* A row at its first stage.                                               *)
RowAtStart(status, gen, token, resource) ==
  [status |-> status, stage |-> "accepted", stageAttempt |-> 0, gen |-> gen,
   token |-> token, resource |-> resource, task |-> None]
NoRow == RowAtStart("none", 0, 0, None)
Idle == [op |-> None, gen |-> 0, token |-> 0, stage |-> "accepted",
         stageAttempt |-> 0, resource |-> None, task |-> None]

(* Records that claim to be a first replay and that no request authorised; *)
(* delivery may come at any time, so they are there from the start.        *)
ForeignRecords ==
  {[kind |-> "command", op |-> o, gen |-> 1, request |-> None] : o \in ForeignReplays}

Init ==
  /\ published = ForeignRecords
  /\ receipts = {}
  /\ completed = {}
  /\ workflow = [o \in Ops |-> NoRow]
  /\ admitted = << >>
  /\ lease = [i \in Instances |-> [owner |-> None, token |-> 0, live |-> FALSE]]
  /\ claim = [p \in Procs |-> Idle]
  /\ deadLetter = [o \in Ops |-> [status |-> "none", gen |-> 0, allowed |-> FALSE]]
  /\ request = [r \in Requests |-> [status |-> "none", op |-> None, gen |-> 0]]
  /\ quarantined = {}
  /\ facts = {}

-----------------------------------------------------------------------------
(* What reaches the command topic from outside the orchestrator.           *)

CommandOf(o) == [kind |-> "command", op |-> o, gen |-> 0, request |-> None]

(* The Control API's accepted command, through its outbox and Debezium.    *)
PublishCommand(o) ==
  /\ CommandOf(o) \notin published
  /\ published' = published \cup {CommandOf(o)}
  /\ UNCHANGED <<receipts, completed, workflow, admitted, lease, claim,
                 deadLetter, request, quarantined, facts>>

(* requestDeadLetterReplay: the administrator sees the dead letter in the  *)
(* projection, which may be behind workflow.dead_letters: the permission   *)
(* there may still be that of the dead-lettering which an earlier replay   *)
(* generation came from.                                                   *)
PublishReplayRequest(r, o) ==
  /\ \A m \in published : m.kind = "replay" => m.request # r
  /\ deadLetter[o].status # "none"
  /\ deadLetter[o].allowed \/ deadLetter[o].gen > 0
  /\ published' = published \cup
       {[kind |-> "replay", op |-> o, gen |-> 0, request |-> r]}
  /\ UNCHANGED <<receipts, completed, workflow, admitted, lease, claim,
                 deadLetter, request, quarantined, facts>>

-----------------------------------------------------------------------------
(* The consumer's transactions.                                            *)

HasReceipt(o, g) == \E r \in Nullable(Requests) : <<o, g, r>> \in receipts

ConsumerFact(k, o, g) ==
  [kind |-> k, op |-> o, gen |-> g, stage |-> "accepted", writer |-> 0]

(* insertCommandReceipt is ON CONFLICT DO NOTHING on (event, generation).  *)
InsertReceipt(m) ==
  receipts' = IF HasReceipt(m.op, m.gen) THEN receipts
              ELSE receipts \cup {<<m.op, m.gen, m.request>>}

(* mutant: the new row is not seeded from the instance's earlier rows. *)
InheritsNothing(o, r) == r = None

(* r is what a new row of operation o inherits: the resource of the        *)
(* earliest row of its instance that has one.                              *)
Inherits(o, r) ==
  LET Carries(q) == /\ InstanceOf[q] = InstanceOf[o]
                    /\ workflow[q].resource # None
  IN IF o \in CreateOps \/ \A k \in DOMAIN admitted : ~Carries(admitted[k])
     THEN r = None
     ELSE \E k \in DOMAIN admitted :
            /\ Carries(admitted[k])
            /\ \A j \in DOMAIN admitted : j < k => ~Carries(admitted[j])
            /\ r = workflow[admitted[k]].resource

(* mutant: the inbox check is dropped. *)
ReadmitsRedeliveries(o) == FALSE

AlreadyAdmitted(o) == workflow[o].status # "none" \/ HasReceipt(o, 0)

(* A first delivery creates the workflow; a redelivery finds the row or    *)
(* the receipt and changes nothing but, at most, the receipts.             *)
AdmitOriginalDelivery(m) ==
  /\ m.kind = "command" /\ m.gen = 0
  /\ LET o == m.op
         existing == workflow[o].status # "none"
     IN /\ InsertReceipt(m)
        /\ completed' = IF existing /\ ~HasReceipt(o, 0)
                        THEN completed \cup {<<o, 0>>} ELSE completed
        /\ IF AlreadyAdmitted(o)
           THEN UNCHANGED <<workflow, admitted>>
           ELSE /\ \E r \in Nullable(Resources) :
                     /\ Inherits(o, r)
                     /\ workflow' = [workflow EXCEPT
                                       ![o] = RowAtStart("running", 0, 0, r)]
                /\ admitted' = Append(admitted, o)
  /\ UNCHANGED <<published, lease, claim, deadLetter, request, quarantined, facts>>

(* Persisting the decision on a replay request and publishing the restored *)
(* command are one transaction; a redelivered request finds its receipt.   *)
AdmitReplayRequest(m) ==
  /\ m.kind = "replay"
  /\ request[m.request].status = "none"
  /\ LET o == m.op
         g == deadLetter[o].gen + 1
         open == deadLetter[o].status = "open" /\ deadLetter[o].allowed
     IN \E supported \in IF MixedDeployments THEN BOOLEAN ELSE {TRUE} :
        IF open /\ supported
        THEN /\ \A r \in Requests :    \* unique (original event, generation)
                  ~(request[r].op = o /\ request[r].gen = g)
             /\ request' = [request EXCEPT ![m.request] =
                  [status |-> "authorized", op |-> o, gen |-> g]]
             /\ published' = published \cup
                  {[kind |-> "command", op |-> o, gen |-> g, request |-> m.request]}
             /\ deadLetter' = [deadLetter EXCEPT ![o].gen = g,
                                                 ![o].status = "replay_requested"]
             /\ UNCHANGED facts
        ELSE /\ request' = [request EXCEPT ![m.request] =
                  [status |-> "rejected", op |-> o, gen |-> 0]]
             /\ facts' = facts \cup
                  {ConsumerFact("replay_rejected", o, deadLetter[o].gen)}
             /\ UNCHANGED <<published, deadLetter>>
  /\ UNCHANGED <<receipts, completed, workflow, admitted, lease, claim, quarantined>>

(* The three refusals of a replay command, in the order they are tested.   *)
Authorized(m) ==
  /\ m.request # None
  /\ request[m.request] = [status |-> "authorized", op |-> m.op, gen |-> m.gen]

(* mutant: compares with the row's own generation, not its successor. *)
MovedOnByOne(m) ==
  /\ workflow[m.op].status # "none"
  /\ workflow[m.op].status # "failed" \/ m.gen # workflow[m.op].gen

MovedOn(m) ==
  /\ workflow[m.op].status # "none"
  /\ \/ workflow[m.op].status # "failed"
     \/ m.gen # workflow[m.op].gen + 1

ReplayRejection(m) ==
  IF HasReceipt(m.op, m.gen) THEN "IDENTITY_CONFLICT"
  ELSE IF ~Authorized(m) THEN "UNAUTHORIZED"
  ELSE "STATE_CONFLICT"

RejectReplayCommand(m) ==
  /\ m.kind = "command" /\ m.gen > 0
  /\ <<m.op, m.gen, m.request>> \notin receipts
  /\ HasReceipt(m.op, m.gen) \/ ~Authorized(m) \/ MovedOn(m)
  /\ quarantined' = quarantined \cup {<<m, ReplayRejection(m)>>}
  /\ UNCHANGED <<published, receipts, completed, workflow, admitted, lease, claim,
                 deadLetter, request, facts>>

(* The rows the update of the dead letter matches: replay_requested at     *)
(* this generation.  An update that matches no row changes nothing and     *)
(* raises nothing, so the transaction commits all the same.                *)
DeadLetterAwaits(m) ==
  /\ deadLetter[m.op].status = "replay_requested"
  /\ deadLetter[m.op].gen = m.gen

(* mutant: replay_generation is not advanced with the reset. *)
ReopenedSameGeneration(m) ==
  RowAtStart("running", workflow[m.op].gen, workflow[m.op].token, None)

(* The reset row: back at the first stage, with no resource and no task.   *)
Reopened(m) == RowAtStart("running", m.gen, workflow[m.op].token, None)

AdmitAuthorizedReplayCommand(m) ==
  /\ m.kind = "command" /\ m.gen > 0
  /\ ~HasReceipt(m.op, m.gen) /\ Authorized(m) /\ ~MovedOn(m)
  /\ LET o == m.op IN
     /\ receipts' = receipts \cup {<<o, m.gen, m.request>>}
     /\ workflow' = [workflow EXCEPT ![o] = Reopened(m)]
     /\ admitted' = IF workflow[o].status = "none" THEN Append(admitted, o)
                    ELSE admitted
     /\ deadLetter' = IF DeadLetterAwaits(m)
                      THEN [deadLetter EXCEPT ![o].status = "replayed"]
                      ELSE deadLetter
     /\ request' = [request EXCEPT ![m.request].status = "completed"]
     /\ facts' = facts \cup {ConsumerFact("replay_completed", o, m.gen)}
  /\ UNCHANGED <<published, completed, lease, claim, quarantined>>

(* mutant: a redelivered command is dead-lettered again. *)
Undelivered(m) == TRUE

NotYetDelivered(m) == ~HasReceipt(m.op, m.gen)

(* A command this deployment cannot admit: its schema version is unknown   *)
(* to it (replayable, for a create) or its payload is invalid.             *)
DeadLetterCommand(m) ==
  /\ MixedDeployments
  /\ m.kind = "command"
  /\ NotYetDelivered(m)
  /\ receipts' = receipts \cup {<<m.op, m.gen, m.request>>}
  /\ completed' = completed \cup {<<m.op, m.gen>>}
  /\ \E allowed \in IF m.op \in CreateOps THEN BOOLEAN ELSE {FALSE} :
       deadLetter' = [deadLetter EXCEPT ![m.op] =
         [status |-> "open", gen |-> m.gen, allowed |-> allowed]]
  /\ facts' = facts \cup {ConsumerFact("dead_lettered", m.op, m.gen)}
  /\ UNCHANGED <<published, workflow, admitted, lease, claim, request, quarantined>>

-----------------------------------------------------------------------------
(* The worker's transactions.                                              *)

(* readyWorkflow and the lease upsert: an instance is free when it was     *)
(* never leased, its lease has run out, or this WORKER_ID owns the lease.  *)
LeaseFree(p, i) ==
  \/ lease[i].token = 0
  \/ ~lease[i].live
  \/ lease[i].owner = WorkerIdOf[p]

ClaimNext(p, o) ==
  LET i == InstanceOf[o]
      w == workflow[o]
      token == lease[i].token + 1
  IN /\ claim[p].op = None
     /\ w.status \in Unfinished
     /\ LeaseFree(p, i)
     /\ token <= MaxToken
     /\ lease' = [lease EXCEPT ![i] =
          [owner |-> WorkerIdOf[p], token |-> token, live |-> TRUE]]
     /\ workflow' = [workflow EXCEPT ![o].status = "running", ![o].token = token]
     /\ claim' = [claim EXCEPT ![p] =
          [op |-> o, gen |-> w.gen, token |-> token, stage |-> w.stage,
           stageAttempt |-> w.stageAttempt, resource |-> w.resource,
           task |-> w.task]]
     /\ UNCHANGED <<published, receipts, completed, admitted, deadLetter, request,
                    quarantined, facts>>

(* mutant: the fence compares the owner but not the token. *)
AssertLeaseOwner(p) ==
  LET l == lease[InstanceOf[claim[p].op]] IN
  claim[p].op # None /\ l.owner = WorkerIdOf[p] /\ l.live

(* mutant: the fence only asks whether the instance's lease is live. *)
AssertLeaseLive(p) ==
  claim[p].op # None /\ (lease[InstanceOf[claim[p].op]].live \/ ~ClocksAgree)

(* The fence.  leased_until was computed by the database's clock and is    *)
(* compared with the worker's.                                             *)
AssertLease(p) ==
  LET c == claim[p] IN
  /\ c.op # None
  /\ workflow[c.op].token = c.token
  /\ lease[InstanceOf[c.op]].owner = WorkerIdOf[p]
  /\ lease[InstanceOf[c.op]].token = c.token
  /\ lease[InstanceOf[c.op]].live \/ ~ClocksAgree

(* mutant: releasing deletes the lease row, so tokens start again. *)
DeleteLease(i) ==
  lease' = [lease EXCEPT ![i] = [owner |-> None, token |-> 0, live |-> FALSE]]

(* releaseLease stores the worker's present time, which a database whose   *)
(* clock is behind still sees as future.                                   *)
ReleaseLease(i) ==
  \E live \in IF ClocksAgree THEN {FALSE} ELSE BOOLEAN :
    lease' = [lease EXCEPT ![i].live = live]

WorkerFact(p, k, stage) ==
  [kind |-> k, op |-> claim[p].op, gen |-> claim[p].gen, stage |-> stage,
   writer |-> IF k = "progress" THEN 0 ELSE claim[p].token]

(* res = None leaves the resource as it is; task is the reference to keep, *)
(* None when the finished task is cleared.                                 *)
Checkpoint(p, stage, wait, attempt, res, task) ==
  LET o == claim[p].op IN
  /\ AssertLease(p)
  /\ workflow' = [workflow EXCEPT ![o] =
       [status |-> IF wait THEN "retry_wait" ELSE "running",
        stage |-> stage, stageAttempt |-> attempt, gen |-> @.gen,
        token |-> @.token, resource |-> IF res = None THEN @.resource ELSE res,
        task |-> task]]
  /\ facts' = facts \cup {WorkerFact(p, "progress", stage)}
  /\ ReleaseLease(InstanceOf[o])
  /\ claim' = [claim EXCEPT ![p] = Idle]
  /\ UNCHANGED <<published, receipts, completed, admitted, deadLetter, request,
                 quarantined>>

(* mutant: completed_at is set on the original delivery's receipt only. *)
CloseOriginalReceipt(o) ==
  completed' = IF HasReceipt(o, 0) THEN completed \cup {<<o, 0>>} ELSE completed

(* Closing the receipt of the row's generation; an update that finds none  *)
(* changes nothing.                                                        *)
CloseReceipt(o) ==
  completed' = IF HasReceipt(o, workflow[o].gen)
               THEN completed \cup {<<o, workflow[o].gen>>} ELSE completed

(* The row of a finished workflow keeps its resource, task and token.      *)
EndedRow(o, status, stage, attempts) ==
  [status |-> status, stage |-> stage, stageAttempt |-> attempts,
   gen |-> workflow[o].gen, token |-> workflow[o].token,
   resource |-> workflow[o].resource, task |-> workflow[o].task]

Complete(p, status) ==
  LET o == claim[p].op
      stage == IF status = "succeeded" THEN "completed" ELSE status
  IN /\ AssertLease(p)
     /\ CloseReceipt(o)
     /\ workflow' = [workflow EXCEPT
                       ![o] = EndedRow(o, status, stage, workflow[o].stageAttempt)]
     /\ facts' = facts \cup {WorkerFact(p, status, stage)}
     /\ ReleaseLease(InstanceOf[o])
     /\ claim' = [claim EXCEPT ![p] = Idle]
     /\ UNCHANGED <<published, receipts, admitted, deadLetter, request, quarantined>>

(* mutant: the dead letter always records the first generation. *)
OriginalDeadLetter(o) == [status |-> "open", gen |-> 0, allowed |-> TRUE]

ExhaustedDeadLetter(o) ==
  [status |-> "open", gen |-> workflow[o].gen, allowed |-> TRUE]

DeadLetterWorkflow(p, attempts) ==
  LET o == claim[p].op IN
  /\ AssertLease(p)
  /\ CloseReceipt(o)
  /\ workflow' = [workflow EXCEPT ![o] = EndedRow(o, "failed", "failed", attempts)]
  /\ deadLetter' = [deadLetter EXCEPT ![o] = ExhaustedDeadLetter(o)]
  /\ facts' = facts \cup {WorkerFact(p, "failed", "failed"),
                          WorkerFact(p, "dead_lettered", "failed")}
  /\ ReleaseLease(InstanceOf[o])
  /\ claim' = [claim EXCEPT ![p] = Idle]
  /\ UNCHANGED <<published, receipts, admitted, request, quarantined>>

(* The process crashed, its database connection failed, or the fence       *)
(* refused its write: runOne throws and the claim is forgotten.            *)
AbandonClaim(p) ==
  /\ claim[p].op # None
  /\ claim' = [claim EXCEPT ![p] = Idle]
  /\ UNCHANGED <<published, receipts, completed, workflow, admitted, lease,
                 deadLetter, request, quarantined, facts>>

(* leased_until passes while the holder is stalled, calling or dead.       *)
LeaseLapses(i) ==
  /\ lease[i].live
  /\ lease' = [lease EXCEPT ![i].live = FALSE]
  /\ UNCHANGED <<published, receipts, completed, workflow, admitted, claim,
                 deadLetter, request, quarantined, facts>>

-----------------------------------------------------------------------------
Environment ==
  \/ \E o \in Ops : PublishCommand(o)
  \/ \E r \in Requests, o \in Ops : PublishReplayRequest(r, o)

Consumer ==
  \E m \in published :
    \/ AdmitOriginalDelivery(m)
    \/ AdmitReplayRequest(m)
    \/ AdmitAuthorizedReplayCommand(m)
    \/ RejectReplayCommand(m)
    \/ DeadLetterCommand(m)

WorkerWrite(p) ==
  \/ \E stage \in Stages, wait \in BOOLEAN, attempt \in StageAttempts,
        res \in Nullable(Resources), task \in Nullable(Tasks) :
       Checkpoint(p, stage, wait, attempt, res, task)
  \/ \E status \in Terminal : Complete(p, status)
  \/ \E attempts \in StageAttempts : DeadLetterWorkflow(p, attempts)

Next ==
  \/ Environment
  \/ Consumer
  \/ \E p \in Procs, o \in Ops : ClaimNext(p, o)
  \/ \E p \in Procs : WorkerWrite(p) \/ AbandonClaim(p)
  \/ \E i \in Instances : LeaseLapses(i)

Spec == Init /\ [][Next]_vars
-----------------------------------------------------------------------------
(* SAFE-010.  However leases lapse, processes stall and WORKER_IDs         *)
(* coincide, at most one of the claims held on an instance would still     *)
(* pass assertLease.                                                       *)
UniqueLeaseHolder ==
  \A p, q \in Procs :
    (/\ p # q
     /\ AssertLease(p)
     /\ claim[q].op # None
     /\ InstanceOf[claim[q].op] = InstanceOf[claim[p].op])
    => ~AssertLease(q)

(* What a worker read when it claimed is still what the row holds whenever *)
(* its write would be let through: the stage, retry counter, resource and  *)
(* task it decided on are not stale, and the row is still running.         *)
FreshClaim ==
  \A p \in Procs :
    LET c == claim[p]
        w == workflow[c.op]
    IN AssertLease(p) =>
         /\ w.status = "running"
         /\ w.gen = c.gen
         /\ w.stage = c.stage
         /\ w.stageAttempt = c.stageAttempt
         /\ w.resource = c.resource
         /\ w.task = c.task

(* The inbox and the workflow rows agree.  complete and deadLetterWorkflow *)
(* close the receipt of the row's current replay generation by an update   *)
(* that would silently match nothing if there were none: there always is   *)
(* one, it is open while the workflow runs and closed once it has ended.   *)
ReceiptCoversWorkflow ==
  \A o \in Ops :
    workflow[o].status # "none" =>
      /\ HasReceipt(o, workflow[o].gen)
      /\ <<o, workflow[o].gen>> \in completed <=> workflow[o].status \in Terminal

(* One generation of an operation ends once: two terminal facts of the     *)
(* same generation are the same fact, written under one fencing token.     *)
OneOutcomePerGeneration ==
  \A f, g \in facts :
    (f.kind \in Terminal /\ g.kind \in Terminal /\ f.op = g.op /\ f.gen = g.gen)
    => f = g

(* A replay command whose authority holds closes its dead letter: the      *)
(* update in admitAuthorizedReplayCommand would silently match no row and  *)
(* leave the dead letter behind a workflow that runs again, but the dead   *)
(* letter is always waiting at the command's generation.                   *)
ReplayFindsItsDeadLetter ==
  \A m \in published :
    (m.kind = "command" /\ m.gen > 0 /\ ~HasReceipt(m.op, m.gen) /\ Authorized(m))
    => DeadLetterAwaits(m)

(* A replay generation is authorised by one request, as the unique index   *)
(* on (original_event_id, replay_generation) demands: an open dead letter  *)
(* never offers a generation that some request already holds, so           *)
(* admitReplayRequest does not fail on that index.                         *)
GenerationNotReused ==
  \A o \in Ops, r \in Requests :
    (deadLetter[o].status = "open" /\ request[r].op = o)
    => request[r].gen <= deadLetter[o].gen

(* An authorised replay is not refused because the workflow moved on while *)
(* its command travelled through Kafka.  The one exception: a consumer     *)
(* that did not support the command dead-lettered the generation the       *)
(* workflow was waiting for, and the next request skipped past it.         *)
AuthorityNotStranded ==
  \A m \in published :
    (Authorized(m) /\ ~HasReceipt(m.op, m.gen) /\ MovedOn(m)) =>
      ConsumerFact("dead_lettered", m.op, workflow[m.op].gen + 1) \in facts

(* A terminal workflow row is final, except that a failed one is reopened  *)
(* at its first stage, as the next generation, by a request's authority.   *)
TerminalIsFinal ==
  [][\A o \in Ops :
       (workflow[o].status \in Terminal /\ workflow'[o] # workflow[o]) =>
         /\ workflow[o].status = "failed"
         /\ workflow'[o].status = "running"
         /\ workflow'[o].gen = workflow[o].gen + 1
         /\ \E r \in Requests :
              request[r] = [status |-> "authorized", op |-> o,
                            gen |-> workflow'[o].gen]]_vars
-----------------------------------------------------------------------------
(* The store implements OperationLifecycle: a workflow waiting for a retry *)
(* is running, and leases, claims, receipts and messages are hidden.       *)
Lifecycle == INSTANCE OperationLifecycle WITH
  status <- [o \in Ops |-> IF workflow[o].status = "retry_wait" THEN "running"
                           ELSE workflow[o].status],
  generation <- [o \in Ops |-> workflow[o].gen]

(* The abstract specification: redelivered commands, stale workers and     *)
(* replay commands that arrive late never start an operation twice, end a  *)
(* generation twice or reopen one that did not fail.                       *)
ImplementsLifecycle == Lifecycle!LifecycleSpec
=============================================================================
