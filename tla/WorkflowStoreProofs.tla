------------------------ MODULE WorkflowStoreProofs ------------------------
(***************************************************************************)
(* What holds of WorkflowStore for any number of operations, instances,    *)
(* processes, worker ids and replay requests, whatever the clocks do.      *)
(***************************************************************************)
EXTENDS WorkflowStore, TLAPS

Holds(p) == claim[p].op # None
InstanceHeld(p) == InstanceOf[claim[p].op]

(* A row's token was issued by its instance's lease.                       *)
RowTokens ==
  \A o \in Ops :
    /\ workflow[o].token <= lease[InstanceOf[o]].token
    /\ workflow[o].status = "none" => workflow[o].token = 0

(* So was the token of a claim still in memory, and the last one issued    *)
(* went to the lease's owner.                                              *)
ClaimTokens ==
  \A p \in Procs :
    Holds(p) =>
      /\ 1 <= claim[p].token
      /\ claim[p].token <= lease[InstanceHeld(p)].token
      /\ claim[p].token = lease[InstanceHeld(p)].token =>
           lease[InstanceHeld(p)].owner = WorkerIdOf[p]

(* No token of an instance was given to two processes.                     *)
TokensDistinct ==
  \A p, q \in Procs :
    (p # q /\ Holds(p) /\ Holds(q) /\ InstanceHeld(p) = InstanceHeld(q))
    => claim[p].token # claim[q].token

(* A row that still bears a claim's token is as the claim read it.         *)
ClaimsMirrorRows ==
  \A p \in Procs :
    (Holds(p) /\ claim[p].token = workflow[claim[p].op].token) =>
      /\ workflow[claim[p].op].status = "running"
      /\ workflow[claim[p].op].gen = claim[p].gen
      /\ workflow[claim[p].op].stage = claim[p].stage
      /\ workflow[claim[p].op].stageAttempt = claim[p].stageAttempt
      /\ workflow[claim[p].op].resource = claim[p].resource
      /\ workflow[claim[p].op].task = claim[p].task

Fence == RowTokens /\ ClaimTokens /\ TokensDistinct /\ ClaimsMirrorRows

CompletedHaveReceipts ==
  \A x \in completed : HasReceipt(x[1], x[2])

OutcomesAreCompleted ==
  \A f \in facts : f.kind \in Terminal => <<f.op, f.gen>> \in completed

Ledger == /\ CompletedHaveReceipts
          /\ ReceiptCoversWorkflow
          /\ OutcomesAreCompleted
          /\ OneOutcomePerGeneration

IInv == TypeOK /\ Fence /\ Ledger
-----------------------------------------------------------------------------
(* Next is the union of the store's transactions and the environment's     *)
(* steps; every proof of preservation below splits on it.                  *)
LEMMA NextCases ==
  ASSUME Next
  PROVE  \/ \E o \in Ops : PublishCommand(o)
         \/ \E r \in Requests, o \in Ops : PublishReplayRequest(r, o)
         \/ \E m \in published : AdmitOriginalDelivery(m)
         \/ \E m \in published : AdmitReplayRequest(m)
         \/ \E m \in published : AdmitAuthorizedReplayCommand(m)
         \/ \E m \in published : RejectReplayCommand(m)
         \/ \E m \in published : DeadLetterCommand(m)
         \/ \E p \in Procs, o \in Ops : ClaimNext(p, o)
         \/ \E p \in Procs, stage \in Stages, wait \in BOOLEAN,
               attempt \in StageAttempts, res \in Nullable(Resources),
               task \in Nullable(Tasks) :
              Checkpoint(p, stage, wait, attempt, res, task)
         \/ \E p \in Procs, status \in Terminal : Complete(p, status)
         \/ \E p \in Procs, attempts \in StageAttempts : DeadLetterWorkflow(p, attempts)
         \/ \E p \in Procs : AbandonClaim(p)
         \/ \E i \in Instances : LeaseLapses(i)
  BY DEF Next, Environment, Consumer, WorkerWrite

(* The type of a message's parts.                                          *)
LEMMA MessageParts ==
  ASSUME TypeOK, NEW m \in published
  PROVE  /\ m \in Messages
         /\ m.op \in Ops
         /\ m.gen \in Nat
         /\ m.request \in Nullable(Requests)
         /\ m.kind = "replay" => m.request \in Requests
  BY DEF TypeOK, Messages, Nullable

(* The absent row and the idle claim are a row and a claim.                *)
LEMMA ConstantRecords == NoRow \in Rows /\ Idle \in Claims
  BY DEF NoRow, RowAtStart, Idle, Rows, Claims, StageNames, Nullable, Unfinished, Terminal

(* A process that holds a claim holds it on a known operation.             *)
LEMMA ClaimedOp ==
  ASSUME TypeOK, NEW p \in Procs, Holds(p)
  PROVE  /\ claim[p].op \in Ops
         /\ claim[p].gen \in Nat
         /\ claim[p].token \in Nat
         /\ InstanceHeld(p) \in Instances
  BY StoreAssumption DEF TypeOK, Claims, Nullable, Holds, InstanceHeld

(* A process that passes the fence holds a claim.                          *)
LEMMA FenceHolds ==
  ASSUME NEW p \in Procs, AssertLease(p)
  PROVE  Holds(p)
  BY DEF AssertLease, Holds

(* What the consumer writes to the outbox is a fact.                       *)
LEMMA ConsumerFactType ==
  ASSUME NEW k \in FactKinds, NEW o \in Ops, NEW g \in Nat
  PROVE  ConsumerFact(k, o, g) \in Facts
  BY DEF ConsumerFact, Facts, StageNames

(* So is what a worker writes.                                             *)
LEMMA WorkerFactType ==
  ASSUME TypeOK, NEW p \in Procs, Holds(p), NEW k \in FactKinds,
         NEW stage \in StageNames
  PROVE  WorkerFact(p, k, stage) \in Facts
  BY ClaimedOp DEF WorkerFact, Facts

(* Releasing a lease changes nothing but whether it is live.               *)
LEMMA ReleaseLeaseType ==
  ASSUME TypeOK, NEW i \in Instances, ReleaseLease(i)
  PROVE  /\ lease' \in [Instances -> Leases]
         /\ \A j \in Instances : /\ lease'[j].token = lease[j].token
                                 /\ lease'[j].owner = lease[j].owner
<1>1. PICK live \in BOOLEAN : lease' = [lease EXCEPT ![i].live = live]
  BY DEF ReleaseLease
<1>2. QED  BY <1>1 DEF TypeOK, Leases

(* Init establishes the type invariant.                                    *)
LEMMA InitTypeOK == Init => TypeOK
  BY StoreAssumption, ConstantRecords
  DEF Init, ForeignRecords, TypeOK, Messages, Leases, DeadLetters, ReplayRequests, Nullable

(* Every transaction preserves the type invariant.                         *)
LEMMA NextTypeOK ==
  ASSUME TypeOK, [Next]_vars
  PROVE  TypeOK'
<1>1. CASE UNCHANGED vars
  BY <1>1 DEF TypeOK, vars
<1>2. ASSUME NEW o \in Ops, PublishCommand(o) PROVE TypeOK'
  BY <1>2 DEF PublishCommand, CommandOf, TypeOK, Messages, Nullable
<1>4. ASSUME NEW r \in Requests, NEW o \in Ops, PublishReplayRequest(r, o) PROVE TypeOK'
  BY <1>4 DEF PublishReplayRequest, TypeOK, Messages, Nullable
<1>5. ASSUME NEW m \in published, AdmitOriginalDelivery(m) PROVE TypeOK'
  <2>1. receipts' \subseteq Ops \X Nat \X Nullable(Requests)
    BY <1>5, MessageParts DEF AdmitOriginalDelivery, InsertReceipt, TypeOK
  <2>2. completed' \subseteq Ops \X Nat
    BY <1>5, MessageParts DEF AdmitOriginalDelivery, TypeOK
  <2>3. workflow' \in [Ops -> Rows] /\ admitted' \in Seq(Ops)
    <3>1. CASE UNCHANGED <<workflow, admitted>>
      BY <3>1 DEF TypeOK
    <3>2. ASSUME NEW r \in Nullable(Resources),
                 workflow' = [workflow EXCEPT
                               ![m.op] = RowAtStart("running", 0, 0, r)],
                 admitted' = Append(admitted, m.op)
          PROVE  workflow' \in [Ops -> Rows] /\ admitted' \in Seq(Ops)
      <4>1. RowAtStart("running", 0, 0, r) \in Rows
        BY DEF RowAtStart, Rows, Unfinished, StageNames, Nullable
      <4>2. QED  BY <3>2, <4>1, MessageParts DEF TypeOK
    <3>3. QED  BY <1>5, <3>1, <3>2 DEF AdmitOriginalDelivery
  <2>4. QED  BY <1>5, <2>1, <2>2, <2>3 DEF AdmitOriginalDelivery, TypeOK
<1>6. ASSUME NEW m \in published, AdmitReplayRequest(m) PROVE TypeOK'
  <2> DEFINE g == deadLetter[m.op].gen + 1
  <2>0. m.request \in Requests
    BY <1>6, MessageParts DEF AdmitReplayRequest
  <2>1. g \in Nat
    BY MessageParts DEF TypeOK, DeadLetters
  <2>2. CASE /\ request' = [request EXCEPT ![m.request] =
                  [status |-> "authorized", op |-> m.op, gen |-> g]]
             /\ published' = published \cup
                  {[kind |-> "command", op |-> m.op, gen |-> g, request |-> m.request]}
             /\ deadLetter' = [deadLetter EXCEPT ![m.op].gen = g,
                                                 ![m.op].status = "replay_requested"]
             /\ UNCHANGED facts
    <3>1. request' \in [Requests -> ReplayRequests]
      BY <2>0, <2>1, <2>2, MessageParts DEF TypeOK, ReplayRequests, Nullable
    <3>2. published' \subseteq Messages
      BY <2>1, <2>2, MessageParts DEF TypeOK, Messages
    <3>3. deadLetter' \in [Ops -> DeadLetters]
      BY <2>1, <2>2, MessageParts DEF TypeOK, DeadLetters
    <3>4. QED  BY <1>6, <2>2, <3>1, <3>2, <3>3 DEF AdmitReplayRequest, TypeOK
  <2>3. CASE /\ request' = [request EXCEPT ![m.request] =
                  [status |-> "rejected", op |-> m.op, gen |-> 0]]
             /\ facts' = facts \cup
                  {ConsumerFact("replay_rejected", m.op, deadLetter[m.op].gen)}
             /\ UNCHANGED <<published, deadLetter>>
    <3>1. request' \in [Requests -> ReplayRequests]
      BY <2>0, <2>3, MessageParts DEF TypeOK, ReplayRequests, Nullable
    <3>2. deadLetter[m.op].gen \in Nat
      BY MessageParts DEF TypeOK, DeadLetters
    <3>3. facts' \subseteq Facts
      BY <2>3, <3>2, MessageParts, ConsumerFactType DEF TypeOK, FactKinds
    <3>4. QED  BY <1>6, <2>3, <3>1, <3>3 DEF AdmitReplayRequest, TypeOK
  <2>4. QED  BY <1>6, <2>2, <2>3 DEF AdmitReplayRequest
<1>7. ASSUME NEW m \in published, AdmitAuthorizedReplayCommand(m) PROVE TypeOK'
  <2>0. m.request \in Requests
    BY <1>7, MessageParts DEF AdmitAuthorizedReplayCommand, Authorized, Nullable
  <2>1. receipts' \subseteq Ops \X Nat \X Nullable(Requests)
    BY <1>7, MessageParts DEF AdmitAuthorizedReplayCommand, TypeOK
  <2>2. Reopened(m) \in Rows
    BY MessageParts
    DEF Reopened, RowAtStart, Rows, Unfinished, StageNames, Nullable, TypeOK
  <2>3. workflow' \in [Ops -> Rows] /\ admitted' \in Seq(Ops)
    BY <1>7, <2>2, MessageParts DEF AdmitAuthorizedReplayCommand, TypeOK
  <2>4. deadLetter' \in [Ops -> DeadLetters]
    <3>1. CASE DeadLetterAwaits(m)
      BY <1>7, <3>1, MessageParts DEF AdmitAuthorizedReplayCommand, TypeOK, DeadLetters
    <3>2. CASE ~DeadLetterAwaits(m)
      BY <1>7, <3>2 DEF AdmitAuthorizedReplayCommand, TypeOK
    <3>3. QED  BY <3>1, <3>2
  <2>5. request' \in [Requests -> ReplayRequests]
    BY <1>7, <2>0 DEF AdmitAuthorizedReplayCommand, TypeOK, ReplayRequests
  <2>6. facts' \subseteq Facts
    BY <1>7, MessageParts, ConsumerFactType
    DEF AdmitAuthorizedReplayCommand, TypeOK, FactKinds
  <2>7. QED
    BY <1>7, <2>1, <2>3, <2>4, <2>5, <2>6 DEF AdmitAuthorizedReplayCommand, TypeOK
<1>8. ASSUME NEW m \in published, RejectReplayCommand(m) PROVE TypeOK'
  BY <1>8, MessageParts
  DEF RejectReplayCommand, ReplayRejection, RejectionCodes, TypeOK
<1>9. ASSUME NEW m \in published, DeadLetterCommand(m) PROVE TypeOK'
  <2>1. /\ receipts' \subseteq Ops \X Nat \X Nullable(Requests)
        /\ completed' \subseteq Ops \X Nat
    BY <1>9, MessageParts DEF DeadLetterCommand, TypeOK
  <2>2. deadLetter' \in [Ops -> DeadLetters]
    <3>1. PICK allowed \in BOOLEAN : deadLetter' = [deadLetter EXCEPT ![m.op] =
            [status |-> "open", gen |-> m.gen, allowed |-> allowed]]
      BY <1>9 DEF DeadLetterCommand
    <3>2. [status |-> "open", gen |-> m.gen, allowed |-> allowed] \in DeadLetters
      BY MessageParts DEF DeadLetters
    <3>3. QED  BY <3>1, <3>2, MessageParts DEF TypeOK
  <2>3. facts' \subseteq Facts
    BY <1>9, MessageParts, ConsumerFactType DEF DeadLetterCommand, TypeOK, FactKinds
  <2>4. QED  BY <1>9, <2>1, <2>2, <2>3 DEF DeadLetterCommand, TypeOK
<1>10. ASSUME NEW p \in Procs, NEW o \in Ops, ClaimNext(p, o) PROVE TypeOK'
  <2>1. InstanceOf[o] \in Instances /\ WorkerIdOf[p] \in WorkerIds
    BY StoreAssumption
  <2>2. lease[InstanceOf[o]].token + 1 \in Nat
    BY <2>1 DEF TypeOK, Leases
  <2>3. lease' \in [Instances -> Leases]
    BY <1>10, <2>1, <2>2 DEF ClaimNext, TypeOK, Leases, Nullable
  <2>4. workflow' \in [Ops -> Rows]
    BY <1>10, <2>2 DEF ClaimNext, TypeOK, Rows, Unfinished
  <2>5. claim' \in [Procs -> Claims]
    BY <1>10, <2>2 DEF ClaimNext, TypeOK, Rows, Claims, Nullable
  <2>6. QED  BY <1>10, <2>3, <2>4, <2>5 DEF ClaimNext, TypeOK
<1>11. ASSUME NEW p \in Procs, NEW stage \in Stages, NEW wait \in BOOLEAN,
              NEW attempt \in StageAttempts, NEW res \in Nullable(Resources),
              NEW task \in Nullable(Tasks),
              Checkpoint(p, stage, wait, attempt, res, task)
       PROVE TypeOK'
  <2>1. Holds(p) /\ ReleaseLease(InstanceHeld(p))
    BY <1>11, FenceHolds DEF Checkpoint, InstanceHeld
  <2>2. workflow' \in [Ops -> Rows]
    BY <1>11, <2>1, StoreAssumption, ClaimedOp
    DEF Checkpoint, TypeOK, Rows, Unfinished, StageNames, Nullable
  <2>3. facts' \subseteq Facts
    BY <1>11, <2>1, ClaimedOp, WorkerFactType
    DEF Checkpoint, TypeOK, FactKinds, StageNames
  <2>4. QED
    BY <1>11, <2>1, <2>2, <2>3, ClaimedOp, ReleaseLeaseType, ConstantRecords
    DEF Checkpoint, TypeOK
<1>12. ASSUME NEW p \in Procs, NEW status \in Terminal, Complete(p, status)
       PROVE TypeOK'
  <2>1. Holds(p) /\ ReleaseLease(InstanceHeld(p))
    BY <1>12, FenceHolds DEF Complete, InstanceHeld
  <2>2. completed' \subseteq Ops \X Nat
    BY <1>12, <2>1, ClaimedOp DEF Complete, CloseReceipt, TypeOK, Rows
  <2>3. workflow' \in [Ops -> Rows]
    <3>1. PICK stage \in StageNames :
            workflow' = [workflow EXCEPT ![claim[p].op] =
              EndedRow(claim[p].op, status, stage, workflow[claim[p].op].stageAttempt)]
      BY <1>12 DEF Complete, Terminal, StageNames
    <3>2. QED  BY <2>1, <3>1, ClaimedOp DEF TypeOK, Rows, EndedRow
  <2>4. facts' \subseteq Facts
    BY <1>12, <2>1, ClaimedOp, WorkerFactType
    DEF Complete, TypeOK, FactKinds, Terminal, StageNames
  <2>5. QED
    BY <1>12, <2>1, <2>2, <2>3, <2>4, ClaimedOp, ReleaseLeaseType, ConstantRecords
    DEF Complete, TypeOK
<1>13. ASSUME NEW p \in Procs, NEW attempts \in StageAttempts,
              DeadLetterWorkflow(p, attempts)
       PROVE TypeOK'
  <2>1. Holds(p) /\ ReleaseLease(InstanceHeld(p))
    BY <1>13, FenceHolds DEF DeadLetterWorkflow, InstanceHeld
  <2>2. completed' \subseteq Ops \X Nat
    BY <1>13, <2>1, ClaimedOp DEF DeadLetterWorkflow, CloseReceipt, TypeOK, Rows
  <2>3. workflow' \in [Ops -> Rows]
    BY <1>13, <2>1, ClaimedOp, StoreAssumption
    DEF DeadLetterWorkflow, EndedRow, TypeOK, Rows, Terminal, StageNames
  <2>4. deadLetter' \in [Ops -> DeadLetters]
    BY <1>13, <2>1, ClaimedOp
    DEF DeadLetterWorkflow, ExhaustedDeadLetter, TypeOK, Rows, DeadLetters
  <2>5. facts' \subseteq Facts
    BY <1>13, <2>1, ClaimedOp, WorkerFactType
    DEF DeadLetterWorkflow, TypeOK, FactKinds, StageNames
  <2>6. QED
    BY <1>13, <2>1, <2>2, <2>3, <2>4, <2>5, ClaimedOp, ReleaseLeaseType, ConstantRecords
    DEF DeadLetterWorkflow, TypeOK
<1>14. ASSUME NEW p \in Procs, AbandonClaim(p) PROVE TypeOK'
  BY <1>14, ConstantRecords DEF AbandonClaim, TypeOK
<1>15. ASSUME NEW i \in Instances, LeaseLapses(i) PROVE TypeOK'
  BY <1>15 DEF LeaseLapses, TypeOK, Leases
<1>16. QED
  BY <1>1, <1>2, <1>4, <1>5, <1>6, <1>7, <1>8, <1>9, <1>10, <1>11, <1>12,
     <1>13, <1>14, <1>15, NextCases

(* The type invariant holds of every reachable state of the store: the     *)
(* command inbox, the workflow rows, leases, dead letters and requests.    *)
THEOREM TypeCorrect == Spec => []TypeOK
<1>1. Init => TypeOK
  BY InitTypeOK
<1>2. TypeOK /\ [Next]_vars => TypeOK'
  BY NextTypeOK
<1>3. QED  BY <1>1, <1>2, PTL DEF Spec

-----------------------------------------------------------------------------
(* The fence.                                                              *)

(* With no token issued and no claim held, the fence is in place.          *)
LEMMA InitFence == Init => Fence
  BY StoreAssumption
  DEF Init, Fence, RowTokens, ClaimTokens, TokensDistinct, ClaimsMirrorRows, Holds,
      Idle, NoRow, RowAtStart

(* A step that leaves rows, leases and claims alone cannot break it.       *)
LEMMA FenceFrame ==
  ASSUME Fence, UNCHANGED <<workflow, lease, claim>>
  PROVE  Fence'
  BY DEF Fence, RowTokens, ClaimTokens, TokensDistinct, ClaimsMirrorRows, Holds,
         InstanceHeld

(* Forgetting a claim keeps it.                                            *)
LEMMA FenceAbandon ==
  ASSUME TypeOK, Fence, NEW p \in Procs, AbandonClaim(p)
  PROVE  Fence'
<1>1. ~Holds(p)'
  BY DEF AbandonClaim, TypeOK, Holds, Idle
<1>2. \A q \in Procs : q # p => claim'[q] = claim[q]
  BY DEF AbandonClaim, TypeOK
<1>3. UNCHANGED <<workflow, lease>>
  BY DEF AbandonClaim
<1>4. QED
  BY <1>1, <1>2, <1>3
  DEF Fence, RowTokens, ClaimTokens, TokensDistinct, ClaimsMirrorRows, Holds,
      InstanceHeld

(* A lease that lapses keeps its token and owner.                          *)
LEMMA FenceLapse ==
  ASSUME TypeOK, Fence, NEW i \in Instances, LeaseLapses(i)
  PROVE  Fence'
<1>1. \A j \in Instances : /\ lease'[j].token = lease[j].token
                           /\ lease'[j].owner = lease[j].owner
  BY DEF LeaseLapses, TypeOK, Leases
<1>2. UNCHANGED <<workflow, claim>>
  BY DEF LeaseLapses
<1>3. \A o \in Ops : InstanceOf[o] \in Instances
  BY StoreAssumption
<1>4. \A p \in Procs : Holds(p) => InstanceHeld(p) \in Instances
  BY ClaimedOp
<1>5. QED
  BY <1>1, <1>2, <1>3, <1>4
  DEF Fence, RowTokens, ClaimTokens, TokensDistinct, ClaimsMirrorRows, Holds,
      InstanceHeld

(* A write that passed the fence: the writer's row keeps its token and its *)
(* generation, the other rows and the tokens stay, the claim is dropped.   *)
FencedWrite(p) ==
  /\ AssertLease(p)
  /\ ~Holds(p)'
  /\ \A q \in Procs : q # p => claim'[q] = claim[q]
  /\ \A o \in Ops : o # claim[p].op => workflow'[o] = workflow[o]
  /\ workflow'[claim[p].op].token = workflow[claim[p].op].token
  /\ workflow'[claim[p].op].gen = workflow[claim[p].op].gen
  /\ workflow'[claim[p].op].status # "none"
  /\ \A i \in Instances : /\ lease'[i].token = lease[i].token
                          /\ lease'[i].owner = lease[i].owner

(* checkpoint is a fenced write.                                           *)
LEMMA CheckpointIsFenced ==
  ASSUME TypeOK, NEW p \in Procs, NEW stage \in Stages, NEW wait \in BOOLEAN,
         NEW attempt \in StageAttempts, NEW res \in Nullable(Resources),
         NEW task \in Nullable(Tasks),
         Checkpoint(p, stage, wait, attempt, res, task)
  PROVE  FencedWrite(p) /\ workflow'[claim[p].op].status \in Unfinished
<1>1. Holds(p) /\ ReleaseLease(InstanceHeld(p))
  BY FenceHolds DEF Checkpoint, InstanceHeld
<1>2. \A i \in Instances : /\ lease'[i].token = lease[i].token
                           /\ lease'[i].owner = lease[i].owner
  BY <1>1, ClaimedOp, ReleaseLeaseType
<1>3. ~Holds(p)' /\ \A q \in Procs : q # p => claim'[q] = claim[q]
  BY DEF Checkpoint, TypeOK, Holds, Idle
<1>4. QED
  BY <1>1, <1>2, <1>3, ClaimedOp DEF Checkpoint, FencedWrite, TypeOK, Unfinished

(* complete is a fenced write.                                             *)
LEMMA CompleteIsFenced ==
  ASSUME TypeOK, NEW p \in Procs, NEW status \in Terminal, Complete(p, status)
  PROVE  FencedWrite(p) /\ workflow'[claim[p].op].status = status
<1>1. Holds(p) /\ ReleaseLease(InstanceHeld(p))
  BY FenceHolds DEF Complete, InstanceHeld
<1>2. \A i \in Instances : /\ lease'[i].token = lease[i].token
                           /\ lease'[i].owner = lease[i].owner
  BY <1>1, ClaimedOp, ReleaseLeaseType
<1>3. ~Holds(p)' /\ \A q \in Procs : q # p => claim'[q] = claim[q]
  BY DEF Complete, TypeOK, Holds, Idle
<1>4. QED
  BY <1>1, <1>2, <1>3, ClaimedOp DEF Complete, EndedRow, FencedWrite, TypeOK, Terminal

(* deadLetterWorkflow is a fenced write.                                   *)
LEMMA DeadLetterIsFenced ==
  ASSUME TypeOK, NEW p \in Procs, NEW attempts \in StageAttempts,
         DeadLetterWorkflow(p, attempts)
  PROVE  FencedWrite(p) /\ workflow'[claim[p].op].status = "failed"
<1>1. Holds(p) /\ ReleaseLease(InstanceHeld(p))
  BY FenceHolds DEF DeadLetterWorkflow, InstanceHeld
<1>2. \A i \in Instances : /\ lease'[i].token = lease[i].token
                           /\ lease'[i].owner = lease[i].owner
  BY <1>1, ClaimedOp, ReleaseLeaseType
<1>3. ~Holds(p)' /\ \A q \in Procs : q # p => claim'[q] = claim[q]
  BY DEF DeadLetterWorkflow, TypeOK, Holds, Idle
<1>4. QED
  BY <1>1, <1>2, <1>3, ClaimedOp DEF DeadLetterWorkflow, EndedRow, FencedWrite, TypeOK

(* A write that passed the fence keeps it: any other claim on the row has  *)
(* another token, so the row it no longer mirrors is not one it may write. *)
LEMMA FenceWrite ==
  ASSUME TypeOK, Fence, NEW p \in Procs, FencedWrite(p)
  PROVE  Fence'
<1> DEFINE o == claim[p].op
<1>0. Holds(p) /\ o \in Ops /\ claim[p].token = workflow[o].token
  BY FenceHolds, ClaimedOp DEF FencedWrite, AssertLease
<1>1. \A q \in Ops : InstanceOf[q] \in Instances
  BY StoreAssumption
<1>2. \A q \in Procs : Holds(q)' => q # p /\ Holds(q) /\ claim'[q] = claim[q]
  BY DEF FencedWrite, Holds
<1>3. \A q \in Procs : Holds(q) => claim[q].op \in Ops /\ InstanceHeld(q) \in Instances
  BY ClaimedOp
<1>4. RowTokens'
  BY <1>0, <1>1 DEF FencedWrite, Fence, RowTokens
<1>5. ClaimTokens'
  BY <1>2, <1>3 DEF FencedWrite, Fence, ClaimTokens, Holds, InstanceHeld
<1>6. TokensDistinct'
  BY <1>2 DEF Fence, TokensDistinct, Holds, InstanceHeld
<1>7. ClaimsMirrorRows'
  <2>1. SUFFICES ASSUME NEW q \in Procs, Holds(q)',
                        claim'[q].token = workflow'[claim'[q].op].token
                 PROVE  claim[q].op # o
    BY <1>2, <1>3 DEF FencedWrite, Fence, ClaimsMirrorRows, Holds
  <2>2. claim[q].op = o => claim[q].token # claim[p].token
    BY <1>0, <1>2, <2>1 DEF Fence, TokensDistinct, InstanceHeld
  <2>3. QED  BY <1>0, <1>2, <2>1, <2>2 DEF FencedWrite
<1>8. QED  BY <1>4, <1>5, <1>6, <1>7 DEF Fence

(* A new claim takes a token above every token of the instance.            *)
LEMMA FenceClaim ==
  ASSUME TypeOK, Fence, NEW p \in Procs, NEW o \in Ops, ClaimNext(p, o)
  PROVE  Fence'
<1> DEFINE i == InstanceOf[o]
           t == lease[i].token + 1
<1>0. i \in Instances /\ \A q \in Ops : InstanceOf[q] \in Instances
  BY StoreAssumption
<1>1. lease[i].token \in Nat /\ \A q \in Ops : workflow[q].token \in Nat
  BY <1>0 DEF TypeOK, Leases, Rows
<1>2. /\ lease'[i].token = t /\ lease'[i].owner = WorkerIdOf[p]
      /\ \A j \in Instances : j # i => lease'[j] = lease[j]
  BY <1>0 DEF ClaimNext, TypeOK
<1>3. /\ claim'[p].op = o /\ claim'[p].token = t
      /\ claim'[p].gen = workflow[o].gen /\ claim'[p].stage = workflow[o].stage
      /\ claim'[p].stageAttempt = workflow[o].stageAttempt
      /\ claim'[p].resource = workflow[o].resource
      /\ claim'[p].task = workflow[o].task
      /\ \A q \in Procs : q # p => claim'[q] = claim[q]
  BY DEF ClaimNext, TypeOK
<1>4. /\ workflow'[o].status = "running" /\ workflow'[o].token = t
      /\ workflow'[o].gen = workflow[o].gen /\ workflow'[o].stage = workflow[o].stage
      /\ workflow'[o].stageAttempt = workflow[o].stageAttempt
      /\ workflow'[o].resource = workflow[o].resource
      /\ workflow'[o].task = workflow[o].task
      /\ \A q \in Ops : q # o => workflow'[q] = workflow[q]
  BY DEF ClaimNext, TypeOK, Rows
<1>5. \A q \in Procs : Holds(q) => /\ claim[q].op \in Ops
                                   /\ claim[q].token \in Nat
                                   /\ InstanceHeld(q) \in Instances
  BY ClaimedOp
<1>6. RowTokens'
  BY <1>0, <1>1, <1>2, <1>4 DEF Fence, RowTokens
<1>7. ClaimTokens'
  <2>1. ASSUME NEW q \in Procs, Holds(q)', q # p
        PROVE  /\ 1 <= claim'[q].token
               /\ claim'[q].token <= lease'[InstanceHeld(q)'].token
               /\ claim'[q].token = lease'[InstanceHeld(q)'].token =>
                    lease'[InstanceHeld(q)'].owner = WorkerIdOf[q]
    <3>1. Holds(q) /\ claim'[q] = claim[q] /\ InstanceHeld(q)' = InstanceHeld(q)
      BY <1>3, <2>1 DEF Holds, InstanceHeld
    <3>2. CASE InstanceHeld(q) = i
      BY <1>1, <1>2, <1>5, <3>1, <3>2 DEF Fence, ClaimTokens
    <3>3. CASE InstanceHeld(q) # i
      BY <1>2, <1>5, <3>1, <3>3 DEF Fence, ClaimTokens
    <3>4. QED  BY <3>2, <3>3
  <2>2. /\ 1 <= claim'[p].token
        /\ claim'[p].token <= lease'[InstanceHeld(p)'].token
        /\ lease'[InstanceHeld(p)'].owner = WorkerIdOf[p]
    BY <1>1, <1>2, <1>3 DEF InstanceHeld
  <2>3. QED  BY <2>1, <2>2 DEF ClaimTokens
<1>8. TokensDistinct'
  <2>1. ASSUME NEW q \in Procs, Holds(q)', q # p, InstanceHeld(q)' = i
        PROVE  claim'[q].token # t
    BY <1>1, <1>3, <1>5, <2>1 DEF Fence, ClaimTokens, Holds, InstanceHeld
  <2>2. InstanceHeld(p)' = i /\ claim'[p].token = t
    BY <1>3 DEF InstanceHeld
  <2>3. \A q \in Procs : q # p => /\ Holds(q)' <=> Holds(q)
                                  /\ InstanceHeld(q)' = InstanceHeld(q)
                                  /\ claim'[q].token = claim[q].token
    BY <1>3 DEF Holds, InstanceHeld
  <2>4. SUFFICES ASSUME NEW q \in Procs, NEW r \in Procs, q # r, Holds(q)', Holds(r)',
                        InstanceHeld(q)' = InstanceHeld(r)'
                 PROVE  claim'[q].token # claim'[r].token
    BY DEF TokensDistinct
  <2>5. CASE q = p  BY <2>1, <2>2, <2>4, <2>5
  <2>6. CASE r = p  BY <2>1, <2>2, <2>4, <2>6
  <2>7. CASE q # p /\ r # p
    BY <2>3, <2>4, <2>7 DEF Fence, TokensDistinct
  <2>8. QED  BY <2>5, <2>6, <2>7
<1>9. ClaimsMirrorRows'
  <2>1. ASSUME NEW q \in Procs, Holds(q)', q # p,
               claim'[q].token = workflow'[claim'[q].op].token
        PROVE  claim[q].op # o
    BY <1>0, <1>1, <1>3, <1>4, <1>5, <2>1
    DEF Fence, ClaimTokens, Holds, InstanceHeld
  <2>2. QED
    BY <1>3, <1>4, <1>5, <2>1 DEF Fence, ClaimsMirrorRows, Holds
<1>10. QED  BY <1>6, <1>7, <1>8, <1>9 DEF Fence

(* A row that no live claim mirrors may be written by the consumer, as     *)
(* long as its token stays: an absent row, or a failed one to reopen.      *)
LEMMA FenceAdmit ==
  ASSUME TypeOK, Fence, NEW o \in Ops, workflow[o].status \in {"none", "failed"},
         workflow'[o].token = workflow[o].token, workflow'[o].status # "none",
         \A q \in Ops : q # o => workflow'[q] = workflow[q],
         UNCHANGED <<lease, claim>>
  PROVE  Fence'
<1>1. RowTokens'
  BY DEF Fence, RowTokens
<1>2. ClaimTokens' /\ TokensDistinct'
  BY DEF Fence, ClaimTokens, TokensDistinct, Holds, InstanceHeld
<1>3. ClaimsMirrorRows'
  <2>1. ASSUME NEW p \in Procs, Holds(p), claim[p].op = o
        PROVE  claim[p].token # workflow[o].token
    BY <2>1 DEF Fence, ClaimsMirrorRows
  <2>2. QED
    BY <2>1, ClaimedOp DEF Fence, ClaimsMirrorRows, Holds
<1>4. QED  BY <1>1, <1>2, <1>3 DEF Fence

(* Every transaction keeps the fence.                                      *)
LEMMA NextFence ==
  ASSUME TypeOK, Fence, [Next]_vars
  PROVE  Fence'
<1>1. CASE UNCHANGED vars
  BY <1>1, FenceFrame DEF vars
<1>2. ASSUME NEW o \in Ops, PublishCommand(o) PROVE Fence'
  BY <1>2, FenceFrame DEF PublishCommand
<1>4. ASSUME NEW r \in Requests, NEW o \in Ops, PublishReplayRequest(r, o) PROVE Fence'
  BY <1>4, FenceFrame DEF PublishReplayRequest
<1>5. ASSUME NEW m \in published, AdmitOriginalDelivery(m) PROVE Fence'
  <2>1. CASE UNCHANGED workflow
    BY <1>5, <2>1, FenceFrame DEF AdmitOriginalDelivery
  <2>2. ASSUME NEW r \in Nullable(Resources), ~AlreadyAdmitted(m.op),
               workflow' = [workflow EXCEPT ![m.op] = RowAtStart("running", 0, 0, r)]
        PROVE  Fence'
    <3>1. m.op \in Ops /\ workflow[m.op].status = "none"
      BY <2>2, MessageParts DEF AlreadyAdmitted
    <3>2. /\ workflow'[m.op].token = workflow[m.op].token
          /\ workflow'[m.op].status # "none"
          /\ \A q \in Ops : q # m.op => workflow'[q] = workflow[q]
      BY <2>2, <3>1 DEF RowAtStart, TypeOK, Fence, RowTokens
    <3>3. UNCHANGED <<lease, claim>>
      BY <1>5 DEF AdmitOriginalDelivery
    <3>4. QED  BY <3>1, <3>2, <3>3, FenceAdmit
  <2>3. QED  BY <1>5, <2>1, <2>2 DEF AdmitOriginalDelivery
<1>6. ASSUME NEW m \in published, AdmitReplayRequest(m) PROVE Fence'
  BY <1>6, FenceFrame DEF AdmitReplayRequest
<1>7. ASSUME NEW m \in published, AdmitAuthorizedReplayCommand(m) PROVE Fence'
  <2>1. m.op \in Ops /\ workflow[m.op].status \in {"none", "failed"}
    BY <1>7, MessageParts DEF AdmitAuthorizedReplayCommand, MovedOn
  <2>2. /\ workflow'[m.op].token = workflow[m.op].token
        /\ workflow'[m.op].status # "none"
        /\ \A q \in Ops : q # m.op => workflow'[q] = workflow[q]
    BY <1>7, <2>1 DEF AdmitAuthorizedReplayCommand, Reopened, RowAtStart, TypeOK
  <2>3. UNCHANGED <<lease, claim>>
    BY <1>7 DEF AdmitAuthorizedReplayCommand
  <2>4. QED  BY <2>1, <2>2, <2>3, FenceAdmit
<1>8. ASSUME NEW m \in published, RejectReplayCommand(m) PROVE Fence'
  BY <1>8, FenceFrame DEF RejectReplayCommand
<1>9. ASSUME NEW m \in published, DeadLetterCommand(m) PROVE Fence'
  BY <1>9, FenceFrame DEF DeadLetterCommand
<1>10. ASSUME NEW p \in Procs, NEW o \in Ops, ClaimNext(p, o) PROVE Fence'
  BY <1>10, FenceClaim
<1>11. ASSUME NEW p \in Procs, NEW stage \in Stages, NEW wait \in BOOLEAN,
              NEW attempt \in StageAttempts, NEW res \in Nullable(Resources),
              NEW task \in Nullable(Tasks),
              Checkpoint(p, stage, wait, attempt, res, task)
       PROVE Fence'
  BY <1>11, CheckpointIsFenced, FenceWrite
<1>12. ASSUME NEW p \in Procs, NEW status \in Terminal, Complete(p, status)
       PROVE Fence'
  BY <1>12, CompleteIsFenced, FenceWrite
<1>13. ASSUME NEW p \in Procs, NEW attempts \in StageAttempts,
              DeadLetterWorkflow(p, attempts)
       PROVE Fence'
  BY <1>13, DeadLetterIsFenced, FenceWrite
<1>14. ASSUME NEW p \in Procs, AbandonClaim(p) PROVE Fence'
  BY <1>14, FenceAbandon
<1>15. ASSUME NEW i \in Instances, LeaseLapses(i) PROVE Fence'
  BY <1>15, FenceLapse
<1>16. QED
  BY <1>1, <1>2, <1>4, <1>5, <1>6, <1>7, <1>8, <1>9, <1>10, <1>11, <1>12,
     <1>13, <1>14, <1>15, NextCases

(* SAFE-010 for any number of workers, shared WORKER_IDs and disagreeing   *)
(* clocks: of the claims held on an instance at most one would pass        *)
(* assertLease.                                                            *)
THEOREM LeaseHolderIsUnique == Spec => []UniqueLeaseHolder
<1>1. Init => TypeOK /\ Fence
  BY InitTypeOK, InitFence
<1>2. TypeOK /\ Fence /\ [Next]_vars => (TypeOK /\ Fence)'
  BY NextTypeOK, NextFence
<1>3. TypeOK /\ Fence => UniqueLeaseHolder
  BY DEF Fence, TokensDistinct, UniqueLeaseHolder, AssertLease, Holds, InstanceHeld
<1>4. QED  BY <1>1, <1>2, <1>3, PTL DEF Spec

(* A write that assertLease lets through was decided on the row as it is:  *)
(* nothing the worker read when it claimed has changed since.              *)
THEOREM ClaimIsFresh == Spec => []FreshClaim
<1>1. Init => TypeOK /\ Fence
  BY InitTypeOK, InitFence
<1>2. TypeOK /\ Fence /\ [Next]_vars => (TypeOK /\ Fence)'
  BY NextTypeOK, NextFence
<1>3. TypeOK /\ Fence => FreshClaim
  BY DEF Fence, ClaimsMirrorRows, FreshClaim, AssertLease, Holds
<1>4. QED  BY <1>1, <1>2, <1>3, PTL DEF Spec

-----------------------------------------------------------------------------
(* The ledger of receipts and outcomes.                                    *)

(* The empty inbox and outbox agree with the empty table.                  *)
LEMMA InitLedger == Init => Ledger
  BY DEF Init, Ledger, CompletedHaveReceipts, ReceiptCoversWorkflow,
         OutcomesAreCompleted, OneOutcomePerGeneration, NoRow, RowAtStart

(* Receipts are never deleted.                                             *)
LEMMA ReceiptsGrow ==
  ASSUME receipts \subseteq receipts', NEW o, NEW g, HasReceipt(o, g)
  PROVE  HasReceipt(o, g)'
  BY DEF HasReceipt

(* A step that ends no generation keeps the ledger when it closes only     *)
(* receipts that exist and keeps every row covered.                        *)
LEMMA LedgerKept ==
  ASSUME Ledger, receipts \subseteq receipts', completed \subseteq completed',
         \A x \in completed' : x \in completed \/ HasReceipt(x[1], x[2])',
         \A f \in facts' : f \in facts \/ f.kind \notin Terminal,
         ReceiptCoversWorkflow'
  PROVE  Ledger'
<1>1. CompletedHaveReceipts'
  BY ReceiptsGrow DEF Ledger, CompletedHaveReceipts
<1>2. OutcomesAreCompleted'
  BY DEF Ledger, OutcomesAreCompleted
<1>3. OneOutcomePerGeneration'
  BY DEF Ledger, OneOutcomePerGeneration
<1>4. QED  BY <1>1, <1>2, <1>3 DEF Ledger

(* A step that touches no row, receipt or outcome keeps it.                *)
LEMMA LedgerFrame ==
  ASSUME Ledger, UNCHANGED <<receipts, completed, workflow>>,
         \A f \in facts' : f \in facts \/ f.kind \notin Terminal
  PROVE  Ledger'
<1>1. ReceiptCoversWorkflow'
  BY DEF Ledger, ReceiptCoversWorkflow, HasReceipt
<1>2. QED  BY <1>1, LedgerKept

(* The consumer's facts are not outcomes.                                  *)
LEMMA ConsumerFactsAreNotOutcomes ==
  ASSUME NEW o, NEW g
  PROVE  /\ ConsumerFact("replay_rejected", o, g).kind \notin Terminal
         /\ ConsumerFact("replay_completed", o, g).kind \notin Terminal
         /\ ConsumerFact("dead_lettered", o, g).kind \notin Terminal
  BY DEF ConsumerFact, Terminal

(* Ending a generation: the worker's row is running, so its generation is  *)
(* open and no outcome of it has been written.                             *)
LEMMA LedgerEnd ==
  ASSUME TypeOK, Fence, Ledger, NEW p \in Procs, FencedWrite(p),
         NEW status \in Terminal, NEW stage, NEW S,
         workflow'[claim[p].op].status = status,
         CloseReceipt(claim[p].op), UNCHANGED receipts,
         \A f \in S : f.kind \notin Terminal,
         facts' = facts \cup S \cup {WorkerFact(p, status, stage)}
  PROVE  Ledger'
<1> DEFINE o == claim[p].op
           g == workflow[claim[p].op].gen
           n == WorkerFact(p, status, stage)
<1>1. o \in Ops /\ g \in Nat /\ Holds(p)
  BY FenceHolds, ClaimedOp DEF FencedWrite, TypeOK, Rows
<1>2. workflow[o].status = "running" /\ claim[p].gen = g
  BY <1>1 DEF FencedWrite, AssertLease, Fence, ClaimsMirrorRows
<1>3. <<o, g>> \notin completed
  BY <1>1, <1>2 DEF Ledger, ReceiptCoversWorkflow, Terminal
<1>4. completed' = completed \cup {<<o, g>>} /\ HasReceipt(o, g)
  BY <1>1, <1>2 DEF CloseReceipt, Ledger, ReceiptCoversWorkflow
<1>5. CompletedHaveReceipts'
  BY <1>4 DEF Ledger, CompletedHaveReceipts, HasReceipt
<1>6. ReceiptCoversWorkflow'
  <2>1. SUFFICES ASSUME NEW q \in Ops, workflow'[q].status # "none"
                 PROVE  /\ HasReceipt(q, workflow'[q].gen)
                        /\ <<q, workflow'[q].gen>> \in completed' <=>
                             workflow'[q].status \in Terminal
    BY DEF ReceiptCoversWorkflow, HasReceipt
  <2>2. CASE q = o
    BY <1>1, <1>4, <2>2 DEF FencedWrite
  <2>3. CASE q # o
    BY <1>1, <1>4, <2>1, <2>3 DEF FencedWrite, Ledger, ReceiptCoversWorkflow
  <2>4. QED  BY <2>2, <2>3
<1>7. n.kind = status /\ n.op = o /\ n.gen = g
  BY <1>2 DEF WorkerFact
<1>8. OutcomesAreCompleted'
  BY <1>4, <1>7 DEF Ledger, OutcomesAreCompleted
<1>9. \A f \in facts : f.kind \in Terminal => ~(f.op = o /\ f.gen = g)
  BY <1>3 DEF Ledger, OutcomesAreCompleted
<1>10. OneOutcomePerGeneration'
  BY <1>7, <1>9 DEF Ledger, OneOutcomePerGeneration
<1>11. QED  BY <1>5, <1>6, <1>8, <1>10 DEF Ledger

(* Every transaction keeps receipts, rows and outcomes in agreement.       *)
LEMMA NextLedger ==
  ASSUME TypeOK, Fence, Ledger, [Next]_vars
  PROVE  Ledger'
<1>1. CASE UNCHANGED vars
  BY <1>1, LedgerFrame DEF vars
<1>2. ASSUME NEW o \in Ops, PublishCommand(o) PROVE Ledger'
  BY <1>2, LedgerFrame DEF PublishCommand
<1>4. ASSUME NEW r \in Requests, NEW o \in Ops, PublishReplayRequest(r, o) PROVE Ledger'
  BY <1>4, LedgerFrame DEF PublishReplayRequest
<1>5. ASSUME NEW m \in published, AdmitOriginalDelivery(m) PROVE Ledger'
  <2>0. /\ m.op \in Ops /\ m.gen = 0
        /\ m.request \in Nullable(Requests)
        /\ UNCHANGED facts
    BY <1>5, MessageParts DEF AdmitOriginalDelivery
  <2>1. receipts \subseteq receipts' /\ HasReceipt(m.op, 0)'
    BY <1>5, <2>0 DEF AdmitOriginalDelivery, InsertReceipt, HasReceipt
  <2>2. /\ completed \subseteq completed'
        /\ \A x \in completed' : x \in completed \/ x = <<m.op, 0>>
        /\ <<m.op, 0>> \in completed' /\ <<m.op, 0>> \notin completed =>
             workflow[m.op].status # "none" /\ ~HasReceipt(m.op, 0)
    BY <1>5 DEF AdmitOriginalDelivery
  <2>3. \A q \in Ops : q # m.op => workflow'[q] = workflow[q]
    BY <1>5, <2>0 DEF AdmitOriginalDelivery, TypeOK
  <2>4. ReceiptCoversWorkflow'
    <3>1. SUFFICES ASSUME NEW q \in Ops, NEW w, w = workflow'[q], w.status # "none"
                   PROVE  /\ HasReceipt(q, w.gen)'
                          /\ <<q, w.gen>> \in completed' <=> w.status \in Terminal
      BY DEF ReceiptCoversWorkflow, HasReceipt
    <3>2. CASE w = workflow[q]
      <4>1. HasReceipt(q, w.gen)
        BY <3>1, <3>2 DEF Ledger, ReceiptCoversWorkflow
      <4>2. <<q, w.gen>> \in completed' <=> <<q, w.gen>> \in completed
        BY <2>2, <4>1
      <4>3. QED
        BY <2>1, <3>1, <3>2, <4>1, <4>2, ReceiptsGrow DEF Ledger, ReceiptCoversWorkflow
    <3>3. CASE w # workflow[q]
      <4>1. q = m.op /\ ~AlreadyAdmitted(m.op)
        BY <1>5, <2>3, <3>1, <3>3 DEF AdmitOriginalDelivery
      <4>2. workflow[q].status = "none" /\ ~HasReceipt(q, 0)
        BY <4>1 DEF AlreadyAdmitted
      <4>3. w.gen = 0 /\ w.status = "running"
        <5>1. PICK r \in Nullable(Resources) :
                workflow' = [workflow EXCEPT ![q] = RowAtStart("running", 0, 0, r)]
          BY <1>5, <4>1 DEF AdmitOriginalDelivery
        <5>2. workflow'[q] = RowAtStart("running", 0, 0, r)
          BY <5>1 DEF TypeOK
        <5>3. QED  BY <3>1, <5>2 DEF RowAtStart
      <4>4. <<q, 0>> \notin completed
        BY <4>2 DEF Ledger, CompletedHaveReceipts
      <4>5. QED  BY <2>1, <2>2, <4>1, <4>2, <4>3, <4>4 DEF Terminal
    <3>4. QED  BY <3>2, <3>3
  <2>5. QED  BY <2>0, <2>1, <2>2, <2>4, LedgerKept
<1>6. ASSUME NEW m \in published, AdmitReplayRequest(m) PROVE Ledger'
  <2>1. UNCHANGED <<receipts, completed, workflow>>
    BY <1>6 DEF AdmitReplayRequest
  <2>2. \A f \in facts' : f \in facts \/ f.kind \notin Terminal
    BY <1>6, ConsumerFactsAreNotOutcomes DEF AdmitReplayRequest
  <2>3. QED  BY <2>1, <2>2, LedgerFrame
<1>7. ASSUME NEW m \in published, AdmitAuthorizedReplayCommand(m) PROVE Ledger'
  <2>0. /\ m.op \in Ops /\ m.gen \in Nat /\ m.request \in Nullable(Requests)
        /\ UNCHANGED completed
        /\ receipts' = receipts \cup {<<m.op, m.gen, m.request>>}
        /\ ~HasReceipt(m.op, m.gen)
    BY <1>7, MessageParts DEF AdmitAuthorizedReplayCommand
  <2>1. /\ workflow'[m.op].gen = m.gen /\ workflow'[m.op].status = "running"
        /\ \A q \in Ops : q # m.op => workflow'[q] = workflow[q]
    BY <1>7, <2>0 DEF AdmitAuthorizedReplayCommand, Reopened, RowAtStart, TypeOK
  <2>2. HasReceipt(m.op, m.gen)' /\ <<m.op, m.gen>> \notin completed
    BY <2>0 DEF HasReceipt, Ledger, CompletedHaveReceipts
  <2>3. ReceiptCoversWorkflow'
    <3>1. SUFFICES ASSUME NEW q \in Ops, NEW w, w = workflow'[q], w.status # "none"
                   PROVE  /\ HasReceipt(q, w.gen)'
                          /\ <<q, w.gen>> \in completed' <=> w.status \in Terminal
      BY DEF ReceiptCoversWorkflow, HasReceipt
    <3>2. CASE q = m.op
      BY <2>0, <2>1, <2>2, <3>1, <3>2 DEF Terminal
    <3>3. CASE q # m.op
      BY <2>0, <2>1, <3>1, <3>3, ReceiptsGrow DEF Ledger, ReceiptCoversWorkflow
    <3>4. QED  BY <3>2, <3>3
  <2>4. \A f \in facts' : f \in facts \/ f.kind \notin Terminal
    BY <1>7, ConsumerFactsAreNotOutcomes DEF AdmitAuthorizedReplayCommand
  <2>5. QED  BY <2>0, <2>3, <2>4, LedgerKept
<1>8. ASSUME NEW m \in published, RejectReplayCommand(m) PROVE Ledger'
  BY <1>8, LedgerFrame DEF RejectReplayCommand
<1>9. ASSUME NEW m \in published, DeadLetterCommand(m) PROVE Ledger'
  <2>0. /\ m.op \in Ops /\ m.gen \in Nat /\ m.request \in Nullable(Requests)
        /\ receipts' = receipts \cup {<<m.op, m.gen, m.request>>}
        /\ completed' = completed \cup {<<m.op, m.gen>>}
        /\ ~HasReceipt(m.op, m.gen)
        /\ UNCHANGED workflow
    BY <1>9, MessageParts DEF DeadLetterCommand, NotYetDelivered
  <2>1. HasReceipt(m.op, m.gen)'
    BY <2>0 DEF HasReceipt
  <2>2. ReceiptCoversWorkflow'
    <3>1. SUFFICES ASSUME NEW q \in Ops, NEW w, w = workflow[q], w.status # "none"
                   PROVE  /\ HasReceipt(q, w.gen)'
                          /\ <<q, w.gen>> \in completed' <=> w.status \in Terminal
      BY <2>0 DEF ReceiptCoversWorkflow, HasReceipt
    <3>2. HasReceipt(q, w.gen)
      BY <3>1 DEF Ledger, ReceiptCoversWorkflow
    <3>3. <<q, w.gen>> # <<m.op, m.gen>>
      BY <2>0, <3>2
    <3>4. QED
      BY <2>0, <3>1, <3>2, <3>3, ReceiptsGrow DEF Ledger, ReceiptCoversWorkflow
  <2>3. \A f \in facts' : f \in facts \/ f.kind \notin Terminal
    BY <1>9, ConsumerFactsAreNotOutcomes DEF DeadLetterCommand
  <2>4. QED  BY <2>0, <2>1, <2>2, <2>3, LedgerKept
<1>10. ASSUME NEW p \in Procs, NEW o \in Ops, ClaimNext(p, o) PROVE Ledger'
  <2>1. /\ workflow'[o].status = "running" /\ workflow'[o].gen = workflow[o].gen
        /\ workflow[o].status \in Unfinished
        /\ \A q \in Ops : q # o => workflow'[q] = workflow[q]
        /\ UNCHANGED <<receipts, completed, facts>>
    BY <1>10 DEF ClaimNext, TypeOK, Rows
  <2>2. ReceiptCoversWorkflow'
    BY <2>1 DEF Ledger, ReceiptCoversWorkflow, HasReceipt, Unfinished, Terminal
  <2>3. QED  BY <2>1, <2>2, LedgerKept
<1>11. ASSUME NEW p \in Procs, NEW stage \in Stages, NEW wait \in BOOLEAN,
              NEW attempt \in StageAttempts, NEW res \in Nullable(Resources),
              NEW task \in Nullable(Tasks),
              Checkpoint(p, stage, wait, attempt, res, task)
       PROVE Ledger'
  <2> DEFINE o == claim[p].op
  <2>1. /\ FencedWrite(p) /\ workflow'[o].status \in Unfinished
        /\ UNCHANGED <<receipts, completed>>
        /\ facts' = facts \cup {WorkerFact(p, "progress", stage)}
    BY <1>11, CheckpointIsFenced DEF Checkpoint
  <2>2. o \in Ops /\ workflow[o].status = "running"
    BY <2>1, FenceHolds, ClaimedOp DEF FencedWrite, AssertLease, Fence, ClaimsMirrorRows
  <2>3. ReceiptCoversWorkflow'
    BY <2>1, <2>2
    DEF FencedWrite, Ledger, ReceiptCoversWorkflow, HasReceipt, Unfinished, Terminal
  <2>4. WorkerFact(p, "progress", stage).kind \notin Terminal
    BY DEF WorkerFact, Terminal
  <2>5. QED  BY <2>1, <2>3, <2>4, LedgerKept
<1>12. ASSUME NEW p \in Procs, NEW status \in Terminal, Complete(p, status)
       PROVE Ledger'
  <2>1. /\ FencedWrite(p) /\ workflow'[claim[p].op].status = status
        /\ CloseReceipt(claim[p].op) /\ UNCHANGED receipts
    BY <1>12, CompleteIsFenced DEF Complete
  <2> DEFINE S == {f \in facts : FALSE}
             stage == IF status = "succeeded" THEN "completed" ELSE status
  <2>2. facts' = facts \cup S \cup {WorkerFact(p, status, stage)}
    BY <1>12 DEF Complete
  <2>3. \A f \in S : f.kind \notin Terminal
    OBVIOUS
  <2> HIDE DEF S, stage
  <2>4. QED  BY <2>1, <2>2, <2>3, LedgerEnd
<1>13. ASSUME NEW p \in Procs, NEW attempts \in StageAttempts,
              DeadLetterWorkflow(p, attempts)
       PROVE Ledger'
  <2> DEFINE S == {WorkerFact(p, "dead_lettered", "failed")}
  <2>1. /\ FencedWrite(p) /\ workflow'[claim[p].op].status = "failed"
        /\ CloseReceipt(claim[p].op) /\ UNCHANGED receipts
        /\ facts' = facts \cup S \cup {WorkerFact(p, "failed", "failed")}
    BY <1>13, DeadLetterIsFenced DEF DeadLetterWorkflow
  <2>2. \A f \in S : f.kind \notin Terminal
    BY DEF WorkerFact, Terminal
  <2>3. "failed" \in Terminal
    BY DEF Terminal
  <2>4. QED  BY <2>1, <2>2, <2>3, LedgerEnd
<1>14. ASSUME NEW p \in Procs, AbandonClaim(p) PROVE Ledger'
  BY <1>14, LedgerFrame DEF AbandonClaim
<1>15. ASSUME NEW i \in Instances, LeaseLapses(i) PROVE Ledger'
  BY <1>15, LedgerFrame DEF LeaseLapses
<1>16. QED
  BY <1>1, <1>2, <1>4, <1>5, <1>6, <1>7, <1>8, <1>9, <1>10, <1>11, <1>12,
     <1>13, <1>14, <1>15, NextCases

(* The inductive invariant: types, the fence over claims, rows and leases, *)
(* and the agreement of receipts, rows and outcomes.                       *)
THEOREM Inductive == Spec => []IInv
<1>1. Init => IInv
  BY InitTypeOK, InitFence, InitLedger DEF IInv
<1>2. IInv /\ [Next]_vars => IInv'
  BY NextTypeOK, NextFence, NextLedger DEF IInv
<1>3. QED  BY <1>1, <1>2, PTL DEF Spec

(* The update with which complete and deadLetterWorkflow close a receipt   *)
(* never misses it, and the receipt is open until then, over any history   *)
(* of replays.                                                             *)
THEOREM ReceiptsCoverWorkflows == Spec => []ReceiptCoversWorkflow
<1>1. IInv => ReceiptCoversWorkflow
  BY DEF IInv, Ledger
<1>2. QED  BY <1>1, Inductive, PTL

(* No generation of an operation gets two outcomes, however many workers   *)
(* believe they own it.                                                    *)
THEOREM OutcomeIsUnique == Spec => []OneOutcomePerGeneration
<1>1. IInv => OneOutcomePerGeneration
  BY DEF IInv, Ledger
<1>2. QED  BY <1>1, Inductive, PTL

(* A terminal row changes only by an authorised replay of a failed one, to *)
(* the next generation.                                                    *)
THEOREM TerminalRowsAreFinal == Spec => TerminalIsFinal
<1> DEFINE Final ==
      \A o \in Ops :
        (workflow[o].status \in Terminal /\ workflow'[o] # workflow[o]) =>
          /\ workflow[o].status = "failed"
          /\ workflow'[o].status = "running"
          /\ workflow'[o].gen = workflow[o].gen + 1
          /\ \E r \in Requests :
               request[r] = [status |-> "authorized", op |-> o,
                             gen |-> workflow'[o].gen]
<1>1. IInv /\ [Next]_vars => [Final]_vars
  <2> SUFFICES ASSUME IInv, Next PROVE Final
    OBVIOUS
  <2>0. TypeOK /\ Fence
    BY DEF IInv
  <2>1. CASE UNCHANGED workflow
    BY <2>1
  <2>2. ASSUME NEW m \in published, AdmitOriginalDelivery(m) PROVE Final
    <3>1. m.op \in Ops
      BY <2>0, MessageParts
    <3>2. \A q \in Ops : workflow'[q] # workflow[q] => workflow[q].status = "none"
      BY <2>0, <2>2, <3>1 DEF AdmitOriginalDelivery, AlreadyAdmitted, TypeOK
    <3>3. QED  BY <3>2 DEF Terminal
  <2>3. ASSUME NEW m \in published, AdmitAuthorizedReplayCommand(m) PROVE Final
    <3>1. m.op \in Ops /\ m.request \in Requests
      BY <2>0, <2>3, MessageParts
      DEF AdmitAuthorizedReplayCommand, Authorized, Nullable
    <3>2. /\ workflow'[m.op].status = "running" /\ workflow'[m.op].gen = m.gen
          /\ \A q \in Ops : q # m.op => workflow'[q] = workflow[q]
      BY <2>0, <2>3, <3>1
      DEF AdmitAuthorizedReplayCommand, Reopened, RowAtStart, TypeOK
    <3>3. request[m.request] = [status |-> "authorized", op |-> m.op, gen |-> m.gen]
      BY <2>3 DEF AdmitAuthorizedReplayCommand, Authorized
    <3>4. workflow[m.op].status \in Terminal =>
            workflow[m.op].status = "failed" /\ m.gen = workflow[m.op].gen + 1
      BY <2>3 DEF AdmitAuthorizedReplayCommand, MovedOn, Terminal
    <3>5. QED  BY <3>1, <3>2, <3>3, <3>4
  <2>4. ASSUME NEW p \in Procs, NEW o \in Ops, ClaimNext(p, o) PROVE Final
    <3>1. /\ workflow[o].status \notin Terminal
          /\ \A q \in Ops : q # o => workflow'[q] = workflow[q]
      BY <2>0, <2>4 DEF ClaimNext, TypeOK, Unfinished, Terminal
    <3>2. QED  BY <3>1
  <2>5. ASSUME NEW p \in Procs, FencedWrite(p) PROVE Final
    <3>1. workflow[claim[p].op].status = "running"
      BY <2>0, <2>5 DEF FencedWrite, AssertLease, Fence, ClaimsMirrorRows, Holds
    <3>2. \A q \in Ops : q # claim[p].op => workflow'[q] = workflow[q]
      BY <2>5 DEF FencedWrite
    <3>3. QED  BY <3>1, <3>2 DEF Terminal
  <2>6. ASSUME NEW o \in Ops, PublishCommand(o) PROVE Final
    BY <2>1, <2>6 DEF PublishCommand
  <2>7. ASSUME NEW r \in Requests, NEW o \in Ops, PublishReplayRequest(r, o) PROVE Final
    BY <2>1, <2>7 DEF PublishReplayRequest
  <2>8. ASSUME NEW m \in published,
               AdmitReplayRequest(m) \/ RejectReplayCommand(m) \/ DeadLetterCommand(m)
        PROVE  Final
    BY <2>1, <2>8 DEF AdmitReplayRequest, RejectReplayCommand, DeadLetterCommand
  <2>9. ASSUME NEW p \in Procs, AbandonClaim(p) PROVE Final
    BY <2>1, <2>9 DEF AbandonClaim
  <2>10. ASSUME NEW i \in Instances, LeaseLapses(i) PROVE Final
    BY <2>1, <2>10 DEF LeaseLapses
  <2>11. QED
    BY <2>0, <2>2, <2>3, <2>4, <2>5, <2>6, <2>7, <2>8, <2>9, <2>10, NextCases,
       CheckpointIsFenced, CompleteIsFenced, DeadLetterIsFenced
<1>2. Spec => [][Final]_vars
  BY <1>1, Inductive, PTL DEF Spec
<1>3. QED  BY <1>2 DEF TerminalIsFinal
-----------------------------------------------------------------------------
(* The status of a row in the abstract specification.                      *)
Seen(s) == IF s = "retry_wait" THEN "running" ELSE s

(* A step that changes the abstract view of one operation, in one of the   *)
(* three ways the abstract specification allows, is one of its steps.      *)
LEMMA LifecycleStep ==
  ASSUME TypeOK, TypeOK', NEW o \in Ops,
         \A q \in Ops : q # o => workflow'[q] = workflow[q],
         \/ /\ workflow[o].status = "none"
            /\ workflow'[o].status = "running"
         \/ /\ Seen(workflow[o].status) = "running"
            /\ workflow'[o].status \in Terminal
            /\ workflow'[o].gen = workflow[o].gen
         \/ /\ workflow[o].status = "failed"
            /\ workflow'[o].status = "running"
            /\ workflow'[o].gen = workflow[o].gen + 1
  PROVE  Lifecycle!LifecycleNext
<1> DEFINE S == [q \in Ops |-> Seen(workflow[q].status)]
           G == [q \in Ops |-> workflow[q].gen]
<1>1. /\ workflow'[o].gen \in Nat
      /\ S' = [S EXCEPT ![o] = Seen(workflow'[o].status)]
      /\ G' = [G EXCEPT ![o] = workflow'[o].gen]
      /\ S[o] = Seen(workflow[o].status) /\ G[o] = workflow[o].gen
      /\ G'[o] = workflow'[o].gen
  BY DEF TypeOK, Rows
<1>2. /\ Seen("running") = "running" /\ Seen("none") = "none" /\ Seen("failed") = "failed"
      /\ \A s \in Terminal : Seen(s) = s /\ s \in Lifecycle!Outcomes
  BY DEF Seen, Terminal, Lifecycle!Outcomes
<1>3. CASE workflow[o].status = "none" /\ workflow'[o].status = "running"
  <2>1. Lifecycle!Start(o)
    BY <1>1, <1>2, <1>3 DEF Lifecycle!Start, Seen
  <2>2. QED  BY <2>1 DEF Lifecycle!LifecycleNext
<1>4. CASE /\ Seen(workflow[o].status) = "running"
           /\ workflow'[o].status \in Terminal
           /\ workflow'[o].gen = workflow[o].gen
  <2>1. G' = G
    BY <1>1, <1>4
  <2>2. PICK outcome \in Terminal : workflow'[o].status = outcome
    BY <1>4
  <2>3. Lifecycle!End(o, outcome)
    BY <1>1, <1>2, <1>4, <2>1, <2>2 DEF Lifecycle!End, Seen
  <2>4. QED  BY <1>2, <2>3 DEF Lifecycle!LifecycleNext
<1>5. CASE /\ workflow[o].status = "failed"
           /\ workflow'[o].status = "running"
           /\ workflow'[o].gen = workflow[o].gen + 1
  <2>1. Lifecycle!Reopen(o)
    BY <1>1, <1>2, <1>5 DEF Lifecycle!Reopen, Seen
  <2>2. QED  BY <2>1 DEF Lifecycle!LifecycleNext
<1>6. QED  BY <1>3, <1>4, <1>5

(* A step that leaves every row's generation alone and moves a row only    *)
(* between running and waiting for a retry is a stutter.                   *)
LEMMA LifecycleStutter ==
  ASSUME \A q \in Ops : /\ Seen(workflow'[q].status) = Seen(workflow[q].status)
                        /\ workflow'[q].gen = workflow[q].gen
  PROVE  UNCHANGED Lifecycle!lifecycleVars
BY DEF Lifecycle!lifecycleVars, Seen

(* The store implements the abstract lifecycle of an operation: a          *)
(* redelivered command, a stale worker's write and a late replay command   *)
(* never start an operation twice, end a generation twice, or reopen an    *)
(* operation that did not fail.                                            *)
THEOREM StoreImplementsLifecycle == Spec => ImplementsLifecycle
<1>1. Init => Lifecycle!LifecycleInit
  BY DEF Init, NoRow, RowAtStart, Lifecycle!LifecycleInit
<1> DEFINE Refines == [Lifecycle!LifecycleNext]_(Lifecycle!lifecycleVars)
<1>2. IInv /\ [Next]_vars => Refines
  <2> SUFFICES ASSUME IInv, [Next]_vars PROVE Refines
    OBVIOUS
  <2>0. TypeOK /\ TypeOK' /\ Fence
    BY NextTypeOK DEF IInv
  <2>1. CASE UNCHANGED workflow
    BY <2>1, LifecycleStutter
  <2>2. ASSUME NEW m \in published, AdmitOriginalDelivery(m) PROVE Refines
    <3>1. m.op \in Ops
      BY <2>0, MessageParts
    <3>2. CASE AlreadyAdmitted(m.op)
      BY <2>1, <2>2, <3>2 DEF AdmitOriginalDelivery
    <3>3. CASE ~AlreadyAdmitted(m.op)
      <4>1. PICK r \in Nullable(Resources) :
              workflow' = [workflow EXCEPT ![m.op] = RowAtStart("running", 0, 0, r)]
        BY <2>2, <3>3 DEF AdmitOriginalDelivery
      <4>2. /\ workflow[m.op].status = "none"
            /\ workflow'[m.op].status = "running"
            /\ \A q \in Ops : q # m.op => workflow'[q] = workflow[q]
        BY <2>0, <3>1, <3>3, <4>1 DEF AlreadyAdmitted, RowAtStart, TypeOK
      <4>3. QED  BY <2>0, <3>1, <4>2, LifecycleStep
    <3>4. QED  BY <3>2, <3>3
  <2>3. ASSUME NEW m \in published, AdmitAuthorizedReplayCommand(m) PROVE Refines
    <3>1. m.op \in Ops
      BY <2>0, MessageParts
    <3>2. /\ workflow'[m.op].status = "running" /\ workflow'[m.op].gen = m.gen
          /\ \A q \in Ops : q # m.op => workflow'[q] = workflow[q]
      BY <2>0, <2>3, <3>1
      DEF AdmitAuthorizedReplayCommand, Reopened, RowAtStart, TypeOK
    <3>3. \/ workflow[m.op].status = "none"
          \/ workflow[m.op].status = "failed" /\ m.gen = workflow[m.op].gen + 1
      BY <2>3 DEF AdmitAuthorizedReplayCommand, MovedOn
    <3>4. QED  BY <2>0, <3>1, <3>2, <3>3, LifecycleStep
  <2>4. ASSUME NEW p \in Procs, NEW o \in Ops, ClaimNext(p, o) PROVE Refines
    <3>1. \A q \in Ops : /\ Seen(workflow'[q].status) = Seen(workflow[q].status)
                         /\ workflow'[q].gen = workflow[q].gen
      BY <2>0, <2>4 DEF ClaimNext, TypeOK, Rows, Unfinished, Seen
    <3>2. QED  BY <3>1, LifecycleStutter
  <2>5. ASSUME NEW p \in Procs, FencedWrite(p),
               workflow'[claim[p].op].status \in Unfinished \cup Terminal
        PROVE  Refines
    <3>1. /\ claim[p].op \in Ops
          /\ workflow[claim[p].op].status = "running"
      BY <2>0, <2>5, FenceHolds, ClaimedOp
      DEF FencedWrite, AssertLease, Fence, ClaimsMirrorRows
    <3>2. /\ \A q \in Ops : q # claim[p].op => workflow'[q] = workflow[q]
          /\ workflow'[claim[p].op].gen = workflow[claim[p].op].gen
      BY <2>5 DEF FencedWrite
    <3>3. CASE workflow'[claim[p].op].status \in Unfinished
      BY <3>1, <3>2, <3>3, LifecycleStutter DEF Unfinished, Seen
    <3>4. CASE workflow'[claim[p].op].status \in Terminal
      BY <2>0, <3>1, <3>2, <3>4, LifecycleStep DEF Seen
    <3>5. QED  BY <2>5, <3>3, <3>4
  <2>6. ASSUME NEW o \in Ops, PublishCommand(o) PROVE Refines
    BY <2>1, <2>6 DEF PublishCommand
  <2>7. ASSUME NEW r \in Requests, NEW o \in Ops, PublishReplayRequest(r, o) PROVE Refines
    BY <2>1, <2>7 DEF PublishReplayRequest
  <2>8. ASSUME NEW m \in published,
               AdmitReplayRequest(m) \/ RejectReplayCommand(m) \/ DeadLetterCommand(m)
        PROVE  Refines
    BY <2>1, <2>8 DEF AdmitReplayRequest, RejectReplayCommand, DeadLetterCommand
  <2>9. ASSUME NEW p \in Procs, AbandonClaim(p) PROVE Refines
    BY <2>1, <2>9 DEF AbandonClaim
  <2>10. ASSUME NEW i \in Instances, LeaseLapses(i) PROVE Refines
    BY <2>1, <2>10 DEF LeaseLapses
  <2>11. CASE UNCHANGED vars
    BY <2>1, <2>11 DEF vars
  <2>12. ASSUME NEW p \in Procs, WorkerWrite(p) PROVE Refines
    <3> USE <2>0, <2>5
    <3>1. ASSUME NEW stage \in Stages, NEW wait \in BOOLEAN,
                 NEW attempt \in StageAttempts, NEW res \in Nullable(Resources),
                 NEW task \in Nullable(Tasks),
                 Checkpoint(p, stage, wait, attempt, res, task)
          PROVE  Refines
      BY <3>1, CheckpointIsFenced
    <3>2. ASSUME NEW status \in Terminal, Complete(p, status) PROVE Refines
      BY <3>2, CompleteIsFenced
    <3>3. ASSUME NEW attempts \in StageAttempts, DeadLetterWorkflow(p, attempts)
          PROVE  Refines
      BY <3>3, DeadLetterIsFenced DEF Terminal
    <3>4. QED  BY <2>12, <3>1, <3>2, <3>3 DEF WorkerWrite
  <2>13. QED
    BY <2>2, <2>3, <2>4, <2>6, <2>7, <2>8, <2>9, <2>10, <2>11, <2>12
    DEF Next, Environment, Consumer
<1>3. Spec => Lifecycle!LifecycleSpec
  BY <1>1, <1>2, Inductive, PTL DEF Spec, Lifecycle!LifecycleSpec
<1>4. QED  BY <1>3 DEF ImplementsLifecycle

-----------------------------------------------------------------------------
(* Governed replay.  A record that pretends to be a replay is refused, but *)
(* a consumer that cannot read its schema dead-letters it unexamined and   *)
(* overwrites the operation's dead letter: the generations are in order    *)
(* only where the two do not meet.                                         *)
Governed == ForeignReplays = {} \/ ~MixedDeployments

(* Every other replay command was published under a request for it.        *)
CommandsAuthorised ==
  \A m \in published :
    (m.kind = "command" /\ m.gen > 0) =>
      \/ m.request = None /\ m.op \in ForeignReplays
      \/ /\ m.request \in Requests
         /\ request[m.request].status # "none"
         /\ request[m.request].op = m.op /\ request[m.request].gen = m.gen

(* A request names no generation beyond its dead letter's.                 *)
RequestsBounded ==
  \A o \in Ops, r \in Requests :
    request[r].op = o => request[r].gen <= deadLetter[o].gen

(* Every generation up to the dead letter's was delivered, except the one  *)
(* a request still waits for.                                              *)
LetterDelivered(o) ==
  /\ deadLetter[o].status = "none" => deadLetter[o].gen = 0
  /\ deadLetter[o].status = "replay_requested" => deadLetter[o].gen > 0
  /\ deadLetter[o].status # "none" =>
       \A g \in Nat : g < deadLetter[o].gen => HasReceipt(o, g)
  /\ deadLetter[o].status \in {"open", "replayed"} => HasReceipt(o, deadLetter[o].gen)
LettersDelivered == \A o \in Ops : LetterDelivered(o)

(* The generation after the row's was dead-lettered before it got to it.   *)
Skipped(o) == ConsumerFact("dead_lettered", o, workflow[o].gen + 1) \in facts

(* A dead letter that is open or waiting belongs to a failed row, and runs *)
(* ahead of it only over a skipped generation.                             *)
RowFollows(o) ==
  workflow[o].status # "none" =>
    \/ deadLetter[o].status = "none" /\ workflow[o].gen = 0
    \/ deadLetter[o].status = "replayed" /\ workflow[o].gen = deadLetter[o].gen
    \/ /\ workflow[o].status = "failed" /\ deadLetter[o].status = "open"
       /\ \/ deadLetter[o].gen = workflow[o].gen
          \/ deadLetter[o].gen > workflow[o].gen /\ Skipped(o)
    \/ /\ workflow[o].status = "failed" /\ deadLetter[o].status = "replay_requested"
       /\ \/ deadLetter[o].gen = workflow[o].gen + 1
          \/ deadLetter[o].gen > workflow[o].gen + 1 /\ Skipped(o)
RowsFollowLetters == \A o \in Ops : RowFollows(o)

Replays == CommandsAuthorised /\ RequestsBounded /\ LettersDelivered /\ RowsFollowLetters

(* There are no replays to begin with.                                     *)
LEMMA InitReplays == Init => Replays
<1> SUFFICES ASSUME Init  PROVE Replays
  OBVIOUS
<1>1. CommandsAuthorised
  BY DEF Init, CommandsAuthorised, ForeignRecords
<1>2. RequestsBounded
  BY DEF Init, RequestsBounded
<1>3. LettersDelivered
  BY DEF Init, LettersDelivered, LetterDelivered
<1>4. RowsFollowLetters
  BY DEF Init, RowsFollowLetters, RowFollows, NoRow, RowAtStart
<1>5. QED  BY <1>1, <1>2, <1>3, <1>4 DEF Replays

(* The parts of the dead letters and of the requests.                      *)
LEMMA ReplayParts ==
  ASSUME TypeOK
  PROVE  /\ \A o \in Ops : /\ deadLetter[o] \in DeadLetters /\ deadLetter[o].gen \in Nat
                           /\ workflow[o] \in Rows /\ workflow[o].gen \in Nat
         /\ \A r \in Requests : request[r].gen \in Nat
  BY DEF TypeOK, DeadLetters, ReplayRequests, Rows

(* The generation of a replay that was not delivered is the one its dead   *)
(* letter waits for.                                                       *)
LEMMA UndeliveredIsAwaited ==
  ASSUME TypeOK, Replays, NEW r \in Requests, NEW o \in Ops,
         request[r].op = o, request[r].gen > 0, ~HasReceipt(o, request[r].gen)
  PROVE  deadLetter[o].status = "replay_requested" /\ deadLetter[o].gen = request[r].gen
<1>1. /\ request[r].gen \in Nat /\ deadLetter[o].gen \in Nat
      /\ deadLetter[o].status \in {"none", "open", "replay_requested", "replayed"}
      /\ request[r].gen <= deadLetter[o].gen
  BY ReplayParts DEF Replays, RequestsBounded, DeadLetters
<1>2. LetterDelivered(o)
  BY DEF Replays, LettersDelivered
<1>3. deadLetter[o].status # "none"
  BY <1>1, <1>2 DEF LetterDelivered
<1>4. ~(request[r].gen < deadLetter[o].gen)
  BY <1>1, <1>2, <1>3 DEF LetterDelivered
<1>5. request[r].gen = deadLetter[o].gen
  BY <1>1, <1>4
<1>6. QED  BY <1>1, <1>2, <1>3, <1>5 DEF LetterDelivered

(* An operation whose first delivery is still to come has neither a dead   *)
(* letter nor a row.                                                       *)
LEMMA UndeliveredIsNew ==
  ASSUME TypeOK, Ledger, Replays, NEW o \in Ops, ~HasReceipt(o, 0)
  PROVE  /\ deadLetter[o].status = "none" /\ deadLetter[o].gen = 0
         /\ workflow[o].status = "none"
         /\ \A r \in Requests : request[r].op = o => request[r].gen = 0
<1>1. /\ deadLetter[o].gen \in Nat /\ LetterDelivered(o) /\ RowFollows(o)
      /\ deadLetter[o].status \in {"none", "open", "replay_requested", "replayed"}
  BY ReplayParts DEF Replays, LettersDelivered, RowsFollowLetters, DeadLetters
<1>2. deadLetter[o].status = "none"
  BY <1>1 DEF LetterDelivered
<1>3. deadLetter[o].gen = 0
  BY <1>1, <1>2 DEF LetterDelivered
<1>4. workflow[o].status # "none" => workflow[o].gen = 0
  BY <1>1, <1>2 DEF RowFollows
<1>5. workflow[o].status = "none"
  BY <1>4 DEF Ledger, ReceiptCoversWorkflow
<1>6. \A r \in Requests : request[r].op = o => request[r].gen = 0
  BY <1>3, ReplayParts DEF Replays, RequestsBounded
<1>7. QED  BY <1>2, <1>3, <1>5, <1>6

(* A row that has not failed keeps step with its dead letter.              *)
LEMMA RunningRowIsLettered ==
  ASSUME Replays, NEW o \in Ops, workflow[o].status \notin {"none", "failed"}
  PROVE  \/ deadLetter[o].status = "none" /\ workflow[o].gen = 0
         \/ deadLetter[o].status = "replayed" /\ workflow[o].gen = deadLetter[o].gen
  BY DEF Replays, RowsFollowLetters, RowFollows

(* A step that leaves dead letters and requests alone, publishes no replay *)
(* command and moves no row to or from a failure keeps the replays.        *)
LEMMA ReplaysFrame ==
  ASSUME TypeOK, Replays, UNCHANGED <<deadLetter, request>>,
         receipts \subseteq receipts', facts \subseteq facts',
         \A m \in published' : m \in published \/ m.kind # "command" \/ m.gen = 0,
         \A o \in Ops : /\ workflow'[o].gen = workflow[o].gen
                        /\ workflow'[o].status # "none" => workflow[o].status # "none"
                        /\ workflow[o].status = "failed" => workflow'[o].status = "failed"
  PROVE  Replays'
<1>1. CommandsAuthorised'
  BY DEF Replays, CommandsAuthorised
<1>2. RequestsBounded'
  BY DEF Replays, RequestsBounded
<1>3. LettersDelivered'
  BY ReceiptsGrow DEF Replays, LettersDelivered, LetterDelivered
<1>4. ASSUME NEW o \in Ops  PROVE RowFollows(o)'
  <2>1. RowFollows(o) /\ (Skipped(o) => Skipped(o)')
    BY DEF Replays, RowsFollowLetters, Skipped, ConsumerFact
  <2>2. QED  BY <2>1 DEF RowFollows
<1>5. QED  BY <1>1, <1>2, <1>3, <1>4 DEF Replays, RowsFollowLetters

(* A first delivery starts the row of an operation that has no dead        *)
(* letter; a later one changes receipts only.                              *)
LEMMA ReplaysOriginal ==
  ASSUME TypeOK, Ledger, Replays, NEW m \in published, AdmitOriginalDelivery(m)
  PROVE  Replays'
<1> DEFINE o == m.op
<1>1. /\ o \in Ops /\ m.gen = 0
      /\ receipts \subseteq receipts'
      /\ UNCHANGED <<deadLetter, request, published, facts>>
  BY MessageParts DEF AdmitOriginalDelivery, InsertReceipt
<1>2. CASE AlreadyAdmitted(o)
  BY <1>1, <1>2, ReplaysFrame DEF AdmitOriginalDelivery
<1>3. CASE ~AlreadyAdmitted(o)
  <2>1. deadLetter[o].status = "none" /\ ~HasReceipt(o, 0)
    BY <1>1, <1>3, UndeliveredIsNew DEF AlreadyAdmitted
  <2>2. PICK r \in Nullable(Resources) :
          workflow' = [workflow EXCEPT ![o] = RowAtStart("running", 0, 0, r)]
    BY <1>3 DEF AdmitOriginalDelivery
  <2>3. /\ workflow'[o] = RowAtStart("running", 0, 0, r)
        /\ \A q \in Ops : q # o => workflow'[q] = workflow[q]
    BY <1>1, <2>2 DEF TypeOK
  <2>4. workflow'[o].gen = 0
    BY <2>3 DEF RowAtStart
  <2>5. CommandsAuthorised' /\ RequestsBounded'
    BY <1>1 DEF Replays, CommandsAuthorised, RequestsBounded
  <2>6. LettersDelivered'
    BY <1>1, ReceiptsGrow DEF Replays, LettersDelivered, LetterDelivered
  <2>7. ASSUME NEW q \in Ops  PROVE RowFollows(q)'
    <3>1. CASE q = o
      BY <1>1, <2>1, <2>4, <3>1 DEF RowFollows
    <3>2. CASE q # o
      <4>1. RowFollows(q) /\ (Skipped(q) => Skipped(q)') /\ workflow'[q] = workflow[q]
        BY <1>1, <2>3, <3>2 DEF Replays, RowsFollowLetters, Skipped, ConsumerFact
      <4>2. QED  BY <1>1, <4>1 DEF RowFollows
    <3>3. QED  BY <3>1, <3>2
  <2>8. QED  BY <2>5, <2>6, <2>7 DEF Replays, RowsFollowLetters
<1>4. QED  BY <1>2, <1>3

(* A request takes the dead letter on by one generation, or is rejected.   *)
LEMMA ReplaysRequest ==
  ASSUME TypeOK, Replays, NEW m \in published, AdmitReplayRequest(m)
  PROVE  Replays'
<1> DEFINE o == m.op
           g == deadLetter[m.op].gen + 1
           s == m.request
<1>1. /\ o \in Ops /\ s \in Requests /\ g \in Nat \ {0}
      /\ deadLetter[o].gen \in Nat /\ deadLetter[o].gen = g - 1
      /\ UNCHANGED <<receipts, workflow>>
      /\ request[s].status = "none"
  BY MessageParts, ReplayParts DEF AdmitReplayRequest
<1>2. CASE request' = [request EXCEPT ![s] = [status |-> "authorized", op |-> o, gen |-> g]]
           /\ published' = published \cup
                {[kind |-> "command", op |-> o, gen |-> g, request |-> s]}
           /\ deadLetter' = [deadLetter EXCEPT ![o].gen = g, ![o].status = "replay_requested"]
           /\ deadLetter[o].status = "open" /\ UNCHANGED facts
  <2>1. /\ request'[s].op = o /\ request'[s].gen = g /\ request'[s].status = "authorized"
        /\ \A r \in Requests : r # s => request'[r] = request[r]
        /\ deadLetter'[o].gen = g /\ deadLetter'[o].status = "replay_requested"
        /\ \A q \in Ops : q # o => deadLetter'[q] = deadLetter[q]
    BY <1>1, <1>2 DEF TypeOK, DeadLetters
  <2>2. CommandsAuthorised'
    BY <1>1, <1>2, <2>1 DEF Replays, CommandsAuthorised
  <2>3. RequestsBounded'
    BY <1>1, <2>1, ReplayParts DEF Replays, RequestsBounded
  <2>4. ASSUME NEW q \in Ops  PROVE LetterDelivered(q)' /\ RowFollows(q)'
    <3>1. LetterDelivered(q) /\ RowFollows(q)
          /\ deadLetter[q].gen \in Nat /\ workflow[q].gen \in Nat
          /\ (\A k \in Nat : HasReceipt(q, k) => HasReceipt(q, k)')
          /\ (Skipped(q) => Skipped(q)')
      BY <1>1, <1>2, ReplayParts, ReceiptsGrow
         DEF Replays, LettersDelivered, RowsFollowLetters, Skipped, ConsumerFact
    <3>2. CASE q = o
      <4>1. \A k \in Nat : k < g => k < deadLetter[o].gen \/ k = deadLetter[o].gen
        BY <1>1
      <4>2. \A k \in Nat : k < g => HasReceipt(q, k)'
        BY <1>1, <1>2, <3>1, <3>2, <4>1 DEF LetterDelivered
      <4>3. LetterDelivered(q)'
        <5> HIDE DEF g
        <5> QED  BY <1>1, <2>1, <3>2, <4>2 DEF LetterDelivered
      <4>4. RowFollows(q)'
        BY <1>1, <1>2, <2>1, <3>1, <3>2 DEF RowFollows
      <4>5. QED  BY <4>3, <4>4
    <3>3. CASE q # o
      BY <1>1, <2>1, <3>1, <3>3 DEF LetterDelivered, RowFollows
    <3>4. QED  BY <3>2, <3>3
  <2>5. QED  BY <2>2, <2>3, <2>4 DEF Replays, LettersDelivered, RowsFollowLetters
<1>3. CASE request' = [request EXCEPT ![s] = [status |-> "rejected", op |-> o, gen |-> 0]]
           /\ UNCHANGED <<published, deadLetter>> /\ facts \subseteq facts'
  <2>1. /\ request'[s].gen = 0
        /\ \A r \in Requests : r # s => request'[r] = request[r]
    BY <1>1, <1>3 DEF TypeOK
  <2>2. CommandsAuthorised'
    BY <1>1, <1>3, <2>1 DEF Replays, CommandsAuthorised
  <2>3. RequestsBounded'
    BY <1>1, <1>3, <2>1, ReplayParts DEF Replays, RequestsBounded
  <2>4. ASSUME NEW q \in Ops  PROVE LetterDelivered(q)' /\ RowFollows(q)'
    <3>1. LetterDelivered(q) /\ RowFollows(q)
          /\ (\A k \in Nat : HasReceipt(q, k) => HasReceipt(q, k)')
          /\ (Skipped(q) => Skipped(q)')
      BY <1>1, <1>3, ReceiptsGrow
         DEF Replays, LettersDelivered, RowsFollowLetters, Skipped, ConsumerFact
    <3>2. QED  BY <1>1, <1>3, <3>1, ReplayParts DEF LetterDelivered, RowFollows
  <2>5. QED  BY <2>2, <2>3, <2>4 DEF Replays, LettersDelivered, RowsFollowLetters
<1>4. QED  BY <1>2, <1>3 DEF AdmitReplayRequest

(* A replay command that its request authorised finds the dead letter      *)
(* waiting for it, and closes it with the row at the same generation.      *)
LEMMA ReplaysCommand ==
  ASSUME TypeOK, Replays, NEW m \in published, AdmitAuthorizedReplayCommand(m)
  PROVE  Replays'
<1> DEFINE o == m.op
           s == m.request
<1>1. /\ o \in Ops /\ s \in Requests /\ m.gen \in Nat /\ m.gen > 0
      /\ request[s] = [status |-> "authorized", op |-> o, gen |-> m.gen]
      /\ ~HasReceipt(o, m.gen)
      /\ receipts' = receipts \cup {<<o, m.gen, s>>}
      /\ facts \subseteq facts' /\ UNCHANGED published
  BY MessageParts DEF AdmitAuthorizedReplayCommand, Authorized, Nullable
<1>2. deadLetter[o].status = "replay_requested" /\ deadLetter[o].gen = m.gen
  BY <1>1, UndeliveredIsAwaited
<1>3. /\ deadLetter'[o].status = "replayed" /\ deadLetter'[o].gen = m.gen
      /\ \A q \in Ops : q # o => deadLetter'[q] = deadLetter[q]
  BY <1>1, <1>2 DEF AdmitAuthorizedReplayCommand, DeadLetterAwaits, TypeOK, DeadLetters
<1>4. /\ workflow'[o].gen = m.gen
      /\ \A q \in Ops : q # o => workflow'[q] = workflow[q]
  BY <1>1 DEF AdmitAuthorizedReplayCommand, TypeOK, Reopened, RowAtStart
<1>5. \A r \in Requests : /\ request'[r].op = request[r].op
                          /\ request'[r].gen = request[r].gen
                          /\ request[r].status # "none" => request'[r].status # "none"
  BY <1>1 DEF AdmitAuthorizedReplayCommand, TypeOK, ReplayRequests
<1>6. CommandsAuthorised'
  BY <1>1, <1>5 DEF Replays, CommandsAuthorised
<1>7. RequestsBounded'
  BY <1>2, <1>3, <1>5 DEF Replays, RequestsBounded
<1>8. HasReceipt(o, m.gen)'
  BY <1>1 DEF HasReceipt, Nullable
<1>9. ASSUME NEW q \in Ops  PROVE LetterDelivered(q)' /\ RowFollows(q)'
  <2>1. LetterDelivered(q) /\ RowFollows(q)
        /\ (\A k \in Nat : HasReceipt(q, k) => HasReceipt(q, k)')
        /\ deadLetter[q].gen \in Nat
        /\ (workflow'[q] = workflow[q] => (Skipped(q) => Skipped(q)'))
    BY <1>1, ReplayParts, ReceiptsGrow
       DEF Replays, LettersDelivered, RowsFollowLetters, Skipped, ConsumerFact
  <2>2. CASE q = o
    BY <1>1, <1>2, <1>3, <1>4, <1>8, <2>1, <2>2 DEF LetterDelivered, RowFollows
  <2>3. CASE q # o
    BY <1>3, <1>4, <2>1, <2>3 DEF LetterDelivered, RowFollows
  <2>4. QED  BY <2>2, <2>3
<1>10. QED  BY <1>6, <1>7, <1>9 DEF Replays, LettersDelivered, RowsFollowLetters

(* A consumer that cannot read a command opens the dead letter at the      *)
(* generation it was waiting for, or at the first.                         *)
LEMMA ReplaysDeadLetter ==
  ASSUME Governed, TypeOK, Ledger, Replays, NEW m \in published, DeadLetterCommand(m)
  PROVE  Replays'
<1> DEFINE o == m.op
           g == m.gen
<1>1. /\ o \in Ops /\ g \in Nat /\ m.request \in Nullable(Requests)
      /\ ~HasReceipt(o, g)
      /\ receipts' = receipts \cup {<<o, g, m.request>>}
      /\ facts' = facts \cup {ConsumerFact("dead_lettered", o, g)}
      /\ UNCHANGED <<published, workflow, request>>
  BY MessageParts DEF DeadLetterCommand, NotYetDelivered
<1>2. /\ deadLetter'[o].status = "open" /\ deadLetter'[o].gen = g
      /\ \A q \in Ops : q # o => deadLetter'[q] = deadLetter[q]
  BY <1>1 DEF DeadLetterCommand, TypeOK
<1>3. \/ g = 0 /\ deadLetter[o].status = "none" /\ workflow[o].status = "none"
      \/ deadLetter[o].status = "replay_requested" /\ deadLetter[o].gen = g
  <2>1. CASE g = 0
    BY <1>1, <2>1, UndeliveredIsNew
  <2>2. CASE g > 0
    <3>1. PICK r \in Requests : request[r].op = o /\ request[r].gen = g
      BY <2>2 DEF Governed, DeadLetterCommand, Replays, CommandsAuthorised
    <3>2. QED  BY <1>1, <2>2, <3>1, UndeliveredIsAwaited
  <2>3. QED  BY <1>1, <2>1, <2>2
<1>4. deadLetter[o].gen = g
  BY <1>1, <1>3 DEF Replays, LettersDelivered, LetterDelivered
<1>5. HasReceipt(o, g)' /\ \A q \in Ops, k \in Nat : HasReceipt(q, k) => HasReceipt(q, k)'
  BY <1>1 DEF HasReceipt
<1>6. CommandsAuthorised'
  BY <1>1 DEF Replays, CommandsAuthorised
<1>7. RequestsBounded'
  BY <1>1, <1>2, <1>4 DEF Replays, RequestsBounded
<1>8. ASSUME NEW q \in Ops  PROVE LetterDelivered(q)' /\ RowFollows(q)'
  <2>1. LetterDelivered(q) /\ RowFollows(q)
        /\ deadLetter[q].gen \in Nat /\ workflow[q].gen \in Nat
        /\ (Skipped(q) => Skipped(q)')
    BY <1>1, ReplayParts
       DEF Replays, LettersDelivered, RowsFollowLetters, Skipped, ConsumerFact
  <2>2. CASE q = o
    <3>1. LetterDelivered(q)'
      BY <1>1, <1>2, <1>3, <1>4, <1>5, <2>1, <2>2 DEF LetterDelivered
    <3>2. g = workflow[o].gen + 1 => Skipped(q)'
      BY <1>1, <2>2 DEF Skipped, ConsumerFact
    <3>3. RowFollows(q)'
      BY <1>1, <1>2, <1>3, <1>4, <2>1, <2>2, <3>2 DEF RowFollows
    <3>4. QED  BY <3>1, <3>3
  <2>3. CASE q # o
    BY <1>1, <1>2, <1>5, <2>1, <2>3 DEF LetterDelivered, RowFollows
  <2>4. QED  BY <2>2, <2>3
<1>9. QED  BY <1>6, <1>7, <1>8 DEF Replays, LettersDelivered, RowsFollowLetters

(* A worker that gives up on its stage opens the dead letter at the        *)
(* generation of its row, which the dead letter had not passed.            *)
LEMMA ReplaysExhausted ==
  ASSUME TypeOK, Fence, Ledger, Replays, NEW p \in Procs,
         NEW attempts \in StageAttempts, DeadLetterWorkflow(p, attempts)
  PROVE  Replays'
<1> DEFINE o == claim[p].op
           g == workflow[claim[p].op].gen
<1>1. /\ o \in Ops /\ g \in Nat /\ FencedWrite(p)
      /\ workflow[o].status = "running"
      /\ workflow'[o].gen = g /\ workflow'[o].status = "failed"
      /\ \A q \in Ops : q # o => workflow'[q] = workflow[q]
  BY DeadLetterIsFenced, FenceHolds, ClaimedOp, ReplayParts
     DEF FencedWrite, AssertLease, Fence, ClaimsMirrorRows
<1>2. /\ UNCHANGED <<receipts, published, request>> /\ facts \subseteq facts'
      /\ deadLetter' = [deadLetter EXCEPT ![o] =
                          [status |-> "open", gen |-> g, allowed |-> TRUE]]
  BY DEF DeadLetterWorkflow, ExhaustedDeadLetter
<1>3. /\ deadLetter'[o].status = "open" /\ deadLetter'[o].gen = g
      /\ \A q \in Ops : q # o => deadLetter'[q] = deadLetter[q]
  BY <1>1, <1>2 DEF TypeOK
<1>4. HasReceipt(o, g) /\ deadLetter[o].gen = g
  BY <1>1, RunningRowIsLettered
     DEF Ledger, ReceiptCoversWorkflow, Replays, LettersDelivered, LetterDelivered
<1>5. \A k \in Nat : k < g => HasReceipt(o, k)
  BY <1>1, <1>4, RunningRowIsLettered DEF Replays, LettersDelivered, LetterDelivered
<1>6. CommandsAuthorised'
  BY <1>2 DEF Replays, CommandsAuthorised
<1>7. RequestsBounded'
  BY <1>2, <1>3, <1>4 DEF Replays, RequestsBounded
<1>8. \A q \in Ops, k \in Nat : HasReceipt(q, k) => HasReceipt(q, k)'
  BY <1>2 DEF HasReceipt
<1>9. ASSUME NEW q \in Ops  PROVE LetterDelivered(q)' /\ RowFollows(q)'
  <2>1. LetterDelivered(q) /\ RowFollows(q)
        /\ deadLetter[q].gen \in Nat /\ workflow[q].gen \in Nat
        /\ (workflow'[q].gen = workflow[q].gen => (Skipped(q) => Skipped(q)'))
    BY <1>2, ReplayParts
       DEF Replays, LettersDelivered, RowsFollowLetters, Skipped, ConsumerFact
  <2>2. CASE q = o
    <3> HIDE DEF g
    <3>1. QED
      BY <1>1, <1>3, <1>4, <1>5, <1>8, <2>1, <2>2 DEF LetterDelivered, RowFollows
  <2>3. CASE q # o
    BY <1>1, <1>3, <1>8, <2>1, <2>3 DEF LetterDelivered, RowFollows
  <2>4. QED  BY <2>2, <2>3
<1>10. QED  BY <1>6, <1>7, <1>9 DEF Replays, LettersDelivered, RowsFollowLetters

(* A worker's other writes change neither a generation nor a dead letter.  *)
LEMMA ReplaysWrite ==
  ASSUME TypeOK, Fence, Replays, NEW p \in Procs, FencedWrite(p), facts \subseteq facts',
         UNCHANGED <<deadLetter, request, receipts, published>>
  PROVE  Replays'
<1>1. claim[p].op \in Ops /\ workflow[claim[p].op].status = "running"
  BY FenceHolds, ClaimedOp DEF FencedWrite, AssertLease, Fence, ClaimsMirrorRows
<1>2. \A o \in Ops : /\ workflow'[o].gen = workflow[o].gen
                     /\ workflow'[o].status # "none" => workflow[o].status # "none"
                     /\ workflow[o].status = "failed" => workflow'[o].status = "failed"
  BY <1>1 DEF FencedWrite
<1>3. QED  BY <1>2, ReplaysFrame

(* Every transaction keeps the generations of the replays in order.        *)
LEMMA NextReplays ==
  ASSUME Governed, IInv, Replays, [Next]_vars
  PROVE  Replays'
<1>0. TypeOK /\ Fence /\ Ledger
  BY DEF IInv
<1>1. CASE UNCHANGED vars
  BY <1>0, <1>1, ReplaysFrame DEF vars
<1>2. ASSUME NEW o \in Ops, PublishCommand(o) PROVE Replays'
  BY <1>0, <1>2, ReplaysFrame DEF PublishCommand, CommandOf
<1>3. ASSUME NEW r \in Requests, NEW o \in Ops, PublishReplayRequest(r, o) PROVE Replays'
  BY <1>0, <1>3, ReplaysFrame DEF PublishReplayRequest
<1>4. ASSUME NEW m \in published, RejectReplayCommand(m) PROVE Replays'
  BY <1>0, <1>4, ReplaysFrame DEF RejectReplayCommand
<1>5. ASSUME NEW p \in Procs, NEW o \in Ops, ClaimNext(p, o) PROVE Replays'
  <2>1. \A q \in Ops : /\ workflow'[q].gen = workflow[q].gen
                       /\ workflow'[q].status # "none" => workflow[q].status # "none"
                       /\ workflow[q].status = "failed" => workflow'[q].status = "failed"
    BY <1>0, <1>5 DEF ClaimNext, TypeOK, Rows, Unfinished
  <2>2. UNCHANGED <<deadLetter, request, receipts, facts, published>>
    BY <1>5 DEF ClaimNext
  <2>3. QED  BY <1>0, <2>1, <2>2, ReplaysFrame
<1>6. ASSUME NEW p \in Procs, NEW stage \in Stages, NEW wait \in BOOLEAN,
             NEW attempt \in StageAttempts, NEW res \in Nullable(Resources),
             NEW task \in Nullable(Tasks),
             Checkpoint(p, stage, wait, attempt, res, task)
      PROVE Replays'
  BY <1>0, <1>6, CheckpointIsFenced, ReplaysWrite DEF Checkpoint
<1>7. ASSUME NEW p \in Procs, NEW status \in Terminal, Complete(p, status) PROVE Replays'
  BY <1>0, <1>7, CompleteIsFenced, ReplaysWrite DEF Complete
<1>8. ASSUME NEW p \in Procs, AbandonClaim(p) PROVE Replays'
  BY <1>0, <1>8, ReplaysFrame DEF AbandonClaim
<1>9. ASSUME NEW i \in Instances, LeaseLapses(i) PROVE Replays'
  BY <1>0, <1>9, ReplaysFrame DEF LeaseLapses
<1>10. QED
  BY <1>0, <1>1, <1>2, <1>3, <1>4, <1>5, <1>6, <1>7, <1>8, <1>9, NextCases,
     ReplaysOriginal, ReplaysRequest, ReplaysCommand, ReplaysDeadLetter, ReplaysExhausted

(* Where no forged replay meets a consumer that cannot read it, requests,  *)
(* dead letters, receipts and rows agree on the generation.                *)
THEOREM ReplaysInOrder == Governed => (Spec => []Replays)
<1> SUFFICES ASSUME Governed  PROVE Spec => []Replays
  OBVIOUS
<1>1. Init => Replays
  BY InitReplays
<1>2. IInv /\ Replays /\ [Next]_vars => Replays'
  BY NextReplays
<1>3. QED  BY <1>1, <1>2, Inductive, PTL DEF Spec

(* The update of the dead letter with which a replay command is admitted   *)
(* never misses its row.                                                   *)
THEOREM LetterAwaitsReplay == Governed => (Spec => []ReplayFindsItsDeadLetter)
<1> SUFFICES ASSUME Governed  PROVE Spec => []ReplayFindsItsDeadLetter
  OBVIOUS
<1>1. ASSUME IInv, Replays, NEW m \in published, m.gen > 0,
             ~HasReceipt(m.op, m.gen), Authorized(m)
      PROVE  DeadLetterAwaits(m)
  BY <1>1, MessageParts, UndeliveredIsAwaited
     DEF IInv, Authorized, Nullable, DeadLetterAwaits
<1>2. IInv /\ Replays => ReplayFindsItsDeadLetter
  BY <1>1 DEF ReplayFindsItsDeadLetter
<1>3. QED  BY <1>2, Inductive, ReplaysInOrder, PTL

(* No request is refused by the unique index on the generation.            *)
THEOREM GenerationIsNew == Governed => (Spec => []GenerationNotReused)
<1> SUFFICES ASSUME Governed  PROVE Spec => []GenerationNotReused
  OBVIOUS
<1>1. Replays => GenerationNotReused
  BY DEF Replays, RequestsBounded, GenerationNotReused
<1>2. QED  BY <1>1, ReplaysInOrder, PTL

(* An authorised replay is stranded only behind a generation that a        *)
(* consumer dead-lettered unread.                                          *)
THEOREM AuthorityStands == Governed => (Spec => []AuthorityNotStranded)
<1> SUFFICES ASSUME Governed  PROVE Spec => []AuthorityNotStranded
  OBVIOUS
<1>1. ASSUME IInv, Replays, NEW m \in published, Authorized(m),
             ~HasReceipt(m.op, m.gen), MovedOn(m)
      PROVE  Skipped(m.op)
  <2>1. /\ m.op \in Ops /\ m.request \in Requests /\ m.gen \in Nat
        /\ request[m.request].op = m.op /\ request[m.request].gen = m.gen
    BY <1>1, MessageParts DEF IInv, Authorized, Nullable
  <2>2. m.gen > 0
    <3>1. CASE m.gen = 0
      <4>1. workflow[m.op].status = "none"
        BY <1>1, <2>1, <3>1, UndeliveredIsNew DEF IInv
      <4>2. QED  BY <1>1, <4>1 DEF MovedOn
    <3>2. QED  BY <2>1, <3>1
  <2>3. deadLetter[m.op].status = "replay_requested" /\ deadLetter[m.op].gen = m.gen
    BY <1>1, <2>1, <2>2, UndeliveredIsAwaited DEF IInv
  <2>4. QED
    BY <1>1, <2>1, <2>3 DEF MovedOn, Replays, RowsFollowLetters, RowFollows
<1>2. IInv /\ Replays => AuthorityNotStranded
  BY <1>1 DEF AuthorityNotStranded, Skipped
<1>3. QED  BY <1>2, Inductive, ReplaysInOrder, PTL
=============================================================================
