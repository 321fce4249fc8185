----------------------------- MODULE Projection -----------------------------
(***************************************************************************)
(* The way back: what the orchestrator publishes travels through Kafka and *)
(* is applied to the Control API's tables and documents by                 *)
(* packages/postgres-adapter/src/projection-store.ts, driven by            *)
(* projection-consumer.ts on packages/messaging/src/kafka-consumer.ts.     *)
(* Composed with Acceptance, and with the orchestrator as                  *)
(* OperationLifecycle promises it; an administrator may replay what was    *)
(* dead-lettered.                                                          *)
(*                                                                         *)
(* A topic is partitioned by instance, so its records about an instance    *)
(* are a log.  Each topic has a consumer group of its own: order holds     *)
(* within a log and not between two.  The offset is committed after the    *)
(* handler's transaction, so a record is not delivered before its          *)
(* predecessors were handled, and one handled before may come again at any *)
(* time: after a crash, a rebalance, or from a consumer that has lost the  *)
(* partition and does not know it.  A handler that throws commits nothing  *)
(* and its record stays the next of its log.                               *)
(***************************************************************************)
EXTENDS Acceptance

CONSTANT
  Unsupported   \* kinds whose command a consumer of another version refuses

(* As many operations as there are scopes, the last named by its position.  *)
OpIds == 1 .. Cardinality({Scope(r) : r \in Requests})
InstIds == 1 .. Cardinality({Scope(r) : r \in {q \in Requests : q.kind = "create_instance"}})
ReplayKeys == {r.key : r \in ReplayRequests}
Topics == {"events", "dlq"}

(* However long the system has run, it has received finitely many requests.*)
ASSUME ProjectionAssumption == IsFiniteSet(Requests)

VARIABLES
  status, generation,  \* the orchestrator's workflows: see OperationLifecycle
  known,     \* workflows whose row names a provider resource
  deadLetter,\* workflow.dead_letters by operation
  requested, \* replay requests on their way to the orchestrator
  log,       \* by topic and instance: the records published
  handled,   \* by topic and instance: records with an inbox receipt
  letters,   \* projection.dead_letters by operation
  replays,   \* control.replay_requests by idempotency key
  drift,     \* control.instances.drift
  stamped,   \* instances by last_reconciled_at, oldest first; others have none
  stale      \* those whose last_reconciled_at is older than STALE_AFTER_MS

orchestratorVars == <<status, generation, known, deadLetter, requested>>
consumerVars == <<handled, letters, replays>>
observedVars == <<drift, stamped, stale>>
projectionVars == <<acceptVars, orchestratorVars, consumerVars, observedVars, log>>

Orchestrator == INSTANCE OperationLifecycle WITH Ops <- OpIds

ProjectionInit ==
  /\ Init
  /\ Orchestrator!LifecycleInit
  /\ known = {} /\ requested = {}
  /\ deadLetter = [o \in OpIds |-> "none"]
  /\ log = [t \in Topics |-> [i \in InstIds |-> << >>]]
  /\ handled = [t \in Topics |-> [i \in InstIds |-> 0]]
  /\ letters = [o \in OpIds |-> "none"]
  /\ replays = [q \in ReplayKeys |-> [op |-> 0, status |-> "none"]]
  /\ drift = [i \in InstIds |-> "none"]
  /\ stamped = << >> /\ stale = {}

-----------------------------------------------------------------------------
(* The orchestrator, as far as the Control API can tell.                   *)

Publish(l, t, o, record) ==
  [l EXCEPT ![t][operations[o].inst] = Append(@, record)]
Fact(kind, o) == [kind |-> kind, op |-> o]

(* The workflow's row, seeded from an earlier one of its instance.         *)
Inheriting(o) ==
  IF /\ operations[o].req.kind # "create_instance"
     /\ \E w \in known : operations[w].inst = operations[o].inst
  THEN known \cup {o} ELSE known

Admit(o) ==
  /\ o \in DOMAIN operations /\ deadLetter[o] = "none"
  /\ UNCHANGED generation
  /\ Orchestrator!Start(o)
  /\ known' = Inheriting(o)
  /\ log' = Publish(log, "events", o, Fact("progress", o))
  /\ UNCHANGED <<acceptVars, consumerVars, observedVars, deadLetter, requested>>

(* deadLetterCommand: no workflow, no failure event, only the dead letter. *)
RefuseCommand(o) ==
  /\ o \in DOMAIN operations /\ operations[o].req.kind \in Unsupported
  /\ status[o] = "none" /\ deadLetter[o] = "none"
  /\ \E replayable \in IF operations[o].req.kind = "create_instance"
                       THEN BOOLEAN ELSE {FALSE} :
       /\ deadLetter' = [deadLetter EXCEPT ![o] = IF replayable THEN "open" ELSE "final"]
       /\ log' = Publish(log, "dlq", o, [op |-> o, replayable |-> replayable])
  /\ UNCHANGED <<acceptVars, consumerVars, observedVars, status, generation,
                 known, requested>>

Succeed(o) ==
  /\ Orchestrator!End(o, "succeeded")
  /\ known' = known \cup {o}
  /\ log' = Publish(log, "events", o, Fact("completed", o))
  /\ UNCHANGED <<acceptVars, consumerVars, observedVars, deadLetter, requested>>

(* A create may have got its resource before it failed.                    *)
LearnsResource(o) ==
  known' \in IF operations[o].req.kind = "create_instance"
             THEN {known, known \cup {o}} ELSE {known}

Fail(o, outcome) ==
  /\ Orchestrator!End(o, outcome)
  /\ LearnsResource(o)
  /\ log' = Publish(log, "events", o, Fact(outcome, o))
  /\ UNCHANGED <<acceptVars, consumerVars, observedVars, deadLetter, requested>>

(* deadLetterWorkflow: the failure and the dead letter in one transaction. *)
Exhaust(o) ==
  /\ Orchestrator!End(o, "failed")
  /\ LearnsResource(o)
  /\ deadLetter' = [deadLetter EXCEPT ![o] = "open"]
  /\ log' = Publish(Publish(log, "events", o, Fact("failed", o)),
                    "dlq", o, [op |-> o, replayable |-> TRUE])
  /\ UNCHANGED <<acceptVars, consumerVars, observedVars, requested>>

Resolution(o, q, outcome) ==
  [kind |-> "resolved", op |-> o, key |-> q, outcome |-> outcome]

(* mutant: a refused replay is recorded and not published. *)
RefuseQuietly(o, q) == UNCHANGED log

RefuseReplay(o, q) ==
  log' = Publish(log, "events", o, Resolution(o, q, "rejected"))

(* The orchestrator's decision on a replay request and the admission of    *)
(* the command it restores, which WorkflowStore has as two steps.  A       *)
(* consumer that does not know the command's schema refuses the request.   *)
ResolveReplay(q) ==
  LET o == replays[q].op
  IN /\ q \in requested
     /\ requested' = requested \ {q}
     /\ \/ /\ deadLetter[o] = "open"
           /\ \/ Orchestrator!Reopen(o)
              \/ /\ generation' = [generation EXCEPT ![o] = 1]
                 /\ Orchestrator!Start(o)
           /\ deadLetter' = [deadLetter EXCEPT ![o] = "replayed"]
           /\ known' = known \ {o}
           /\ log' = Publish(Publish(log, "events", o, Resolution(o, q, "completed")),
                             "events", o, Fact("progress", o))
        \/ /\ deadLetter[o] # "open" \/ operations[o].req.kind \in Unsupported
           /\ RefuseReplay(o, q)
           /\ UNCHANGED <<status, generation, deadLetter, known>>
     /\ UNCHANGED <<acceptVars, consumerVars, observedVars>>

-----------------------------------------------------------------------------
(* The administrator's request, decided on the projected dead letter.      *)

Replayable(o) == o \in OpIds /\ letters[o] = "replayable"

RequestDeadLetterReplay(r) ==
  LET q == r.key o == r.event IN
  /\ authorizeAdministrator(r) /\ assertIdempotencyKey(r) /\ r.reason \in Reasons
  /\ replays[q].status = "none"
  /\ Replayable(o)
  /\ replays' = [replays EXCEPT ![q] = [op |-> o, status |-> "accepted"]]
  /\ requested' = requested \cup {q}
  /\ UNCHANGED <<acceptVars, observedVars, status, generation, known, deadLetter,
                 log, handled, letters>>

-----------------------------------------------------------------------------
(* The consumers.                                                          *)

(* last_reconciled_at is set to now.                                       *)
Others(i) == SelectSeq(stamped, LAMBDA j : j # i)
Restamp(i) == /\ stamped' = Append(Others(i), i)
              /\ stale' = stale \ {i}

(* An unmatched request, or a dead letter that is not there, throws.       *)
ApplyReplayResolved(e) ==
  /\ replays[e.key].op = e.op
  /\ e.outcome = "completed" => letters[e.op] # "none"
  /\ replays' = [replays EXCEPT ![e.key].status = e.outcome]
  /\ letters' = IF e.outcome = "completed" THEN [letters EXCEPT ![e.op] = "closed"]
                ELSE letters
  /\ UNCHANGED <<acceptVars, observedVars>>

ApplyWorkflowEvent(e) ==
  \/ /\ e.kind = "progress" /\ ApplyProgress(e.op)
     /\ UNCHANGED <<letters, replays, observedVars>>
  \/ /\ e.kind = "completed" /\ ApplyCompleted(e.op)
     /\ drift' = [drift EXCEPT ![operations[e.op].inst] = "none"]
     /\ Restamp(operations[e.op].inst)
     /\ UNCHANGED <<letters, replays>>
  \/ /\ e.kind \in {"failed", "manual_review"} /\ ApplyFailed(e.op, e.kind)
     /\ UNCHANGED <<letters, replays, observedVars>>
  \/ e.kind = "resolved" /\ ApplyReplayResolved(e)

ApplyDeadLetterEvent(e) ==
  /\ letters' = [letters EXCEPT ![e.op] = IF e.replayable THEN "replayable" ELSE "closed"]
  /\ UNCHANGED <<acceptVars, observedVars, replays>>

Apply(t, e) ==
  \/ t = "events" /\ ApplyWorkflowEvent(e)
  \/ t = "dlq" /\ ApplyDeadLetterEvent(e)

(* mutant: the inbox receipt is not looked at. *)
ReceiptIgnored(t, i, k) == FALSE

(* mutant: the receipt names the operation and not the event. *)
ReceiptPerOperation(t, i, k) ==
  \E j \in 1 .. handled[t][i] : log[t][i][j].op = log[t][i][k].op

HasReceipt(t, i, k) == k <= handled[t][i]

(* Record k of a log reaches a consumer: the next one or an earlier one.   *)
Deliver(t, i, k) ==
  /\ k <= Len(log[t][i])
  /\ ~HasReceipt(t, i, k)
  /\ Apply(t, log[t][i][k])
  /\ handled' = [handled EXCEPT ![t][i] = IF k > @ THEN k ELSE @]
  /\ UNCHANGED <<orchestratorVars, log>>

Consume(t, i) == \E k \in 1 .. handled[t][i] + 1 : Deliver(t, i, k)

-----------------------------------------------------------------------------
Work(o) ==
  \/ Admit(o) \/ RefuseCommand(o) \/ Succeed(o) \/ Exhaust(o)
  \/ \E outcome \in {"failed", "manual_review"} : Fail(o, outcome)

ProjectionNext ==
  \/ Accept /\ UNCHANGED <<orchestratorVars, consumerVars, observedVars, log>>
  \/ \E o \in OpIds : Work(o)
  \/ \E q \in ReplayKeys : ResolveReplay(q)
  \/ \E r \in ReplayRequests : RequestDeadLetterReplay(r)
  \/ \E t \in Topics, i \in InstIds : Consume(t, i)

ProjectionSpec == ProjectionInit /\ [][ProjectionNext]_projectionVars

(* Workers and consumers keep running, and a database transaction ends.    *)
(* A consumer that waits for a row lock is served in its turn, however     *)
(* often requests take the lock.  Clients and administrators need not do   *)
(* anything.                                                               *)
ProjectionFairness ==
  /\ \A o \in OpIds : WF_projectionVars(Work(o))
  /\ \A q \in ReplayKeys : WF_projectionVars(ResolveReplay(q))
  /\ \A t \in Topics, i \in InstIds : SF_projectionVars(Consume(t, i))
  /\ \A h \in Handlers : WF_projectionVars(
       (ReserveIpv4Address(h) \/ WriteAcceptanceRecords(h) \/ AcceptResize(h)
          \/ AcceptSnapshotCreate(h) \/ Rollback(h))
       /\ UNCHANGED <<orchestratorVars, consumerVars, observedVars, log>>)

FairProjectionSpec == ProjectionSpec /\ ProjectionFairness

-----------------------------------------------------------------------------
(* An operation reads as its last event says: however often an event is    *)
(* delivered and whatever other operations did in between, it takes effect *)
(* once and in its order.                                                  *)
LastEventSays(o) ==
  LET l == log["events"][operations[o].inst]
      mine == {k \in 1 .. handled["events"][operations[o].inst] :
                 l[k].op = o /\ l[k].kind # "resolved"}
  IN IF mine = {} THEN "accepted"
     ELSE CASE l[Max(mine)].kind = "progress" -> "running"
            [] l[Max(mine)].kind = "completed" -> "succeeded"
            [] OTHER -> l[Max(mine)].kind

OperationIsItsLastEvent ==
  \A o \in DOMAIN operations : operations[o].state = LastEventSays(o)

(* Acceptance, orchestrator and projection together keep one mutating      *)
(* workflow to an instance (SAFE-010), until something of it is replayed:  *)
(* the instance is not released before its workflow has ended.             *)
OneWorkflowUnlessReplayed ==
  \A i \in DOMAIN instances :
    LET its == {o \in DOMAIN operations : operations[o].inst = i} IN
    (\A o \in its : generation[o] = 0)
      => Cardinality({o \in its : status[o] = "running"}) <= 1

(* The document of an instance disagrees with its row only while a         *)
(* retention or a purge waits for its first event: acceptance writes the   *)
(* new lifecycle to the row alone.                                         *)
DocumentsFollowRows ==
  \A i \in DOMAIN instances :
    /\ docs[i].active = instances[i].active
    /\ docs[i].life # instances[i].life =>
         /\ instances[i].life \in {"deleting", "purge_pending"}
         /\ operations[instances[i].active].state = "accepted"

(* An instance does not stay busy with an operation for ever, unless the   *)
(* operation's command was dead-lettered, which the administrator is shown.*)
BusyWith(i, o) == i \in DOMAIN instances /\ instances[i].active = o
InstanceNotLeftBusy ==
  \A i \in InstIds, o \in OpIds :
    BusyWith(i, o) ~> (~BusyWith(i, o) \/ letters[o] # "none")

(* A replay request that was accepted is answered.                         *)
ReplayIsAnswered ==
  \A q \in ReplayKeys : (replays[q].status = "accepted")
                          ~> (replays[q].status \in {"completed", "rejected"})
=============================================================================
