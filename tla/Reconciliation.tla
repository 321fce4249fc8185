--------------------------- MODULE Reconciliation ---------------------------
(***************************************************************************)
(* The reconciler: apps/reconciler/src/app/reconciliation-worker.ts on     *)
(* packages/postgres-adapter/src/reconciliation-store.ts, composed with    *)
(* Projection.  A sweep claims the rows reconciled longest ago and then,   *)
(* outside that transaction, observes them one at a time.  What the        *)
(* provider answers is left free.                                          *)
(***************************************************************************)
EXTENDS Projection
LOCAL INSTANCE SequencesExt

CONSTANTS
  BatchSize,    \* BATCH_SIZE
  Observations, \* answers of ObserveInstance; cpu and disk 0 when not reported,
                \* otherMemory when reported and not the desired one
  MaxFindings,  \* bound on the drift events of an instance
  MaxAsked      \* bound on the reconciliations an administrator asks for

VARIABLES
  batch,    \* candidates of the current sweep still to be observed
  asked,    \* how often an administrator asked for a reconciliation
  findings, \* the reconciliation.events topic, by instance
  shown     \* findings with an inbox receipt, by instance

reconciliationVars == <<projectionVars, batch, asked, findings, shown>>

-----------------------------------------------------------------------------
(* classifyDrift: the order of the cases is the order of the code.         *)
ClassifyDrift(c, seen) ==
  CASE seen.exists /\ ~seen.match -> "identity_mismatch"
    [] ~seen.exists -> IF c.purged THEN "none" ELSE "missing_resource"
    [] seen.exists /\ seen.match /\ seen.power = "unknown" -> "ambiguous"
    [] seen.exists /\ seen.match /\ seen.power # "unknown" ->
         IF c.power \notin {"unchanged", seen.power} THEN "power_drift"
         ELSE IF \/ (seen.cpu # 0 /\ seen.cpu # c.cpu) \/ seen.otherMemory
                 \/ (seen.disk # 0 /\ seen.disk < c.disk)
         THEN "network_drift" ELSE "none"

(* A workflow row of the instance names its provider resource.             *)
HasResource(i) == \E o \in known : operations[o].inst = i

Unstamped == DOMAIN instances \ {stamped[k] : k \in DOMAIN stamped}

(* Rows the claim's query may return, and the position they are ordered by.*)
Eligible == {i \in Unstamped \cup stale :
               instances[i].life \notin {"purged", "pending"} /\ ~RowLocked(i)}
Age(i) == IF i \in Unstamped THEN 0
          ELSE CHOOSE k \in DOMAIN stamped : stamped[k] = i

(* The rows a LIMIT keeps: no row left out is older than one kept.         *)
OldestFirst(rows) ==
  /\ Cardinality(rows) = Min({BatchSize, Cardinality(Eligible)})
  /\ \A i \in rows, j \in Eligible \ rows : Age(i) <= Age(j)

CandidateOf(i) == [inst |-> i, purged |-> instances[i].life = "purged",
                   power |-> instances[i].power, cpu |-> instances[i].cpu,
                   disk |-> instances[i].disk]

(* Rows of one claim have one time: their order is not determined.         *)
StampClaim(claimed) ==
  /\ \E order \in SetToSeqs(claimed) :
       stamped' = SelectSeq(stamped, LAMBDA i : i \notin claimed) \o order
  /\ stale' = stale \ claimed

(* Rows without a provider resource are dropped after the LIMIT, and are   *)
(* not stamped.                                                            *)
ClaimStaleInstances ==
  /\ batch = {}
  /\ \E rows \in SUBSET Eligible :
       /\ OldestFirst(rows)
       /\ LET claimed == {i \in rows : HasResource(i)} IN
          /\ StampClaim(claimed)
          /\ batch' = {CandidateOf(i) : i \in claimed}
  /\ UNCHANGED <<acceptVars, orchestratorVars, consumerVars, log, drift, asked, findings, shown>>

RecordObservation(c, seen) ==
  LET i == c.inst class == ClassifyDrift(c, seen) IN
  /\ c \in batch
  /\ ~RowLocked(i)
  /\ class # "none" => Len(findings[i]) < MaxFindings
  /\ drift' = [drift EXCEPT ![i] = class]
  /\ Restamp(i)
  /\ findings' = IF class = "none" THEN findings
                  ELSE [findings EXCEPT ![i] = Append(@, class)]
  /\ batch' = batch \ {c}
  /\ UNCHANGED <<acceptVars, orchestratorVars, consumerVars, log, asked, shown>>

(* The administrator's request: last_reconciled_at is cleared, so that the *)
(* row is at the head of the order.                                        *)
requestReconciliation(i) ==
  /\ i \in DOMAIN instances /\ asked < MaxAsked
  /\ ~RowLocked(i)
  /\ asked' = asked + 1
  /\ stamped' = SelectSeq(stamped, LAMBDA j : j # i)
  /\ stale' = stale \ {i}
  /\ UNCHANGED <<acceptVars, orchestratorVars, consumerVars, log, drift, batch,
                 findings, shown>>

(* The provider does not answer, or the process stops in mid-sweep: the    *)
(* candidate is passed over.                                               *)
ObservationFails(c) ==
  /\ c \in batch
  /\ batch' = batch \ {c}
  /\ UNCHANGED <<projectionVars, asked, findings, shown>>

(* The Control API's consumer of that topic: the classification is all it  *)
(* writes.                                                                 *)
ApplyDriftEvent(i) ==
  /\ shown[i] < Len(findings[i])
  /\ shown' = [shown EXCEPT ![i] = @ + 1]
  /\ docs' = [docs EXCEPT ![i].drift = findings[i][shown[i] + 1]]
  /\ UNCHANGED <<instances, operations, leases, snapshots, idem, tx,
                 orchestratorVars, consumerVars, observedVars, log, batch, asked, findings>>

(* Time: the oldest fresh stamp turns stale.                               *)
TurnsStale ==
  /\ \E k \in DOMAIN stamped :
       /\ stamped[k] \notin stale
       /\ \A j \in 1 .. k - 1 : stamped[j] \in stale
       /\ stale' = stale \cup {stamped[k]}
  /\ UNCHANGED <<acceptVars, orchestratorVars, consumerVars, log, drift, stamped,
                 batch, asked, findings, shown>>

Reconcile ==
  \/ \E c \in batch : ObservationFails(c)
                      \/ \E seen \in Observations : RecordObservation(c, seen)

ReconciliationInit ==
  /\ ProjectionInit
  /\ batch = {} /\ asked = 0
  /\ findings = [i \in InstIds |-> << >>] /\ shown = [i \in InstIds |-> 0]

ReconciliationNext ==
  \/ ProjectionNext /\ UNCHANGED <<batch, asked, findings, shown>>
  \/ ClaimStaleInstances
  \/ Reconcile
  \/ \E i \in InstIds : ApplyDriftEvent(i) \/ requestReconciliation(i)
  \/ TurnsStale

ReconciliationSpec == ReconciliationInit /\ [][ReconciliationNext]_reconciliationVars

(* The sweep is rescheduled whatever it ran into, and time passes.  Row    *)
(* locks last for milliseconds and a sweep comes every thirty seconds: it  *)
(* does not find the same row locked every time.                           *)
FairReconciliationSpec ==
  /\ ReconciliationSpec
  /\ ProjectionFairness
  /\ SF_reconciliationVars(ClaimStaleInstances)
  /\ SF_reconciliationVars(Reconcile)
  /\ WF_reconciliationVars(TurnsStale)
  /\ \A i \in InstIds : WF_reconciliationVars(ApplyDriftEvent(i))

-----------------------------------------------------------------------------
(* An instance with a provider resource whose reconciliation is due.       *)
Due(i) == /\ i \in DOMAIN instances
          /\ instances[i].life \notin {"purged", "pending"}
          /\ HasResource(i)
          /\ i \in Unstamped \cup stale

(* Every managed instance is reconciled again and again (SRS-FR-069),      *)
(* whichever others cannot be observed.                                    *)
ManagedInstancesAreReconciled == \A i \in InstIds : Due(i) ~> ~Due(i)
=============================================================================
