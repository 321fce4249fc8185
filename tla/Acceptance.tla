----------------------------- MODULE Acceptance -----------------------------
(***************************************************************************)
(* The Control API's write side: the acceptance transactions of            *)
(* packages/postgres-adapter/src/control-plane-store.ts behind the checks  *)
(* of packages/application/src/control-plane.ts, with the rules of         *)
(* packages/domain they apply.  PostgreSQL runs them at READ COMMITTED:    *)
(* what a transaction read without a lock may be out of date when it       *)
(* commits.  A transaction that decides on rows it has not locked (the     *)
(* sums of a quota check, the scan for a free address) is therefore taken  *)
(* apart at its reads; one that only touches a row it has locked is one    *)
(* action.  A refused request changes nothing and is not an action, nor is *)
(* the answer to a repeated one, which is read from its record.  Requests  *)
(* arrive by the two transports of module ControlApi.                      *)
(*                                                                         *)
(* An accepted operation is carried out elsewhere.  Here its events are    *)
(* applied to the tables in the order progress, outcome; module Projection *)
(* puts the event pipeline in between.                                     *)
(***************************************************************************)
EXTENDS ControlApi, Integers, FiniteSets, FiniteSetsExt

CONSTANTS
  Handlers,        \* database connections serving requests
  Projects,
  Keys,            \* idempotency keys of an admissible length
  Images,          \* [enabled, active (its provider profile), net]
  Flavors,         \* [enabled, cpu, disk]: memory is bounded as cpu is
  Pools,           \* by network: [hosts, reserved], offsets into its CIDR block
  Quotas,          \* by project: [instances, cpu, disk, ipv4, snapshots]
  ReleaseOnRetain  \* the retention policy's lease_release_mode

Kinds == {"create_instance", "power_instance", "resize_instance",
          "create_snapshot", "rollback_snapshot", "delete_snapshot",
          "retain_instance", "purge_instance"}
SnapshotKinds == {"create_snapshot", "rollback_snapshot", "delete_snapshot"}

(* The catalog an administrator maintains; a project or a network that is  *)
(* not enabled is not in it.  A profile's state goes with its images.      *)
ImageTable == [enabled : BOOLEAN, active : BOOLEAN, net : DOMAIN Pools]
FlavorTable == [enabled : BOOLEAN, cpu : Nat, disk : Nat]
NetworkTable == [hosts : Nat, reserved : SUBSET Nat]
QuotaTable == [instances : Nat, cpu : Nat, disk : Nat, ipv4 : Nat, snapshots : Nat]

(* What the wire types give: keys are a list, a disk size is unsigned.     *)
ASSUME AcceptanceAssumption ==
  /\ \A r \in Requests :
       /\ r.kind \in Kinds
       /\ r.kind = "create_instance" /\ r.keys # None => r.keys \in Seq(Range(r.keys))
       /\ r.kind = "resize_instance" => r.disk \in Nat \cup {None}
  /\ None \notin Seq(SshKeys)
  /\ None \notin Keys \cup Names
  /\ \A i \in DOMAIN Images : Images[i] \in ImageTable
  /\ \A f \in DOMAIN Flavors : Flavors[f] \in FlavorTable
  /\ \A n \in DOMAIN Pools : Pools[n] \in NetworkTable
  /\ Quotas \in [Projects -> QuotaTable]
  /\ ReleaseOnRetain \in BOOLEAN
  /\ None \notin Requests /\ None \notin Projects

(* The connection pool and the catalog are finite and not empty.           *)
ASSUME PoolAssumption ==
  /\ IsFiniteSet(Handlers) /\ Handlers # {}
  /\ IsFiniteSet(DOMAIN Flavors) /\ DOMAIN Flavors # {}

VARIABLES
  instances,   \* control.instances; an instance is named by its position
  docs,        \* projection.instances, position by position
  operations,  \* control.operations, projection.operations and the command each
               \* published; an operation is named by its position
  leases,      \* control.ipv4_leases: the one lease of each instance
  snapshots,   \* control.snapshots and projection.snapshots, by position
  idem,        \* control.idempotency_records
  tx           \* the open transaction of each handler

acceptVars == <<instances, docs, operations, leases, snapshots, idem, tx>>

-----------------------------------------------------------------------------
Lifecycles == {"pending", "provisioning", "active", "failed", "deleting",
               "retained", "purge_pending", "purged", "manual_review"}
Ended == {"succeeded", "failed", "manual_review"}
OperationStates == {"accepted", "running"} \cup Ended
(* "deleted" stands for a row that is no longer there.                     *)
SnapshotStates == {"creating", "available", "rolling_back", "deleting", "deleted"}
Transitional == {"creating", "rolling_back", "deleting"}
IdleTx == [phase |-> "idle", req |-> None, hash |-> None, addr |-> 0]
Opened(r, hash) == [phase |-> "checked", req |-> r, hash |-> hash, addr |-> 0]

Init ==
  /\ instances = << >> /\ docs = << >> /\ operations = << >>
  /\ leases = << >> /\ snapshots = << >>
  /\ idem = {}
  /\ tx = [h \in Handlers |-> IdleTx]

-----------------------------------------------------------------------------
(* control-plane.ts: what is checked before a transaction is opened, one   *)
(* operator per method, with the rules of the domain package they call.    *)

authorize(r) == "tenant_developer" \in r.actor.roles /\ r.project \in r.actor.projects
authorizeAdministrator(r) == "platform_administrator" \in r.actor.roles
assertIdempotencyKey(r) == r.key \in Keys

validateCreateInstance(r) ==
  /\ r.name \in Names
  /\ r.keys # None => /\ Len(r.keys) <= 5 /\ IsInjective(r.keys)
                      /\ Range(r.keys) \subseteq SshKeys
validateSnapshotName(r) == r.name \in Names
validatePowerAction(r) == r.action \in {"start", "shutdown", "stop", "reboot"}

createInstance(r) ==
  /\ r.kind = "create_instance"
  /\ authorize(r) /\ assertIdempotencyKey(r) /\ validateCreateInstance(r)

mutateInstancePower(r) ==
  /\ r.kind = "power_instance"
  /\ authorize(r) /\ assertIdempotencyKey(r) /\ validatePowerAction(r)

resizeInstance(r) ==
  r.kind = "resize_instance" /\ authorize(r) /\ assertIdempotencyKey(r)

createSnapshot(r) ==
  /\ r.kind = "create_snapshot"
  /\ authorize(r) /\ assertIdempotencyKey(r) /\ validateSnapshotName(r)

snapshotAction(r) ==
  /\ r.kind \in {"rollback_snapshot", "delete_snapshot"}
  /\ authorize(r) /\ assertIdempotencyKey(r)

retainInstance(r) ==
  r.kind = "retain_instance" /\ authorize(r) /\ assertIdempotencyKey(r)

purgeInstance(r) ==
  /\ r.kind = "purge_instance"
  /\ authorizeAdministrator(r) /\ assertIdempotencyKey(r) /\ r.reason \in Reasons

(* mutant: the keys are hashed as the transport passed them on. *)
KeysAsSent(r) == r.keys

(* Sorted, so that their order is no part of the request; left out is none.*)
HashedKeys(r) == IF r.keys = None THEN {} ELSE Range(r.keys)

(* What the canonical hash of a request covers.                            *)
requestHash(r) ==
  CASE r.kind = "create_instance" ->
         <<r.actor.subject, r.project, r.kind, r.image, r.flavor, r.net, r.name,
           HashedKeys(r)>>
    [] r.kind = "resize_instance" ->
         <<r.actor.subject, r.project, r.kind, r.inst, r.flavor, r.disk>>
    [] r.kind = "power_instance" ->
         <<r.actor.subject, r.project, r.kind, r.inst, r.action>>
    [] r.kind = "create_snapshot" ->
         <<r.actor.subject, r.project, r.kind, r.inst, r.name>>
    [] r.kind \in {"rollback_snapshot", "delete_snapshot"} ->
         <<r.actor.subject, r.project, r.kind, r.inst, r.snap>>
    [] r.kind = "retain_instance" -> <<r.actor.subject, r.project, r.kind, r.inst>>
    [] r.kind = "purge_instance" -> <<r.actor.subject, r.kind, r.inst>>

(* The command a create's input becomes: keys left out are no keys.        *)
CreateInstanceCommand(r) ==
  [r EXCEPT !.keys = IF r.keys = None THEN << >> ELSE r.keys]

-----------------------------------------------------------------------------
(* Idempotency.                                                            *)

(* The scope a request is looked up and locked under.                      *)
Scope(r) ==
  <<r.actor.subject, IF r.kind = "purge_instance" THEN None ELSE r.project,
    r.kind, r.key>>

(* Its record, inserted with the operation.                                *)
IdempotencyRecord(r, hash, o) == [scope |-> Scope(r), hash |-> hash, op |-> o]

Recorded(r) == \E e \in idem : e.scope = Scope(r)

(* The advisory lock, held to the end of the transaction.                  *)
ScopeLocked(r) == \E h \in Handlers : /\ tx[h].phase # "idle"
                                      /\ Scope(tx[h].req) = Scope(r)

(* A request that is not answered.  One whose scope has a record is        *)
(* answered from it, or refused when the record has another hash; nothing  *)
(* looks at the record's expiry.                                           *)
Fresh(r) == ~ScopeLocked(r) /\ ~Recorded(r)

-----------------------------------------------------------------------------
(* The instance guard.                                                     *)

MutableLifecycleStates == {"active", "failed"}

(* The row lock of a transaction that has not ended.                       *)
RowLocked(i) == \E h \in Handlers : /\ tx[h].phase # "idle"
                                    /\ tx[h].req.kind # "create_instance"
                                    /\ tx[h].req.inst = i

LockInstanceForMutation(r) ==
  /\ r.inst \in DOMAIN instances
  /\ instances[r.inst].project = r.project
  /\ ~RowLocked(r.inst)
  /\ instances[r.inst].active = 0
  /\ instances[r.inst].life \in MutableLifecycleStates

-----------------------------------------------------------------------------
(* Quota.                                                                  *)

Counted(p) == {i \in DOMAIN instances :
                 instances[i].project = p /\ instances[i].life # "purged"}
CpuUsed(p) == MapThenSumSet(LAMBDA i : instances[i].cpu, Counted(p))
DiskUsed(p) == MapThenSumSet(LAMBDA i : instances[i].disk, Counted(p))
SnapshotsUsed(p) ==
  Cardinality({s \in DOMAIN snapshots :
                 /\ instances[snapshots[s].inst].project = p
                 /\ snapshots[s].state # "deleted"})

(* mutant: the new instance is not added to what is used. *)
HeadroomForUsed(r) ==
  /\ Cardinality(Counted(r.project)) <= Quotas[r.project].instances
  /\ CpuUsed(r.project) <= Quotas[r.project].cpu
  /\ DiskUsed(r.project) <= Quotas[r.project].disk

AssertQuotaHeadroom(r) ==
  LET f == Flavors[r.flavor] q == Quotas[r.project] IN
  /\ Cardinality(Counted(r.project)) + 1 <= q.instances
  /\ CpuUsed(r.project) + f.cpu <= q.cpu
  /\ DiskUsed(r.project) + f.disk <= q.disk

(* The sizing a resize asks for.                                           *)
ResizeTarget(i, r) ==
  [cpu |-> Flavors[r.flavor].cpu,
   disk |-> Max({instances[i].disk, Flavors[r.flavor].disk,
                 IF r.disk = None THEN 0 ELSE r.disk})]

(* validateResize, on the disk asked for and not the computed maximum.     *)
ValidateResize(i, r) ==
  LET wanted == IF r.disk = None THEN ResizeTarget(i, r).disk ELSE r.disk IN
  /\ wanted >= instances[i].disk
  /\ \/ ResizeTarget(i, r).cpu # instances[i].cpu
     \/ wanted # instances[i].disk

AssertResizeQuotaHeadroom(i, r) ==
  LET t == ResizeTarget(i, r) IN
  /\ CpuUsed(r.project) - instances[i].cpu + t.cpu <= Quotas[r.project].cpu
  /\ DiskUsed(r.project) - instances[i].disk + t.disk <= Quotas[r.project].disk

AssertSnapshotHeadroom(p) == SnapshotsUsed(p) + 1 <= Quotas[p].snapshots

-----------------------------------------------------------------------------
(* IPv4 addresses.                                                         *)

(* The leases that keep an address from being allocated.                   *)
Taken(n) == {leases[i].addr : i \in {j \in DOMAIN leases :
               leases[j].net = n /\ leases[j].state \in {"active", "quarantined"}}}

(* The partial unique index on (network, address).                         *)
IndexAllows(n, a) ==
  \A i \in DOMAIN leases : leases[i].net = n /\ leases[i].addr = a
                             => leases[i].state = "released"

(* Neither the network address nor the broadcast address nor one held back *)
(* for the gateway or by an exclusion.                                     *)
Assignable(n) == {a \in 1 .. Pools[n].hosts - 2 : a \notin Pools[n].reserved}

AllocateIpv4(n) == Min(Assignable(n) \ Taken(n))

(* mutant: the network's advisory lock is not taken. *)
NoNetworkLock(n) == FALSE

NetworkLocked(n) == \E h \in Handlers : /\ tx[h].phase = "reserved"
                                        /\ tx[h].req.net = n

-----------------------------------------------------------------------------
(* The writes all acceptances share.                                       *)

NewOp(r, i, s) == [req |-> r, inst |-> i, snap |-> s, state |-> "accepted"]
ThisOp == Len(operations) + 1

(* The operation with its command, the idempotency record, and the busy    *)
(* marker on the read model.                                               *)
WriteOperation(r, hash, i, s) ==
  /\ operations' = Append(operations, NewOp(r, i, s))
  /\ idem' = idem \cup {IdempotencyRecord(r, hash, ThisOp)}
MarkInstanceBusy(i) == docs' = [docs EXCEPT ![i].active = ThisOp]

-----------------------------------------------------------------------------
(* acceptCreate, taken apart at its two unlocked reads.                    *)

LoadAcceptanceContext(r) ==
  /\ r.project \in Projects
  /\ r.image \in DOMAIN Images /\ Images[r.image].enabled /\ Images[r.image].active
  /\ r.flavor \in DOMAIN Flavors /\ Flavors[r.flavor].enabled
  /\ r.net \in DOMAIN Pools
  /\ Images[r.image].net = r.net

BeginCreate(h, r) ==
  /\ tx[h].phase = "idle" /\ createInstance(r)
  /\ Fresh(r)
  /\ LoadAcceptanceContext(r)
  /\ AssertQuotaHeadroom(r)
  /\ tx' = [tx EXCEPT ![h] = Opened(CreateInstanceCommand(r), requestHash(r))]
  /\ UNCHANGED <<instances, docs, operations, leases, snapshots, idem>>

(* The quota compared is the project's, what is counted the network's.     *)
ReserveIpv4Address(h) ==
  LET r == tx[h].req IN
  /\ tx[h].phase = "checked" /\ r.kind = "create_instance"
  /\ ~NetworkLocked(r.net)
  /\ Cardinality(Taken(r.net)) + 1 <= Quotas[r.project].ipv4
  /\ Assignable(r.net) \ Taken(r.net) # {}
  /\ tx' = [tx EXCEPT ![h].phase = "reserved", ![h].addr = AllocateIpv4(r.net)]
  /\ UNCHANGED <<instances, docs, operations, leases, snapshots, idem>>

NewInstance(r) ==
  [project |-> r.project, cpu |-> Flavors[r.flavor].cpu,
   disk |-> Flavors[r.flavor].disk, power |-> "running", life |-> "pending",
   active |-> ThisOp, deadline |-> "none"]

WriteAcceptanceRecords(h) ==
  LET r == tx[h].req i == Len(instances) + 1 IN
  /\ tx[h].phase = "reserved"
  /\ IndexAllows(r.net, tx[h].addr)
  /\ \A e \in idem : e.scope # Scope(r)
  /\ instances' = Append(instances, NewInstance(r))
  /\ docs' = Append(docs, [life |-> "pending", active |-> ThisOp, drift |-> "none"])
  /\ leases' = Append(leases, [net |-> r.net, addr |-> tx[h].addr, state |-> "active"])
  /\ WriteOperation(r, tx[h].hash, i, 0)
  /\ tx' = [tx EXCEPT ![h] = IdleTx]
  /\ UNCHANGED snapshots

(* A refusal after the first read, a failed statement, a lost connection:  *)
(* the transaction is rolled back and its locks are gone.                  *)
Rollback(h) ==
  /\ tx[h].phase # "idle"
  /\ tx' = [tx EXCEPT ![h] = IdleTx]
  /\ UNCHANGED <<instances, docs, operations, leases, snapshots, idem>>

-----------------------------------------------------------------------------
(* Mutations of an existing instance.                                      *)

AcceptPowerAction(r) ==
  /\ mutateInstancePower(r)
  /\ Fresh(r) /\ LockInstanceForMutation(r)
  /\ instances' = [instances EXCEPT ![r.inst].active = ThisOp,
       ![r.inst].power = IF r.action \in {"start", "reboot"} THEN "running" ELSE "stopped"]
  /\ MarkInstanceBusy(r.inst)
  /\ WriteOperation(r, requestHash(r), r.inst, 0)
  /\ UNCHANGED <<leases, snapshots, tx>>

(* Resize and snapshot creation add up rows they have not locked.          *)
BeginResize(h, r) ==
  /\ tx[h].phase = "idle" /\ resizeInstance(r)
  /\ Fresh(r) /\ LockInstanceForMutation(r)
  /\ r.flavor \in DOMAIN Flavors /\ Flavors[r.flavor].enabled
  /\ ValidateResize(r.inst, r)
  /\ AssertResizeQuotaHeadroom(r.inst, r)
  /\ tx' = [tx EXCEPT ![h] = Opened(r, requestHash(r))]
  /\ UNCHANGED <<instances, docs, operations, leases, snapshots, idem>>

AcceptResize(h) ==
  LET r == tx[h].req t == ResizeTarget(r.inst, r) IN
  /\ tx[h].phase = "checked" /\ r.kind = "resize_instance"
  /\ instances' = [instances EXCEPT ![r.inst].active = ThisOp,
                     ![r.inst].cpu = t.cpu, ![r.inst].disk = t.disk]
  /\ MarkInstanceBusy(r.inst)
  /\ WriteOperation(r, tx[h].hash, r.inst, 0)
  /\ tx' = [tx EXCEPT ![h] = IdleTx]
  /\ UNCHANGED <<leases, snapshots>>

BeginSnapshotCreate(h, r) ==
  /\ tx[h].phase = "idle" /\ createSnapshot(r)
  /\ Fresh(r) /\ LockInstanceForMutation(r)
  /\ AssertSnapshotHeadroom(r.project)
  /\ \A s \in DOMAIN snapshots :
       snapshots[s].inst = r.inst /\ snapshots[s].name = r.name
         => snapshots[s].state = "deleted"
  /\ tx' = [tx EXCEPT ![h] = Opened(r, requestHash(r))]
  /\ UNCHANGED <<instances, docs, operations, leases, snapshots, idem>>

AcceptSnapshotCreate(h) ==
  LET r == tx[h].req IN
  /\ tx[h].phase = "checked" /\ r.kind = "create_snapshot"
  /\ snapshots' = Append(snapshots,
       [inst |-> r.inst, name |-> r.name, state |-> "creating"])
  /\ instances' = [instances EXCEPT ![r.inst].active = ThisOp]
  /\ MarkInstanceBusy(r.inst)
  /\ WriteOperation(r, tx[h].hash, r.inst, Len(snapshots) + 1)
  /\ tx' = [tx EXCEPT ![h] = IdleTx]
  /\ UNCHANGED leases

AcceptSnapshotAction(r) ==
  /\ snapshotAction(r)
  /\ Fresh(r) /\ LockInstanceForMutation(r)
  /\ r.snap \in DOMAIN snapshots
  /\ snapshots[r.snap].inst = r.inst
  /\ snapshots[r.snap].state = "available"
  /\ snapshots' = [snapshots EXCEPT ![r.snap].state =
       IF r.kind = "rollback_snapshot" THEN "rolling_back" ELSE "deleting"]
  /\ instances' = [instances EXCEPT ![r.inst].active = ThisOp]
  /\ MarkInstanceBusy(r.inst)
  /\ WriteOperation(r, requestHash(r), r.inst, r.snap)
  /\ UNCHANGED <<leases, tx>>

(* mutant: the address goes back to the pool whatever the policy. *)
ReleasedLease(l) == [l EXCEPT !.state = "released"]

(* What acceptRetention does to the instance's lease.                      *)
RetainedLease(l) ==
  IF l.state # "active" THEN l
  ELSE [l EXCEPT !.state = IF ReleaseOnRetain THEN "released" ELSE "quarantined"]

(* The lifecycle is written to the table and not to the document.          *)
AcceptRetention(r) ==
  /\ retainInstance(r)
  /\ Fresh(r) /\ LockInstanceForMutation(r)
  /\ instances' = [instances EXCEPT ![r.inst].active = ThisOp,
                     ![r.inst].life = "deleting", ![r.inst].deadline = "running"]
  /\ leases' = [leases EXCEPT ![r.inst] = RetainedLease(@)]
  /\ MarkInstanceBusy(r.inst)
  /\ WriteOperation(r, requestHash(r), r.inst, 0)
  /\ UNCHANGED <<snapshots, tx>>

(* mutant: an instance that was never retained may be purged. *)
PurgeableUnlessBusy(i) ==
  /\ instances[i].active = 0
  /\ instances[i].life \in {"retained", "active"}
  /\ instances[i].deadline # "running"

Purgeable(i) ==
  /\ instances[i].active = 0
  /\ instances[i].life = "retained"
  /\ instances[i].deadline = "passed"

AcceptPurge(r) ==
  /\ purgeInstance(r)
  /\ r.confirm = r.inst
  /\ Fresh(r)
  /\ r.inst \in DOMAIN instances /\ ~RowLocked(r.inst)
  /\ Purgeable(r.inst)
  /\ instances' = [instances EXCEPT ![r.inst].active = ThisOp,
                                    ![r.inst].life = "purge_pending"]
  /\ MarkInstanceBusy(r.inst)
  /\ WriteOperation(r, requestHash(r), r.inst, 0)
  /\ UNCHANGED <<leases, snapshots, tx>>

(* Time: the retention deadline of an instance is reached.                 *)
DeadlinePasses(i) ==
  /\ instances[i].deadline = "running"
  /\ instances' = [instances EXCEPT ![i].deadline = "passed"]
  /\ UNCHANGED <<docs, operations, leases, snapshots, idem, tx>>

Accept ==
  \/ \E h \in Handlers, r \in Requests :
       BeginCreate(h, r) \/ BeginResize(h, r) \/ BeginSnapshotCreate(h, r)
  \/ \E h \in Handlers :
       \/ ReserveIpv4Address(h) \/ WriteAcceptanceRecords(h)
       \/ AcceptResize(h) \/ AcceptSnapshotCreate(h) \/ Rollback(h)
  \/ \E r \in Requests :
       \/ AcceptPowerAction(r) \/ AcceptSnapshotAction(r)
       \/ AcceptRetention(r) \/ AcceptPurge(r)
  \/ \E i \in DOMAIN instances : DeadlinePasses(i)

-----------------------------------------------------------------------------
(* What an event of the orchestrator does to the tables (projection-store).*)
(* The instance's row lock keeps it behind an open acceptance.             *)

(* Both documents, in the transaction that also updates the rows.          *)
writeDocuments(o, state, doc) ==
  /\ operations' = [operations EXCEPT ![o].state = state]
  /\ docs' = [docs EXCEPT ![operations[o].inst] = doc]

(* mutant: every event of an operation releases its instance. *)
ProgressReleases(o) ==
  LET i == operations[o].inst IN
  /\ ~RowLocked(i)
  /\ instances' = [instances EXCEPT ![i].life = "active", ![i].active = 0]
  /\ writeDocuments(o, "running", [docs[i] EXCEPT !.life = "active", !.active = 0])
  /\ UNCHANGED <<leases, snapshots, idem, tx>>

ApplyProgress(o) ==
  LET i == operations[o].inst IN
  /\ ~RowLocked(i)
  /\ instances' = [instances EXCEPT ![i].life = "provisioning"]
  /\ writeDocuments(o, "running", [docs[i] EXCEPT !.life = "provisioning"])
  /\ UNCHANGED <<leases, snapshots, idem, tx>>

(* mutant: the event's action is taken for its lifecycle state. *)
ActionAsLifecycle(kind) == kind

(* The lifecycle an executor reports with its success.                     *)
LifecycleAfter(kind) ==
  CASE kind = "retain_instance" -> "retained"
    [] kind = "purge_instance" -> "purged"
    [] OTHER -> "active"

(* mutant: a completed creation leaves its snapshot as it was. *)
SettleOthers(o) ==
  LET s == operations[o].snap kind == operations[o].req.kind IN
  IF s = 0 \/ kind = "create_snapshot" THEN snapshots
  ELSE [snapshots EXCEPT ![s].state =
          IF kind = "delete_snapshot" THEN "deleted" ELSE "available"]

SettleSnapshot(o) ==
  LET s == operations[o].snap kind == operations[o].req.kind IN
  IF s = 0 THEN snapshots
  ELSE [snapshots EXCEPT ![s].state =
          IF kind = "delete_snapshot" THEN "deleted" ELSE "available"]

ApplyCompleted(o) ==
  LET i == operations[o].inst
      life == LifecycleAfter(operations[o].req.kind)
  IN /\ ~RowLocked(i)
     /\ instances' = [instances EXCEPT ![i].life = life, ![i].active = 0]
     /\ writeDocuments(o, "succeeded", [life |-> life, active |-> 0, drift |-> "none"])
     /\ snapshots' = SettleSnapshot(o)
     /\ UNCHANGED <<leases, idem, tx>>

(* mutant: the failure is written to the row and not to the document. *)
FailedRowOnly(o, state) ==
  LET i == operations[o].inst IN
  /\ ~RowLocked(i)
  /\ instances' = [instances EXCEPT ![i].life = state, ![i].active = 0]
  /\ writeDocuments(o, state, [docs[i] EXCEPT !.active = 0])
  /\ UNCHANGED <<leases, snapshots, idem, tx>>

(* A failure frees the instance and leaves a snapshot as it was.           *)
ApplyFailed(o, state) ==
  LET i == operations[o].inst IN
  /\ ~RowLocked(i)
  /\ instances' = [instances EXCEPT ![i].life = state, ![i].active = 0]
  /\ writeDocuments(o, state, [docs[i] EXCEPT !.life = state, !.active = 0])
  /\ UNCHANGED <<leases, snapshots, idem, tx>>

CarryOut(o) ==
  \/ operations[o].state = "accepted" /\ ApplyProgress(o)
  \/ operations[o].state = "running" /\ ApplyCompleted(o)
  \/ operations[o].state = "running"
       /\ \E state \in {"failed", "manual_review"} : ApplyFailed(o, state)

Next == Accept \/ \E o \in DOMAIN operations : CarryOut(o)

Spec == Init /\ [][Next]_acceptVars

-----------------------------------------------------------------------------
(* The commands an accepted operation may carry out: only what passed its  *)
(* checks.                                                                 *)
Actors == UNION {authenticate(t) : t \in DOMAIN Tokens}

CreateInstanceCommands ==
  [kind : {"create_instance"}, actor : Actors, project : Projects, key : Keys,
   image : DOMAIN Images, flavor : DOMAIN Flavors, net : DOMAIN Pools, name : Names,
   keys : Seq(SshKeys)]
PowerInstanceCommands ==
  [kind : {"power_instance"}, actor : Actors, project : Projects, key : Keys,
   inst : DOMAIN instances, action : {"start", "shutdown", "stop", "reboot"}]
ResizeInstanceCommands ==
  [kind : {"resize_instance"}, actor : Actors, project : Projects, key : Keys,
   inst : DOMAIN instances, flavor : DOMAIN Flavors, disk : Nat \cup {None}]
CreateSnapshotCommands ==
  [kind : {"create_snapshot"}, actor : Actors, project : Projects, key : Keys,
   inst : DOMAIN instances, name : Names]
SnapshotActionCommands ==
  [kind : {"rollback_snapshot", "delete_snapshot"}, actor : Actors,
   project : Projects, key : Keys, inst : DOMAIN instances, snap : DOMAIN snapshots]
RetainInstanceCommands ==
  [kind : {"retain_instance"}, actor : Actors, project : Projects, key : Keys,
   inst : DOMAIN instances]
PurgeInstanceCommands ==
  [kind : {"purge_instance"}, actor : Actors, key : Keys, inst : DOMAIN instances,
   reason : Reasons, confirm : DOMAIN instances]

AcceptedCommands ==
  CreateInstanceCommands \cup PowerInstanceCommands \cup ResizeInstanceCommands
    \cup CreateSnapshotCommands \cup SnapshotActionCommands
    \cup RetainInstanceCommands \cup PurgeInstanceCommands

InstanceTable ==
  [project : Projects, cpu : Nat, disk : Nat, power : {"running", "stopped"},
   life : Lifecycles, active : 0 .. Len(operations),
   deadline : {"none", "running", "passed"}]
OperationTable ==
  [req : AcceptedCommands, inst : DOMAIN instances, snap : 0 .. Len(snapshots),
   state : OperationStates]
Ipv4LeaseTable ==
  [net : DOMAIN Pools, addr : Nat, state : {"active", "quarantined", "released"}]
SnapshotTable == [inst : DOMAIN instances, name : Names, state : SnapshotStates]
IdempotencyTable ==
  [scope : {Scope(r) : r \in Requests}, hash : {requestHash(r) : r \in Requests},
   op : DOMAIN operations]

(* The types of the tables and of the open transactions.  An operation has *)
(* a command of its capability's shape: what a transport left unchecked    *)
(* has been refused before anything was written.                           *)
ATypeOK ==
  /\ instances \in Seq(InstanceTable) /\ operations \in Seq(OperationTable)
  /\ leases \in Seq(Ipv4LeaseTable) /\ snapshots \in Seq(SnapshotTable)
  /\ idem \subseteq IdempotencyTable
  /\ Len(docs) = Len(instances) /\ Len(leases) = Len(instances)
  /\ \A i \in DOMAIN docs : docs[i].life \in Lifecycles
  /\ \A h \in Handlers : /\ tx[h].phase \in {"idle", "checked", "reserved"}
                         /\ tx[h] = IdleTx <=> tx[h].phase = "idle"

(* The same request, whichever transport carries it: the same fields, keys *)
(* left out or sent as none, and in any order.                             *)
SameRequest(r, q) ==
  /\ r.kind = q.kind
  /\ IF r.kind = "create_instance"
     THEN /\ [r EXCEPT !.keys = << >>] = [q EXCEPT !.keys = << >>]
          /\ Range(CreateInstanceCommand(r).keys) = Range(q.keys)
     ELSE r = q

(* A repeated request finds the operation it started, also when it comes   *)
(* back over the other transport: every operation has exactly the record   *)
(* that a retry will look up, so a retry neither starts a second operation *)
(* nor is refused as a conflict (SRS-FR-016).                              *)
RetryFindsItsOperation ==
  \A o \in DOMAIN operations, r \in Requests :
    SameRequest(r, operations[o].req) =>
      {e \in idem : e.scope = Scope(r)} = {IdempotencyRecord(r, requestHash(r), o)}

(* The advisory locks keep an open transaction's inserts from meeting the  *)
(* unique index on addresses or the primary key of the records: no work is *)
(* lost to a constraint violation, whatever commits in between.            *)
InsertsDoNotConflict ==
  \A h \in Handlers : tx[h].phase # "idle" =>
    /\ ~Recorded(tx[h].req)
    /\ tx[h].phase = "reserved" => IndexAllows(tx[h].req.net, tx[h].addr)

(* Two machines that may be answering on a network have two addresses, and *)
(* none has an address of the network itself (SAFE-023, SAFE-024).  A      *)
(* machine stops answering when it is purged; an instance that is retained *)
(* keeps its machine, and one whose retention failed its tenant too.       *)
AddressesDistinct ==
  \A i, j \in DOMAIN leases :
    /\ i # j /\ leases[i].net = leases[j].net /\ leases[i].addr = leases[j].addr
         => instances[i].life = "purged" \/ instances[j].life = "purged"
    /\ leases[i].addr \notin {0, Pools[leases[i].net].hosts - 1}
    /\ leases[i].addr \notin Pools[leases[i].net].reserved

(* Quota is summed without a lock, so transactions of one project that     *)
(* overlap may pass the limit together; the overrun stays within what the  *)
(* handlers other than the last had in hand.                               *)
QuotaOverrunBounded ==
  LET others == Cardinality(Handlers) - 1
      largestCpu == Max({Flavors[f].cpu : f \in DOMAIN Flavors})
  IN \A p \in Projects :
       /\ Cardinality(Counted(p)) <= Quotas[p].instances + others
       /\ CpuUsed(p) <= Quotas[p].cpu + others * largestCpu
       /\ SnapshotsUsed(p) <= Quotas[p].snapshots + others

(* A snapshot is in transition only on behalf of an operation that has not *)
(* succeeded: each success settles it.                                     *)
SnapshotsSettle ==
  \A s \in DOMAIN snapshots : snapshots[s].state \in Transitional =>
    \E o \in DOMAIN operations : operations[o].snap = s
                                 /\ operations[o].state # "succeeded"

(* An instance is purged only after it was retained and its deadline has   *)
(* passed, whichever requests and failures came before.                    *)
PurgedAfterRetention ==
  \A i \in DOMAIN instances : instances[i].life \in {"purge_pending", "purged"} =>
    /\ instances[i].deadline = "passed"
    /\ \E o \in DOMAIN operations : /\ operations[o].inst = i
                                    /\ operations[o].req.kind = "retain_instance"
                                    /\ operations[o].state = "succeeded"

=============================================================================
