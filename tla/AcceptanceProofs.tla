-------------------------- MODULE AcceptanceProofs --------------------------
(***************************************************************************)
(* What holds of Acceptance for any catalog, any quotas, any set of calls, *)
(* any number of handlers and any number of operations.                    *)
(***************************************************************************)
EXTENDS Acceptance, SequenceFacts, TLAPS, SequenceTheorems

Open(h) == tx[h].phase # "idle"
(* Everything but a create holds the row lock of an instance.              *)
HoldsRow(h) == Open(h) /\ tx[h].req.kind # "create_instance"
HoldsNetwork(h) == tx[h].phase = "reserved"
Unfinished(o) == operations[o].state \in {"accepted", "running"}
Retained(i) ==
  \E o \in DOMAIN operations : /\ operations[o].inst = i
                               /\ operations[o].req.kind = "retain_instance"
                               /\ operations[o].state = "succeeded"

-----------------------------------------------------------------------------
(* The inductive invariant, part by part.                                  *)

DocTable == [life : Lifecycles, active : 0 .. Len(operations), drift : {"none"}]
OpenCommands ==
  CreateInstanceCommands \cup ResizeInstanceCommands \cup CreateSnapshotCommands
OpenTransactions ==
  [phase : {"checked", "reserved"}, req : OpenCommands,
   hash : {requestHash(r) : r \in Requests}, addr : Nat]

(* The types of the tables, position by position.                          *)
TablesOK ==
  /\ instances \in Seq(InstanceTable) /\ docs \in Seq(DocTable)
  /\ operations \in Seq(OperationTable)
  /\ leases \in Seq(Ipv4LeaseTable) /\ snapshots \in Seq(SnapshotTable)
  /\ idem \subseteq IdempotencyTable
  /\ Len(docs) = Len(instances) /\ Len(leases) = Len(instances)

(* An open transaction carries the command it will write, with the hash    *)
(* and the scope of a request that was received.                           *)
TransactionsOK ==
  /\ tx \in [Handlers -> {IdleTx} \cup OpenTransactions]
  /\ \A h \in Handlers : Open(h) =>
       /\ Scope(tx[h].req) \in {Scope(r) : r \in Requests}
       /\ tx[h].hash = requestHash(tx[h].req)
       /\ HoldsNetwork(h) => /\ tx[h].req.kind = "create_instance"
                             /\ tx[h].addr \in Assignable(tx[h].req.net)

(* The locks exclude each other.                                           *)
ScopesHeldOnce ==
  \A g, h \in Handlers :
    g # h /\ Open(g) /\ Open(h) => Scope(tx[g].req) # Scope(tx[h].req)
NetworksHeldOnce ==
  \A g, h \in Handlers :
    g # h /\ HoldsNetwork(g) /\ HoldsNetwork(h) => tx[g].req.net # tx[h].req.net
RowsHeldOnce ==
  \A g, h \in Handlers :
    g # h /\ HoldsRow(g) /\ HoldsRow(h) => tx[g].req.inst # tx[h].req.inst

(* What a transaction read of the row it locked is still so.               *)
RowsHeldAreFree ==
  \A h \in Handlers : HoldsRow(h) =>
    /\ instances[tx[h].req.inst].active = 0
    /\ instances[tx[h].req.inst].life \in MutableLifecycleStates

(* An unfinished operation is the one its instance names: there is no      *)
(* second one.                                                             *)
UnfinishedIsActive ==
  \A o \in DOMAIN operations :
    Unfinished(o) => instances[operations[o].inst].active = o

(* Each operation has the record its command is looked up by, and no other *)
(* operation has one like it.                                              *)
OperationsRecorded ==
  \A o \in DOMAIN operations :
    {e \in idem : e.scope = Scope(operations[o].req)} =
      {IdempotencyRecord(operations[o].req, requestHash(operations[o].req), o)}

(* The partial unique index, and where addresses come from.                *)
LeasesUnique ==
  \A i, j \in DOMAIN leases :
    i # j /\ leases[i].net = leases[j].net /\ leases[i].addr = leases[j].addr
      => leases[i].state = "released" \/ leases[j].state = "released"
LeasesAssignable == \A i \in DOMAIN leases : leases[i].addr \in Assignable(leases[i].net)
LeasesKept ==
  ~ReleaseOnRetain => \A i \in DOMAIN leases : leases[i].state # "released"

(* Retention comes before a purge, and an unfinished purge before another  *)
(* retention.                                                              *)
RetainedBefore ==
  /\ \A i \in DOMAIN instances :
       instances[i].life \in {"retained", "purge_pending", "purged"} => Retained(i)
  /\ \A i \in DOMAIN instances :
       instances[i].life \in {"purge_pending", "purged"} => instances[i].deadline = "passed"
  /\ \A o \in DOMAIN operations :
       Unfinished(o) /\ operations[o].req.kind = "purge_instance" =>
         /\ Retained(operations[o].inst)
         /\ instances[operations[o].inst].deadline = "passed"

(* What holds in whichever order events are applied: the tables are typed, *)
(* the locks keep what was read under them, operations have their records. *)
LInv ==
  /\ TablesOK /\ TransactionsOK
  /\ ScopesHeldOnce /\ NetworksHeldOnce /\ RowsHeldOnce
  /\ InsertsDoNotConflict /\ RowsHeldAreFree
  /\ OperationsRecorded

AInv ==
  /\ LInv
  /\ UnfinishedIsActive
  /\ LeasesUnique /\ LeasesAssignable /\ LeasesKept
  /\ RetainedBefore /\ SnapshotsSettle

-----------------------------------------------------------------------------
(* What a route passes on is an input of the application.                  *)
LEMMA RoutedShape ==
  ASSUME NEW c \in Calls, NEW actor \in Actors,
         NEW r \in RestRoute(actor, c) \cup GrpcMethod(actor, c)
  PROVE  \/ \E keys : r = CreateInstanceInput(actor, c, keys)
         \/ \E action : r = PowerInstanceInput(actor, c, action)
         \/ \E flavor, disk : r = ResizeInstanceInput(actor, c, flavor, disk)
         \/ r = CreateSnapshotInput(actor, c)
         \/ r = SnapshotActionInput(actor, c, "rollback_snapshot")
         \/ r = SnapshotActionInput(actor, c, "delete_snapshot")
         \/ r = RetainInstanceInput(actor, c)
         \/ r = PurgeInstanceInput(actor, c)
         \/ r = ReplayDeadLetterInput(actor, c)
<1>1. CASE r \in RestRoute(actor, c)
  BY <1>1 DEF RestRoute, When, Create, Act, Retain, CreateSnapshot, RollbackSnapshot,
              DeleteSnapshot, Purge, Replay
<1>2. CASE r \in GrpcMethod(actor, c)
  BY <1>2 DEF GrpcMethod, When, GrpcCreateInstance, GrpcMutateInstance,
              GrpcReplayDeadLetter
<1>3. QED  BY <1>1, <1>2

(* So a request is one, made by an actor that authenticated.               *)
LEMMA RequestShape ==
  ASSUME NEW r \in Requests
  PROVE  \E actor \in Actors, c \in Calls :
         \/ \E keys : r = CreateInstanceInput(actor, c, keys)
         \/ \E action : r = PowerInstanceInput(actor, c, action)
         \/ \E flavor, disk : r = ResizeInstanceInput(actor, c, flavor, disk)
         \/ r = CreateSnapshotInput(actor, c)
         \/ r = SnapshotActionInput(actor, c, "rollback_snapshot")
         \/ r = SnapshotActionInput(actor, c, "delete_snapshot")
         \/ r = RetainInstanceInput(actor, c)
         \/ r = PurgeInstanceInput(actor, c)
<1>1. PICK c \in Calls : r \in canActivate(c) \cup handleAuthenticated(c)
  BY DEF Requests, Received
<1>2. PICK actor \in authenticate(c.token) : r \in RestRoute(actor, c) \cup GrpcMethod(actor, c)
  BY <1>1 DEF canActivate, handleAuthenticated
<1>3. actor \in Actors
  BY <1>2 DEF Actors, authenticate, Authenticated
<1>4. r.kind # "replay_dead_letter"
  BY DEF Requests
<1>5. r # ReplayDeadLetterInput(actor, c)
  BY <1>4 DEF ReplayDeadLetterInput
<1>6. QED  BY <1>2, <1>3, <1>5, RoutedShape

-----------------------------------------------------------------------------
(* A nonempty set of naturals has a least element, which Min chooses.      *)
LEMMA LeastElement ==
  ASSUME NEW S \in SUBSET Nat, S # {}
  PROVE  Min(S) \in S /\ \A y \in S : Min(S) <= y
  BY LeastNatural DEF Min

-----------------------------------------------------------------------------
(* Requests, commands, scopes and hashes.                                  *)

Scopes == {Scope(r) : r \in Requests}
Hashes == {requestHash(r) : r \in Requests}

(* A create request that passed its checks becomes a command of its shape, *)
(* looked up under the request's scope and with its hash.                  *)
LEMMA CreateCommandShape ==
  ASSUME NEW r \in Requests, createInstance(r), LoadAcceptanceContext(r)
  PROVE  /\ CreateInstanceCommand(r) \in CreateInstanceCommands
         /\ CreateInstanceCommand(r).kind = "create_instance"
         /\ CreateInstanceCommand(r).project = r.project
         /\ CreateInstanceCommand(r).flavor = r.flavor
         /\ Scope(CreateInstanceCommand(r)) = Scope(r)
         /\ requestHash(CreateInstanceCommand(r)) = requestHash(r)
<1>1. r.kind = "create_instance"
  BY DEF createInstance
<1>2. PICK actor \in Actors, c \in Calls : \E keys : r = CreateInstanceInput(actor, c, keys)
  BY <1>1, RequestShape
     DEF CreateInstanceInput, PowerInstanceInput, ResizeInstanceInput, CreateSnapshotInput,
         SnapshotActionInput, RetainInstanceInput, PurgeInstanceInput
<1> DEFINE sent == IF r.keys = None THEN << >> ELSE r.keys
           q == CreateInstanceCommand(r)
<1>3. sent \in Seq(SshKeys)
  <2>1. CASE r.keys = None
    BY <2>1
  <2>2. CASE r.keys # None
    <3>1. r.keys \in Seq(Range(r.keys)) /\ Range(r.keys) \subseteq SshKeys
      BY <1>1, <2>2, AcceptanceAssumption DEF createInstance, validateCreateInstance
    <3>2. QED  BY <2>2, <3>1, WidenedSeq
  <2>3. QED  BY <2>1, <2>2
<1>4. q = [kind |-> "create_instance", actor |-> r.actor, project |-> r.project,
           key |-> r.key, image |-> r.image, flavor |-> r.flavor, net |-> r.net,
           name |-> r.name, keys |-> sent]
  BY <1>2 DEF CreateInstanceInput, CreateInstanceCommand
<1>5. q \in CreateInstanceCommands
  <2>1. r.actor \in Actors
    BY <1>2 DEF CreateInstanceInput
  <2>2. /\ r.project \in Projects /\ r.key \in Keys /\ r.image \in DOMAIN Images
        /\ r.flavor \in DOMAIN Flavors /\ r.net \in DOMAIN Pools /\ r.name \in Names
    BY DEF createInstance, LoadAcceptanceContext, assertIdempotencyKey,
           validateCreateInstance
  <2> HIDE DEF sent
  <2>3. QED  BY <1>3, <1>4, <2>1, <2>2 DEF CreateInstanceCommands
<1>6. Scope(q) = Scope(r)
  BY <1>1, <1>4 DEF Scope
<1>7. HashedKeys(q) = HashedKeys(r)
  <2>1. None \notin Seq(SshKeys)
    BY AcceptanceAssumption
  <2>2. q.keys = sent
    BY <1>4
  <2>3. Range(<< >>) = {}
    BY DEF Range
  <2> HIDE DEF q, sent
  <2>4. q.keys # None
    BY <1>3, <2>1, <2>2
  <2>5. QED  BY <2>2, <2>3, <2>4 DEF HashedKeys, sent
<1>8. requestHash(q) = requestHash(r)
  BY <1>1, <1>4, <1>7 DEF requestHash
<1>9. QED  BY <1>4, <1>5, <1>6, <1>8

(* A request that repeats a command is looked up under the command's scope *)
(* and has its hash, whichever transport it came by.                       *)
LEMMA SameRequestSameRecord ==
  ASSUME NEW r \in Requests, NEW q \in AcceptedCommands, SameRequest(r, q)
  PROVE  Scope(r) = Scope(q) /\ requestHash(r) = requestHash(q)
<1>1. CASE r.kind # "create_instance"
  BY <1>1 DEF SameRequest
<1>2. CASE r.kind = "create_instance"
  <2>1. PICK actor \in Actors, c \in Calls : \E keys : r = CreateInstanceInput(actor, c, keys)
    BY <1>2, RequestShape
       DEF CreateInstanceInput, PowerInstanceInput, ResizeInstanceInput,
           CreateSnapshotInput, SnapshotActionInput, RetainInstanceInput,
           PurgeInstanceInput
  <2>2. q.kind = "create_instance"
    BY <1>2 DEF SameRequest
  <2>3. q \in CreateInstanceCommands
    BY <2>2 DEF AcceptedCommands, PowerInstanceCommands, ResizeInstanceCommands,
                CreateSnapshotCommands, SnapshotActionCommands,
                RetainInstanceCommands, PurgeInstanceCommands
  <2>4. [r EXCEPT !.keys = << >>] = [q EXCEPT !.keys = << >>]
    BY <1>2 DEF SameRequest
  <2>5. /\ r.actor = q.actor /\ r.project = q.project /\ r.key = q.key
        /\ r.image = q.image /\ r.flavor = q.flavor /\ r.net = q.net /\ r.name = q.name
    BY <2>1, <2>3, <2>4 DEF CreateInstanceInput, CreateInstanceCommands
  <2>6. CreateInstanceCommand(r).keys = IF r.keys = None THEN << >> ELSE r.keys
    BY <2>1 DEF CreateInstanceInput, CreateInstanceCommand
  <2>7. HashedKeys(r) = HashedKeys(q)
    <3>1. q.keys # None
      BY <2>3, AcceptanceAssumption DEF CreateInstanceCommands
    <3>2. Range(CreateInstanceCommand(r).keys) = Range(q.keys)
      BY <1>2 DEF SameRequest
    <3>3. Range(<< >>) = {}
      BY DEF Range
    <3>4. QED  BY <2>6, <3>1, <3>2, <3>3 DEF HashedKeys
  <2>8. QED  BY <1>2, <2>2, <2>5, <2>7 DEF Scope, requestHash
<1>3. QED  BY <1>1, <1>2

-----------------------------------------------------------------------------
(* The kinds of step the tables see.  Each action is one of them, and the  *)
(* proof that the invariant is preserved looks at no more of an action     *)
(* than its kind says.                                                     *)

tableVars == <<instances, docs, operations, leases, snapshots, idem>>

(* A transaction is opened on a command.                                   *)
Opens(h, r) ==
  /\ ~Open(h)
  /\ r \in OpenCommands /\ Scope(r) \in Scopes /\ requestHash(r) \in Hashes
  /\ Fresh(r)
  /\ r.kind # "create_instance" =>
       /\ r.inst \in DOMAIN instances /\ ~RowLocked(r.inst)
       /\ instances[r.inst].active = 0
       /\ instances[r.inst].life \in MutableLifecycleStates
  /\ tx' = [tx EXCEPT ![h] = Opened(r, requestHash(r))]
  /\ UNCHANGED tableVars

(* Everybody but h keeps its transaction, h has none any more.             *)
Closes(h) == Open(h) /\ tx' = [tx EXCEPT ![h] = IdleTx]

(* The transactions left have another scope and another row.               *)
LeavesOthers(r, i) ==
  /\ \/ tx' = tx
     \/ \E h \in Handlers : Closes(h)
  /\ \A g \in Handlers : Open(g)' =>
       /\ Scope(tx[g].req) # Scope(r)
       /\ HoldsRow(g) => tx[g].req.inst # i

(* The columns of a row that an operation has made busy.                   *)
BusyRows ==
  [project : Projects, cpu : Nat, disk : Nat, power : {"running", "stopped"},
   life : Lifecycles, active : {ThisOp}, deadline : {"none", "running", "passed"}]

(* A mutation of instance i is accepted: its row, its snapshot s and its   *)
(* lease are written with its operation.                                   *)
RowAccepted(r, i, row) ==
  /\ row \in BusyRows
  /\ instances' = [instances EXCEPT ![i] = row]
  /\ \/ /\ r.kind # "purge_instance"
        /\ row.life = instances[i].life /\ row.deadline = instances[i].deadline
     \/ r.kind = "retain_instance" /\ row.life = "deleting"
     \/ /\ r.kind = "purge_instance"
        /\ instances[i].life = "retained" /\ instances[i].deadline = "passed"
        /\ row.life = "purge_pending" /\ row.deadline = "passed"

SnapshotAccepted(i, s) ==
  \/ s = 0 /\ snapshots' = snapshots
  \/ /\ s = Len(snapshots) + 1
     /\ \E name \in Names :
          snapshots' = Append(snapshots, [inst |-> i, name |-> name, state |-> "creating"])
  \/ /\ s \in DOMAIN snapshots
     /\ \E state \in Transitional :
          snapshots' = [snapshots EXCEPT ![s].state = state]

LeaseAccepted(i) ==
  \/ leases' = leases
  \/ leases' = [leases EXCEPT ![i] = RetainedLease(@)]

Mutates(r, i, s, row) ==
  /\ i \in DOMAIN instances /\ instances[i].active = 0
  /\ r \in AcceptedCommands' /\ Scope(r) \in Scopes /\ requestHash(r) \in Hashes
  /\ ~Recorded(r)
  /\ RowAccepted(r, i, row) /\ SnapshotAccepted(i, s) /\ LeaseAccepted(i)
  /\ MarkInstanceBusy(i)
  /\ WriteOperation(r, requestHash(r), i, s)
  /\ LeavesOthers(r, i)

(* An event of operation o is applied: it is in state afterwards, and its  *)
(* instance names the operation it named before or none.  The document is  *)
(* written as the row is.                                                  *)
Carries(o, state, life, active) ==
  LET i == operations[o].inst s == operations[o].snap IN
  /\ ~RowLocked(i)
  /\ instances' = [instances EXCEPT ![i].life = life, ![i].active = active]
  /\ operations' = [operations EXCEPT ![o].state = state]
  /\ \E doc \in DocTable :
       /\ docs' = [docs EXCEPT ![i] = doc]
       /\ doc.life = life
       /\ doc.active = IF state = "running" THEN docs[i].active ELSE 0
  /\ UNCHANGED <<leases, idem, tx>>
  /\ \/ /\ state = "running" /\ life = "provisioning" /\ active = instances[i].active
        /\ UNCHANGED snapshots
     \/ /\ state = "succeeded" /\ active = 0
        /\ life = LifecycleAfter(operations[o].req.kind)
        /\ s = 0 => UNCHANGED snapshots
        /\ s # 0 => \E settled \in {"deleted", "available"} :
                      snapshots' = [snapshots EXCEPT ![s].state = settled]
     \/ /\ state \in {"failed", "manual_review"} /\ life = state /\ active = 0
        /\ UNCHANGED snapshots

AcceptKinds ==
  \/ \E h \in Handlers, r \in OpenCommands : Opens(h, r)
  \/ \E h \in Handlers : ReserveIpv4Address(h)
  \/ \E h \in Handlers : Closes(h) /\ UNCHANGED tableVars
  \/ \E h \in Handlers : WriteAcceptanceRecords(h)
  \/ \E r, i, s, row : Mutates(r, i, s, row)
  \/ \E i \in DOMAIN instances : DeadlinePasses(i)

EventKind(o) ==
  \E state \in OperationStates, life \in Lifecycles, active \in 0 .. Len(operations) :
    Carries(o, state, life, active)

StepKinds == AcceptKinds \/ \E o \in DOMAIN operations : EventKind(o)

-----------------------------------------------------------------------------
(* The positions of the tables.                                            *)
LEMMA TablePositions ==
  ASSUME TablesOK
  PROVE  /\ Len(instances) \in Nat /\ Len(operations) \in Nat /\ Len(snapshots) \in Nat
         /\ DOMAIN instances = 1 .. Len(instances)
         /\ DOMAIN docs = DOMAIN instances /\ DOMAIN leases = DOMAIN instances
         /\ DOMAIN operations = 1 .. Len(operations)
         /\ DOMAIN snapshots = 1 .. Len(snapshots)
         /\ ThisOp \in Nat /\ ThisOp \notin DOMAIN operations
  BY DEF TablesOK, ThisOp

(* A row's columns.                                                        *)
LEMMA Columns ==
  ASSUME TablesOK
  PROVE  /\ \A i \in DOMAIN instances :
              /\ instances[i] \in InstanceTable
              /\ docs[i] \in DocTable
              /\ leases[i] \in Ipv4LeaseTable
         /\ \A o \in DOMAIN operations : operations[o] \in OperationTable
         /\ \A s \in DOMAIN snapshots : snapshots[s] \in SnapshotTable
<1>1. /\ \A i \in DOMAIN instances : instances[i] \in InstanceTable
      /\ \A i \in DOMAIN docs : docs[i] \in DocTable
      /\ \A i \in DOMAIN leases : leases[i] \in Ipv4LeaseTable
      /\ \A o \in DOMAIN operations : operations[o] \in OperationTable
      /\ \A s \in DOMAIN snapshots : snapshots[s] \in SnapshotTable
  BY DEF TablesOK
<1>2. QED  BY <1>1, TablePositions

(* Tables that only grow leave every row and every command what it was.    *)
LEMMA TypesGrow ==
  ASSUME TablesOK,
         DOMAIN instances \subseteq DOMAIN instances',
         DOMAIN snapshots \subseteq DOMAIN snapshots',
         Len(operations') \in Nat, Len(operations) <= Len(operations'),
         Len(snapshots') \in Nat, Len(snapshots) <= Len(snapshots'),
         DOMAIN operations \subseteq DOMAIN operations'
  PROVE  /\ InstanceTable \subseteq InstanceTable' /\ DocTable \subseteq DocTable'
         /\ AcceptedCommands \subseteq AcceptedCommands'
         /\ OpenCommands \subseteq OpenCommands'
         /\ OperationTable \subseteq OperationTable'
         /\ SnapshotTable \subseteq SnapshotTable'
         /\ IdempotencyTable \subseteq IdempotencyTable'
<1>1. 0 .. Len(operations) \subseteq 0 .. Len(operations') /\ 0 .. Len(snapshots) \subseteq 0 .. Len(snapshots')
  BY TablePositions
<1>2. InstanceTable \subseteq InstanceTable' /\ DocTable \subseteq DocTable'
  BY <1>1 DEF InstanceTable, DocTable
<1>3. /\ PowerInstanceCommands \subseteq PowerInstanceCommands'
      /\ ResizeInstanceCommands \subseteq ResizeInstanceCommands'
  BY DEF PowerInstanceCommands, ResizeInstanceCommands
<1>4. /\ CreateSnapshotCommands \subseteq CreateSnapshotCommands'
      /\ SnapshotActionCommands \subseteq SnapshotActionCommands'
  BY DEF CreateSnapshotCommands, SnapshotActionCommands
<1>5. /\ RetainInstanceCommands \subseteq RetainInstanceCommands'
      /\ PurgeInstanceCommands \subseteq PurgeInstanceCommands'
  BY DEF RetainInstanceCommands, PurgeInstanceCommands
<1>6. CreateInstanceCommands' = CreateInstanceCommands
  BY DEF CreateInstanceCommands, Actors, authenticate, Authenticated
<1>7. AcceptedCommands \subseteq AcceptedCommands' /\ OpenCommands \subseteq OpenCommands'
  BY <1>3, <1>4, <1>5, <1>6 DEF AcceptedCommands, OpenCommands
<1>8. OperationTable \subseteq OperationTable'
  BY <1>1, <1>7 DEF OperationTable
<1>9. SnapshotTable \subseteq SnapshotTable'
  BY DEF SnapshotTable
<1>10. IdempotencyTable \subseteq IdempotencyTable'
  BY DEF IdempotencyTable
<1>11. QED  BY <1>2, <1>7, <1>8, <1>9, <1>10

-----------------------------------------------------------------------------
(* Each action is of one of the kinds.                                     *)

(* A mutation leaves the tables at least as long as they were.             *)
LEMMA MutationGrows ==
  ASSUME TablesOK, NEW r, NEW i \in DOMAIN instances, NEW s, NEW row, NEW hash,
         instances' = [instances EXCEPT ![i] = row],
         SnapshotAccepted(i, s), WriteOperation(r, hash, i, s)
  PROVE  /\ DOMAIN instances' = DOMAIN instances
         /\ DOMAIN snapshots \subseteq DOMAIN snapshots'
         /\ Len(operations') = ThisOp
         /\ DOMAIN operations' = DOMAIN operations \cup {ThisOp}
         /\ Len(snapshots') \in Nat /\ Len(snapshots) <= Len(snapshots')
         /\ s \in 0 .. Len(snapshots')
         /\ AcceptedCommands \subseteq AcceptedCommands'
         /\ InstanceTable \subseteq InstanceTable'
<1>1. /\ Len(operations') = ThisOp
      /\ DOMAIN operations' = DOMAIN operations \cup {ThisOp}
  BY ExtendedSeq DEF TablesOK, WriteOperation, ThisOp
<1>2. DOMAIN instances' = DOMAIN instances
  BY DEF TablesOK
<1>3. /\ Len(snapshots') \in Nat /\ Len(snapshots) <= Len(snapshots')
      /\ DOMAIN snapshots' = 1 .. Len(snapshots')
      /\ s \in 0 .. Len(snapshots')
  <2>1. CASE s = 0 /\ snapshots' = snapshots
    BY <2>1, TablePositions
  <2>2. CASE /\ s = Len(snapshots) + 1
             /\ \E name \in Names : snapshots' =
                  Append(snapshots, [inst |-> i, name |-> name, state |-> "creating"])
    BY <2>2, TablePositions DEF TablesOK
  <2>3. CASE /\ s \in DOMAIN snapshots
             /\ \E state \in Transitional :
                  snapshots' = [snapshots EXCEPT ![s].state = state]
    BY <2>3, TablePositions DEF TablesOK
  <2>4. QED  BY <2>1, <2>2, <2>3 DEF SnapshotAccepted
<1>4. DOMAIN snapshots \subseteq DOMAIN snapshots'
  BY <1>3, TablePositions
<1>5. Len(operations') \in Nat /\ Len(operations) <= Len(operations')
  BY <1>1, TablePositions DEF ThisOp
<1>6. /\ AcceptedCommands \subseteq AcceptedCommands'
      /\ InstanceTable \subseteq InstanceTable'
  BY <1>1, <1>2, <1>3, <1>4, <1>5, TypesGrow
<1>7. QED  BY <1>1, <1>2, <1>3, <1>4, <1>6

(* What a transaction that has locked an instance's row knows of it.       *)
LEMMA LockedRow ==
  ASSUME TablesOK, NEW r, LockInstanceForMutation(r)
  PROVE  /\ r.inst \in DOMAIN instances /\ r.project \in Projects
         /\ ~RowLocked(r.inst) /\ instances[r.inst].active = 0
         /\ instances[r.inst].life \in MutableLifecycleStates
<1>1. r.inst \in DOMAIN instances
  BY DEF LockInstanceForMutation
<1>2. instances[r.inst] \in InstanceTable
  BY <1>1, Columns
<1>3. QED  BY <1>1, <1>2 DEF LockInstanceForMutation, InstanceTable

(* A request that passed its checks is a command of its kind's shape.      *)
LEMMA MutationRequestShape ==
  ASSUME TablesOK, NEW r \in Requests, LockInstanceForMutation(r)
  PROVE  /\ mutateInstancePower(r) => r \in PowerInstanceCommands
         /\ resizeInstance(r) /\ r.flavor \in DOMAIN Flavors => r \in ResizeInstanceCommands
         /\ createSnapshot(r) => r \in CreateSnapshotCommands
         /\ snapshotAction(r) /\ r.snap \in DOMAIN snapshots => r \in SnapshotActionCommands
         /\ retainInstance(r) => r \in RetainInstanceCommands
<1> USE DEF CreateInstanceInput, PowerInstanceInput, ResizeInstanceInput,
            CreateSnapshotInput, SnapshotActionInput, RetainInstanceInput,
            PurgeInstanceInput, assertIdempotencyKey
<1>1. r.inst \in DOMAIN instances /\ r.project \in Projects
  BY LockedRow
<1>2. ASSUME mutateInstancePower(r)  PROVE r \in PowerInstanceCommands
  <2>1. PICK actor \in Actors, c \in Calls :
          \E action : r = PowerInstanceInput(actor, c, action)
    BY <1>2, RequestShape DEF mutateInstancePower
  <2>2. QED
    BY <1>1, <1>2, <2>1
       DEF mutateInstancePower, validatePowerAction, PowerInstanceCommands
<1>3. ASSUME resizeInstance(r), r.flavor \in DOMAIN Flavors
      PROVE  r \in ResizeInstanceCommands
  <2>1. PICK actor \in Actors, c \in Calls : \E flavor, disk :
          r = ResizeInstanceInput(actor, c, flavor, disk)
    BY <1>3, RequestShape DEF resizeInstance
  <2>2. r.disk \in Nat \cup {None}
    BY <1>3, AcceptanceAssumption DEF resizeInstance
  <2>3. QED
    BY <1>1, <1>3, <2>1, <2>2 DEF resizeInstance, ResizeInstanceCommands
<1>4. ASSUME createSnapshot(r)  PROVE r \in CreateSnapshotCommands
  <2>1. PICK actor \in Actors, c \in Calls : r = CreateSnapshotInput(actor, c)
    BY <1>4, RequestShape DEF createSnapshot
  <2>2. QED
    BY <1>1, <1>4, <2>1
       DEF createSnapshot, validateSnapshotName, CreateSnapshotCommands
<1>5. ASSUME snapshotAction(r), r.snap \in DOMAIN snapshots
      PROVE  r \in SnapshotActionCommands
  <2>1. PICK actor \in Actors, c \in Calls, kind \in {"rollback_snapshot", "delete_snapshot"} :
          r = SnapshotActionInput(actor, c, kind)
    BY <1>5, RequestShape DEF snapshotAction
  <2>2. QED
    BY <1>1, <1>5, <2>1 DEF snapshotAction, SnapshotActionCommands
<1>6. ASSUME retainInstance(r)  PROVE r \in RetainInstanceCommands
  <2>1. PICK actor \in Actors, c \in Calls : r = RetainInstanceInput(actor, c)
    BY <1>6, RequestShape DEF retainInstance
  <2>2. QED
    BY <1>1, <1>6, <2>1 DEF retainInstance, RetainInstanceCommands
<1>7. QED  BY <1>2, <1>3, <1>4, <1>5, <1>6

(* A purge that passed its checks is a command of its shape.               *)
LEMMA PurgeRequestShape ==
  ASSUME NEW r \in Requests, purgeInstance(r), r.confirm = r.inst,
         r.inst \in DOMAIN instances
  PROVE  r \in PurgeInstanceCommands
<1>1. PICK actor \in Actors, c \in Calls : r = PurgeInstanceInput(actor, c)
  BY RequestShape
     DEF CreateInstanceInput, PowerInstanceInput, ResizeInstanceInput,
         CreateSnapshotInput, SnapshotActionInput, RetainInstanceInput,
         PurgeInstanceInput, purgeInstance
<1>2. QED
  BY <1>1 DEF PurgeInstanceInput, PurgeInstanceCommands, purgeInstance,
              assertIdempotencyKey

(* The largest of the sizes a resize considers is one of them.             *)
LEMMA ResizeTargetType ==
  ASSUME TablesOK, NEW i \in DOMAIN instances, NEW r,
         r.flavor \in DOMAIN Flavors, r.disk \in Nat \cup {None}
  PROVE  ResizeTarget(i, r).cpu \in Nat /\ ResizeTarget(i, r).disk \in Nat
<1>1. instances[i].disk \in Nat
  BY Columns DEF InstanceTable
<1>2. Flavors[r.flavor].cpu \in Nat /\ Flavors[r.flavor].disk \in Nat
  BY AcceptanceAssumption DEF FlavorTable
<1>3. \A a, b, c \in Nat : Max({a, b, c}) \in Nat
  <2>1. SUFFICES ASSUME NEW a \in Nat, NEW b \in Nat, NEW c \in Nat
                 PROVE  Max({a, b, c}) \in Nat
    OBVIOUS
  <2>2. \E x \in {a, b, c} : \A y \in {a, b, c} : x >= y
    BY <2>1
  <2>3. QED  BY <2>1, <2>2 DEF Max
<1>4. QED  BY <1>1, <1>2, <1>3 DEF ResizeTarget

(* An acceptance in one transaction finds its scope and its row unlocked.  *)
LEMMA FreshLeavesOthers ==
  ASSUME NEW r, NEW i, Fresh(r), ~RowLocked(i), tx' = tx
  PROVE  LeavesOthers(r, i) /\ ~Recorded(r)
  BY DEF Fresh, ScopeLocked, RowLocked, LeavesOthers, Open, HoldsRow

(* One that opened earlier has held its locks since.                       *)
LEMMA ClosingLeavesOthers ==
  ASSUME TransactionsOK, ScopesHeldOnce, RowsHeldOnce,
         NEW h \in Handlers, HoldsRow(h), tx' = [tx EXCEPT ![h] = IdleTx]
  PROVE  LeavesOthers(tx[h].req, tx[h].req.inst)
<1>1. tx \in [Handlers -> {IdleTx} \cup OpenTransactions]
  BY DEF TransactionsOK
<1>2. Closes(h)
  BY DEF HoldsRow, Closes
<1>3. ASSUME NEW g \in Handlers, Open(g)'
      PROVE  g # h /\ tx'[g] = tx[g] /\ Open(g)
  BY <1>1, <1>3 DEF Open, IdleTx
<1>4. QED
  BY <1>2, <1>3 DEF LeavesOthers, ScopesHeldOnce, RowsHeldOnce, HoldsRow

(* The transactions an open one may be.                                    *)
LEMMA OpenTransaction ==
  ASSUME TransactionsOK, NEW h \in Handlers, Open(h)
  PROVE  /\ tx[h] \in OpenTransactions
         /\ tx[h].req \in OpenCommands
         /\ tx[h].hash \in Hashes /\ tx[h].hash = requestHash(tx[h].req)
         /\ Scope(tx[h].req) \in Scopes
<1>1. tx[h] \in {IdleTx} \cup OpenTransactions
  BY DEF TransactionsOK
<1>2. tx[h] \in OpenTransactions
  BY <1>1 DEF Open, IdleTx
<1>3. QED  BY <1>2 DEF OpenTransactions, TransactionsOK, Scopes, Hashes

(* A power action is a mutation.                                           *)
LEMMA PowerActionMutates ==
  ASSUME LInv, NEW r \in Requests, AcceptPowerAction(r)
  PROVE  \E row : Mutates(r, r.inst, 0, row)
<1> DEFINE old == instances[r.inst]
           power == IF r.action \in {"start", "reboot"} THEN "running" ELSE "stopped"
           row == [old EXCEPT !.active = ThisOp, !.power = power]
<1>1. TablesOK
  BY DEF LInv
<1>2. r.inst \in DOMAIN instances /\ ~RowLocked(r.inst) /\ old.active = 0
  BY <1>1, LockedRow DEF AcceptPowerAction
<1>3. old \in InstanceTable
  BY <1>1, <1>2, Columns
<1>4. instances' = [instances EXCEPT ![r.inst] = row]
  BY <1>1, <1>2 DEF AcceptPowerAction, TablesOK
<1>5. RowAccepted(r, r.inst, row)
  <2>1. row \in BusyRows /\ row.life = old.life /\ row.deadline = old.deadline
    BY <1>3 DEF InstanceTable, BusyRows
  <2>2. QED
    BY <1>4, <2>1 DEF RowAccepted, AcceptPowerAction, mutateInstancePower
<1>6. SnapshotAccepted(r.inst, 0) /\ LeaseAccepted(r.inst)
  BY DEF AcceptPowerAction, SnapshotAccepted, LeaseAccepted
<1>7. r \in AcceptedCommands'
  <2>1. r \in AcceptedCommands
    BY <1>1, MutationRequestShape DEF AcceptPowerAction, AcceptedCommands
  <2>2. QED
    BY <1>1, <1>2, <1>4, <1>6, <2>1, MutationGrows DEF AcceptPowerAction
<1>8. LeavesOthers(r, r.inst) /\ ~Recorded(r)
  BY <1>2, FreshLeavesOthers DEF AcceptPowerAction
<1>9. QED
  BY <1>2, <1>5, <1>6, <1>7, <1>8 DEF Mutates, AcceptPowerAction, Scopes, Hashes

(* So is a resize, in its second step,                                     *)
LEMMA ResizeMutates ==
  ASSUME LInv, NEW h \in Handlers, AcceptResize(h)
  PROVE  \E r \in OpenCommands : \E row : Mutates(r, r.inst, 0, row)
<1> DEFINE r == tx[h].req
           old == instances[r.inst]
           t == ResizeTarget(r.inst, r)
           row == [old EXCEPT !.active = ThisOp, !.cpu = t.cpu, !.disk = t.disk]
<1>1. TablesOK /\ TransactionsOK
  BY DEF LInv
<1>2. Open(h) /\ HoldsRow(h) /\ r.kind = "resize_instance"
  BY DEF AcceptResize, Open, HoldsRow
<1>3. r \in ResizeInstanceCommands
  BY <1>1, <1>2, OpenTransaction
     DEF OpenCommands, CreateInstanceCommands, CreateSnapshotCommands
<1>4. /\ r.inst \in DOMAIN instances /\ r.flavor \in DOMAIN Flavors
      /\ r.disk \in Nat \cup {None}
  BY <1>3 DEF ResizeInstanceCommands
<1>5. old \in InstanceTable /\ old.active = 0
  BY <1>1, <1>2, <1>4, Columns DEF LInv, RowsHeldAreFree
<1>6. t.cpu \in Nat /\ t.disk \in Nat
  BY <1>1, <1>4, ResizeTargetType
<1> HIDE DEF t
<1>7. instances' = [instances EXCEPT ![r.inst] = row]
  BY <1>1, <1>4 DEF AcceptResize, TablesOK, t
<1>8. RowAccepted(r, r.inst, row)
  <2>1. row \in BusyRows /\ row.life = old.life /\ row.deadline = old.deadline
    BY <1>5, <1>6 DEF InstanceTable, BusyRows
  <2>2. QED  BY <1>2, <1>7, <2>1 DEF RowAccepted
<1> HIDE DEF row
<1>9. SnapshotAccepted(r.inst, 0) /\ LeaseAccepted(r.inst)
  BY DEF AcceptResize, SnapshotAccepted, LeaseAccepted
<1>10. WriteOperation(r, requestHash(r), r.inst, 0) /\ MarkInstanceBusy(r.inst)
  BY <1>1, <1>2, OpenTransaction DEF AcceptResize
<1>11. r \in AcceptedCommands'
  <2>1. r \in AcceptedCommands
    BY <1>3 DEF AcceptedCommands
  <2>2. QED  BY <1>1, <1>4, <1>7, <1>9, <1>10, <2>1, MutationGrows
<1>12. LeavesOthers(r, r.inst)
  BY <1>1, <1>2, ClosingLeavesOthers DEF LInv, AcceptResize
<1>13. ~Recorded(r)
  BY <1>2 DEF LInv, InsertsDoNotConflict, Open
<1>14. Mutates(r, r.inst, 0, row)
  BY <1>1, <1>2, <1>4, <1>5, <1>8, <1>9, <1>10, <1>11, <1>12, <1>13, OpenTransaction
     DEF Mutates
<1>15. QED  BY <1>1, <1>2, <1>14, OpenTransaction

(* the creation of a snapshot, in its second step,                         *)
LEMMA SnapshotCreateMutates ==
  ASSUME LInv, NEW h \in Handlers, AcceptSnapshotCreate(h)
  PROVE  \E r \in OpenCommands : \E row : Mutates(r, r.inst, Len(snapshots) + 1, row)
<1> DEFINE r == tx[h].req
           old == instances[r.inst]
           s == Len(snapshots) + 1
           row == [old EXCEPT !.active = ThisOp]
<1>1. TablesOK /\ TransactionsOK
  BY DEF LInv
<1>2. Open(h) /\ HoldsRow(h) /\ r.kind = "create_snapshot"
  BY DEF AcceptSnapshotCreate, Open, HoldsRow
<1>3. r \in CreateSnapshotCommands
  BY <1>1, <1>2, OpenTransaction
     DEF OpenCommands, CreateInstanceCommands, ResizeInstanceCommands
<1>4. r.inst \in DOMAIN instances /\ r.name \in Names
  BY <1>3 DEF CreateSnapshotCommands
<1>5. old \in InstanceTable /\ old.active = 0
  BY <1>1, <1>2, <1>4, Columns DEF LInv, RowsHeldAreFree
<1>6. instances' = [instances EXCEPT ![r.inst] = row]
  BY <1>1, <1>4 DEF AcceptSnapshotCreate, TablesOK
<1>7. RowAccepted(r, r.inst, row)
  <2>1. row \in BusyRows /\ row.life = old.life /\ row.deadline = old.deadline
    BY <1>5 DEF InstanceTable, BusyRows
  <2>2. QED  BY <1>2, <1>6, <2>1 DEF RowAccepted
<1> HIDE DEF row
<1>8. SnapshotAccepted(r.inst, s) /\ LeaseAccepted(r.inst)
  BY <1>4 DEF AcceptSnapshotCreate, SnapshotAccepted, LeaseAccepted
<1>9. WriteOperation(r, requestHash(r), r.inst, s) /\ MarkInstanceBusy(r.inst)
  BY <1>1, <1>2, OpenTransaction DEF AcceptSnapshotCreate
<1>10. r \in AcceptedCommands'
  <2>1. r \in AcceptedCommands
    BY <1>3 DEF AcceptedCommands
  <2>2. QED  BY <1>1, <1>4, <1>6, <1>8, <1>9, <2>1, MutationGrows
<1>11. LeavesOthers(r, r.inst)
  BY <1>1, <1>2, ClosingLeavesOthers DEF LInv, AcceptSnapshotCreate
<1>12. ~Recorded(r)
  BY <1>2 DEF LInv, InsertsDoNotConflict, Open
<1>13. Mutates(r, r.inst, s, row)
  BY <1>1, <1>2, <1>4, <1>5, <1>7, <1>8, <1>9, <1>10, <1>11, <1>12, OpenTransaction
     DEF Mutates
<1>14. QED  BY <1>1, <1>2, <1>13, OpenTransaction

(* a rollback or a deletion,                                               *)
LEMMA SnapshotActionMutates ==
  ASSUME LInv, NEW r \in Requests, AcceptSnapshotAction(r)
  PROVE  \E row : Mutates(r, r.inst, r.snap, row)
<1> DEFINE old == instances[r.inst]
           row == [old EXCEPT !.active = ThisOp]
<1>1. TablesOK
  BY DEF LInv
<1>2. r.inst \in DOMAIN instances /\ ~RowLocked(r.inst) /\ old.active = 0
  BY <1>1, LockedRow DEF AcceptSnapshotAction
<1>3. old \in InstanceTable
  BY <1>1, <1>2, Columns
<1>4. instances' = [instances EXCEPT ![r.inst] = row]
  BY <1>1, <1>2 DEF AcceptSnapshotAction, TablesOK
<1>5. RowAccepted(r, r.inst, row)
  <2>1. row \in BusyRows /\ row.life = old.life /\ row.deadline = old.deadline
    BY <1>3 DEF InstanceTable, BusyRows
  <2>2. QED
    BY <1>4, <2>1 DEF RowAccepted, AcceptSnapshotAction, snapshotAction
<1> HIDE DEF row
<1>6. SnapshotAccepted(r.inst, r.snap) /\ LeaseAccepted(r.inst)
  BY DEF AcceptSnapshotAction, SnapshotAccepted, LeaseAccepted, Transitional
<1>7. r \in AcceptedCommands'
  <2>1. r \in AcceptedCommands
    BY <1>1, MutationRequestShape DEF AcceptSnapshotAction, AcceptedCommands
  <2>2. QED
    BY <1>1, <1>2, <1>4, <1>6, <2>1, MutationGrows DEF AcceptSnapshotAction
<1>8. LeavesOthers(r, r.inst) /\ ~Recorded(r)
  BY <1>2, FreshLeavesOthers DEF AcceptSnapshotAction
<1>9. QED
  BY <1>2, <1>5, <1>6, <1>7, <1>8 DEF Mutates, AcceptSnapshotAction, Scopes, Hashes

(* a retention                                                             *)
LEMMA RetentionMutates ==
  ASSUME LInv, NEW r \in Requests, AcceptRetention(r)
  PROVE  \E row : Mutates(r, r.inst, 0, row)
<1> DEFINE old == instances[r.inst]
           row == [old EXCEPT !.active = ThisOp, !.life = "deleting", !.deadline = "running"]
<1>1. TablesOK
  BY DEF LInv
<1>2. r.inst \in DOMAIN instances /\ ~RowLocked(r.inst) /\ old.active = 0
  BY <1>1, LockedRow DEF AcceptRetention
<1>3. old \in InstanceTable
  BY <1>1, <1>2, Columns
<1>4. instances' = [instances EXCEPT ![r.inst] = row]
  BY <1>1, <1>2 DEF AcceptRetention, TablesOK
<1>5. RowAccepted(r, r.inst, row)
  <2>1. row \in BusyRows /\ row.life = "deleting"
    BY <1>3 DEF InstanceTable, BusyRows, Lifecycles
  <2>2. QED
    BY <1>4, <2>1 DEF RowAccepted, AcceptRetention, retainInstance
<1> HIDE DEF row
<1>6. SnapshotAccepted(r.inst, 0) /\ LeaseAccepted(r.inst)
  BY DEF AcceptRetention, SnapshotAccepted, LeaseAccepted
<1>7. r \in AcceptedCommands'
  <2>1. r \in AcceptedCommands
    BY <1>1, MutationRequestShape DEF AcceptRetention, AcceptedCommands
  <2>2. QED
    BY <1>1, <1>2, <1>4, <1>6, <2>1, MutationGrows DEF AcceptRetention
<1>8. LeavesOthers(r, r.inst) /\ ~Recorded(r)
  BY <1>2, FreshLeavesOthers DEF AcceptRetention
<1>9. QED
  BY <1>2, <1>5, <1>6, <1>7, <1>8 DEF Mutates, AcceptRetention, Scopes, Hashes

(* and a purge.                                                            *)
LEMMA PurgeMutates ==
  ASSUME LInv, NEW r \in Requests, AcceptPurge(r)
  PROVE  \E row : Mutates(r, r.inst, 0, row)
<1> DEFINE old == instances[r.inst]
           row == [old EXCEPT !.active = ThisOp, !.life = "purge_pending"]
<1>1. TablesOK
  BY DEF LInv
<1>2. r.inst \in DOMAIN instances /\ ~RowLocked(r.inst) /\ Purgeable(r.inst)
  BY DEF AcceptPurge
<1>3. old \in InstanceTable
  BY <1>1, <1>2, Columns
<1>4. instances' = [instances EXCEPT ![r.inst] = row]
  BY <1>1, <1>2 DEF AcceptPurge, TablesOK
<1>5. RowAccepted(r, r.inst, row)
  <2>1. row \in BusyRows /\ row.life = "purge_pending" /\ row.deadline = old.deadline
    BY <1>3 DEF InstanceTable, BusyRows, Lifecycles
  <2>2. QED
    BY <1>2, <1>4, <2>1 DEF RowAccepted, AcceptPurge, purgeInstance, Purgeable
<1> HIDE DEF row
<1>6. SnapshotAccepted(r.inst, 0) /\ LeaseAccepted(r.inst)
  BY DEF AcceptPurge, SnapshotAccepted, LeaseAccepted
<1>7. r \in AcceptedCommands'
  <2>1. r \in AcceptedCommands
    BY <1>2, PurgeRequestShape DEF AcceptPurge, AcceptedCommands
  <2>2. QED
    BY <1>1, <1>2, <1>4, <1>6, <2>1, MutationGrows DEF AcceptPurge
<1>8. LeavesOthers(r, r.inst) /\ ~Recorded(r)
  BY <1>2, FreshLeavesOthers DEF AcceptPurge
<1>9. QED
  BY <1>2, <1>5, <1>6, <1>7, <1>8 DEF Mutates, AcceptPurge, Scopes, Hashes, Purgeable

(* The first steps of the transactions that are taken apart open one.      *)
LEMMA BeginOpens ==
  ASSUME LInv, NEW h \in Handlers, NEW r \in Requests,
         BeginCreate(h, r) \/ BeginResize(h, r) \/ BeginSnapshotCreate(h, r)
  PROVE  \E q \in OpenCommands : Opens(h, q)
<1>1. TablesOK
  BY DEF LInv
<1>2. CASE BeginCreate(h, r)
  <2> DEFINE q == CreateInstanceCommand(r)
  <2>1. /\ q \in CreateInstanceCommands /\ q.kind = "create_instance"
        /\ Scope(q) = Scope(r) /\ requestHash(q) = requestHash(r)
    BY <1>2, CreateCommandShape DEF BeginCreate
  <2>2. Fresh(q)
    BY <1>2, <2>1 DEF BeginCreate, Fresh, ScopeLocked, Recorded
  <2>3. q \in OpenCommands
    BY <2>1 DEF OpenCommands
  <2>4. tx' = [tx EXCEPT ![h] = Opened(q, requestHash(q))]
    BY <1>2, <2>1 DEF BeginCreate
  <2> HIDE DEF q
  <2>5. Opens(h, q)
    BY <1>2, <2>1, <2>2, <2>3, <2>4
       DEF BeginCreate, Opens, Open, Scopes, Hashes, tableVars
  <2>6. QED  BY <2>3, <2>5
<1>3. CASE BeginResize(h, r)
  <2>1. r \in OpenCommands
    BY <1>1, <1>3, MutationRequestShape DEF BeginResize, OpenCommands
  <2>2. QED
    BY <1>1, <1>3, <2>1, LockedRow
       DEF BeginResize, Opens, Open, Scopes, Hashes, tableVars
<1>4. CASE BeginSnapshotCreate(h, r)
  <2>1. r \in OpenCommands
    BY <1>1, <1>4, MutationRequestShape DEF BeginSnapshotCreate, OpenCommands
  <2>2. QED
    BY <1>1, <1>4, <2>1, LockedRow
       DEF BeginSnapshotCreate, Opens, Open, Scopes, Hashes, tableVars
<1>5. QED  BY <1>2, <1>3, <1>4

(* The events of an operation carry it out.                                *)
LEMMA EventCarries ==
  ASSUME LInv, NEW o \in DOMAIN operations,
         \/ ApplyProgress(o) \/ ApplyCompleted(o)
         \/ \E state \in {"failed", "manual_review"} : ApplyFailed(o, state)
  PROVE  /\ EventKind(o)
         /\ ApplyProgress(o) =>
              Carries(o, "running", "provisioning", instances[operations[o].inst].active)
         /\ ApplyCompleted(o) =>
              Carries(o, "succeeded", LifecycleAfter(operations[o].req.kind), 0)
         /\ \A state \in {"failed", "manual_review"} :
              ApplyFailed(o, state) => Carries(o, state, state, 0)
<1> DEFINE i == operations[o].inst
<1>1. TablesOK
  BY DEF LInv
<1>2. operations[o] \in OperationTable
  BY <1>1, Columns
<1>3. i \in DOMAIN instances
  BY <1>2 DEF OperationTable
<1>4. instances[i] \in InstanceTable /\ docs[i] \in DocTable
  BY <1>1, <1>3, Columns
<1>5. 0 \in 0 .. Len(operations)
  BY <1>1, TablePositions
<1>6. ASSUME ApplyProgress(o)
      PROVE  /\ Carries(o, "running", "provisioning", instances[i].active)
             /\ instances[i].active \in 0 .. Len(operations)
  <2> DEFINE doc == [docs[i] EXCEPT !.life = "provisioning"]
             active == instances[i].active
  <2>1. /\ doc \in DocTable /\ active \in 0 .. Len(operations)
        /\ doc.life = "provisioning" /\ doc.active = docs[i].active
    BY <1>4 DEF DocTable, Lifecycles, InstanceTable
  <2>2. instances' = [instances EXCEPT ![i].life = "provisioning", ![i].active = active]
    <3>1. instances' = [instances EXCEPT ![i].life = "provisioning"]
      BY <1>6 DEF ApplyProgress
    <3>2. [instances[i] EXCEPT !.life = "provisioning"]
            = [instances[i] EXCEPT !.life = "provisioning", !.active = active]
      BY <1>4 DEF InstanceTable
    <3>3. QED  BY <1>1, <1>3, <3>1, <3>2 DEF TablesOK
  <2>3. Carries(o, "running", "provisioning", active)
    <3>1. /\ docs' = [docs EXCEPT ![i] = doc] /\ ~RowLocked(i)
          /\ operations' = [operations EXCEPT ![o].state = "running"]
          /\ UNCHANGED <<leases, snapshots, idem, tx>>
      BY <1>6 DEF ApplyProgress, writeDocuments
    <3> HIDE DEF doc
    <3>2. QED  BY <2>1, <2>2, <3>1 DEF Carries
  <2>4. QED  BY <2>1, <2>3
<1>7. ASSUME ApplyCompleted(o)
      PROVE  /\ Carries(o, "succeeded", LifecycleAfter(operations[o].req.kind), 0)
             /\ LifecycleAfter(operations[o].req.kind) \in Lifecycles
  <2> DEFINE life == LifecycleAfter(operations[o].req.kind)
             doc == [life |-> life, active |-> 0, drift |-> "none"]
  <2>1. life \in Lifecycles
    BY DEF LifecycleAfter, Lifecycles
  <2>2. doc \in DocTable /\ doc.life = life /\ doc.active = 0
    BY <1>5, <2>1 DEF DocTable
  <2> DEFINE s == operations[o].snap
  <2>3. /\ s = 0 => UNCHANGED snapshots
        /\ s # 0 => \E settled \in {"deleted", "available"} :
                      snapshots' = [snapshots EXCEPT ![s].state = settled]
    <3> DEFINE settled == IF operations[o].req.kind = "delete_snapshot"
                          THEN "deleted" ELSE "available"
    <3>1. snapshots' = IF s = 0 THEN snapshots
                       ELSE [snapshots EXCEPT ![s].state = settled]
      BY <1>7 DEF ApplyCompleted, SettleSnapshot
    <3>2. settled \in {"deleted", "available"}
      OBVIOUS
    <3> HIDE DEF settled
    <3>3. QED  BY <3>1, <3>2, Zenon
  <2>4. /\ instances' = [instances EXCEPT ![i].life = life, ![i].active = 0]
        /\ operations' = [operations EXCEPT ![o].state = "succeeded"]
        /\ docs' = [docs EXCEPT ![i] = doc]
    BY <1>7 DEF ApplyCompleted, writeDocuments
  <2>5. ~RowLocked(i) /\ UNCHANGED <<leases, idem, tx>>
    BY <1>7 DEF ApplyCompleted
  <2> HIDE DEF doc, life
  <2>6. Carries(o, "succeeded", life, 0)
    BY <2>2, <2>3, <2>4, <2>5 DEF Carries, life
  <2>7. QED  BY <2>1, <2>6 DEF life
<1>8. ASSUME NEW state \in {"failed", "manual_review"}, ApplyFailed(o, state)
      PROVE  Carries(o, state, state, 0)
  <2> DEFINE doc == [docs[i] EXCEPT !.life = state, !.active = 0]
  <2>1. doc \in DocTable /\ doc.life = state /\ doc.active = 0
    BY <1>4, <1>5 DEF DocTable, Lifecycles
  <2>2. /\ docs' = [docs EXCEPT ![i] = doc] /\ ~RowLocked(i)
        /\ instances' = [instances EXCEPT ![i].life = state, ![i].active = 0]
        /\ operations' = [operations EXCEPT ![o].state = state]
        /\ UNCHANGED <<leases, snapshots, idem, tx>>
    BY <1>8 DEF ApplyFailed, writeDocuments
  <2> HIDE DEF doc
  <2>3. QED  BY <2>1, <2>2 DEF Carries
<1>9. EventKind(o)
  <2>1. CASE ApplyProgress(o)
    BY <1>6, <2>1 DEF EventKind, OperationStates, Lifecycles
  <2>2. CASE ApplyCompleted(o)
    BY <1>5, <1>7, <2>2 DEF EventKind, OperationStates, Ended
  <2>3. ASSUME NEW state \in {"failed", "manual_review"}, ApplyFailed(o, state)
        PROVE  EventKind(o)
    BY <1>5, <1>8, <2>3 DEF EventKind, OperationStates, Ended, Lifecycles
  <2>4. QED  BY <2>1, <2>2, <2>3
<1>10. QED  BY <1>6, <1>7, <1>8, <1>9

(* Every step of the write side is of one of the kinds.                    *)
LEMMA AcceptIsKind ==
  ASSUME LInv, Accept
  PROVE  AcceptKinds
<1>1. ASSUME NEW h \in Handlers, NEW r \in Requests,
             BeginCreate(h, r) \/ BeginResize(h, r) \/ BeginSnapshotCreate(h, r)
      PROVE  AcceptKinds
  BY <1>1, BeginOpens DEF AcceptKinds
<1>2. ASSUME NEW h \in Handlers, ReserveIpv4Address(h) \/ WriteAcceptanceRecords(h)
      PROVE  AcceptKinds
  BY <1>2 DEF AcceptKinds
<1>3. ASSUME NEW h \in Handlers, Rollback(h)
      PROVE  AcceptKinds
  BY <1>3 DEF AcceptKinds, Rollback, Closes, Open, tableVars
<1>4. ASSUME NEW h \in Handlers, AcceptResize(h) \/ AcceptSnapshotCreate(h)
      PROVE  AcceptKinds
  BY <1>4, ResizeMutates, SnapshotCreateMutates DEF AcceptKinds
<1>5. ASSUME NEW r \in Requests,
             \/ AcceptPowerAction(r) \/ AcceptSnapshotAction(r)
             \/ AcceptRetention(r) \/ AcceptPurge(r)
      PROVE  AcceptKinds
  BY <1>5, PowerActionMutates, SnapshotActionMutates, RetentionMutates, PurgeMutates
     DEF AcceptKinds
<1>6. ASSUME NEW i \in DOMAIN instances, DeadlinePasses(i)
      PROVE  AcceptKinds
  BY <1>6 DEF AcceptKinds
<1>7. QED
  BY <1>1, <1>2, <1>3, <1>4, <1>5, <1>6 DEF Accept

(* An operation carried out here has not ended before.                     *)
LEMMA CarryOutIsKind ==
  ASSUME LInv, NEW o \in DOMAIN operations, CarryOut(o)
  PROVE  Unfinished(o) /\ EventKind(o)
  BY EventCarries DEF CarryOut, Unfinished

-----------------------------------------------------------------------------
(* The effect of the kinds, row by row.                                    *)

(* A lease that its instance's retention touches stays where it was.       *)
LEMMA RetainedLeaseType ==
  ASSUME NEW l \in Ipv4LeaseTable
  PROVE  /\ RetainedLease(l) \in Ipv4LeaseTable
         /\ RetainedLease(l).net = l.net /\ RetainedLease(l).addr = l.addr
         /\ l.state = "released" => RetainedLease(l).state = "released"
         /\ ~ReleaseOnRetain /\ l.state # "released" => RetainedLease(l).state # "released"
  BY DEF RetainedLease, Ipv4LeaseTable

(* A mutation writes its own instance, operation, snapshot and lease.      *)
LEMMA MutationRows ==
  ASSUME TablesOK, NEW r, NEW i, NEW s, NEW row, Mutates(r, i, s, row)
  PROVE  /\ i \in DOMAIN instances
         /\ instances' \in Seq(InstanceTable') /\ Len(instances') = Len(instances)
         /\ DOMAIN instances' = DOMAIN instances
         /\ instances'[i] = row /\ row.active = ThisOp
         /\ \A j \in DOMAIN instances : j # i => instances'[j] = instances[j]
<1>1. i \in DOMAIN instances /\ row \in BusyRows
  BY DEF Mutates, RowAccepted
<1>2. Len(operations') = ThisOp /\ ThisOp \in Nat /\ InstanceTable \subseteq InstanceTable'
  BY <1>1, MutationGrows, TablePositions DEF Mutates, RowAccepted
<1>3. row \in InstanceTable' /\ row.active = ThisOp
  BY <1>1, <1>2 DEF BusyRows, InstanceTable
<1>4. instances' = [instances EXCEPT ![i] = row] /\ instances \in Seq(InstanceTable)
  BY DEF Mutates, RowAccepted, TablesOK
<1>5. QED  BY <1>1, <1>2, <1>3, <1>4, UpdatedSeq

(* It adds one operation, with its record, and leaves the others alone.    *)
LEMMA MutationOperations ==
  ASSUME TablesOK, NEW r, NEW i, NEW s, NEW row, Mutates(r, i, s, row)
  PROVE  /\ operations' \in Seq(OperationTable')
         /\ DOMAIN operations' = DOMAIN operations \cup {ThisOp}
         /\ ThisOp \in Nat /\ ThisOp # 0 /\ ThisOp \notin DOMAIN operations
         /\ operations'[ThisOp] = NewOp(r, i, s)
         /\ \A o \in DOMAIN operations : operations'[o] = operations[o]
         /\ idem' = idem \cup {IdempotencyRecord(r, requestHash(r), ThisOp)}
         /\ idem' \subseteq IdempotencyTable'
<1>1. /\ i \in DOMAIN instances /\ instances' = [instances EXCEPT ![i] = row]
      /\ SnapshotAccepted(i, s) /\ WriteOperation(r, requestHash(r), i, s)
      /\ r \in AcceptedCommands'
  BY DEF Mutates, RowAccepted
<1>2. /\ DOMAIN instances' = DOMAIN instances
      /\ DOMAIN snapshots \subseteq DOMAIN snapshots'
      /\ Len(operations') = ThisOp
      /\ DOMAIN operations' = DOMAIN operations \cup {ThisOp}
      /\ Len(snapshots') \in Nat /\ Len(snapshots) <= Len(snapshots')
      /\ s \in 0 .. Len(snapshots')
  BY <1>1, MutationGrows
<1>3. ThisOp = Len(operations) + 1 /\ Len(operations) \in Nat
  BY TablePositions DEF ThisOp
<1>4. /\ OperationTable \subseteq OperationTable'
      /\ IdempotencyTable \subseteq IdempotencyTable'
  BY <1>2, <1>3, TypesGrow
<1>5. NewOp(r, i, s) \in OperationTable'
  BY <1>1, <1>2 DEF NewOp, OperationTable, OperationStates
<1>6. operations' = Append(operations, NewOp(r, i, s)) /\ operations \in Seq(OperationTable)
  BY <1>1 DEF WriteOperation, TablesOK
<1>7. IdempotencyRecord(r, requestHash(r), ThisOp) \in IdempotencyTable'
  <2>1. Scope(r) \in Scopes /\ requestHash(r) \in Hashes
    BY DEF Mutates
  <2>2. ThisOp \in DOMAIN operations'
    BY <1>2
  <2>3. QED  BY <2>1, <2>2 DEF IdempotencyRecord, IdempotencyTable, Scopes, Hashes
<1>8. /\ idem' = idem \cup {IdempotencyRecord(r, requestHash(r), ThisOp)}
      /\ idem \subseteq IdempotencyTable
  BY <1>1 DEF WriteOperation, TablesOK
<1>9. QED  BY <1>3, <1>4, <1>5, <1>6, <1>7, <1>8, ExtendedSeq

(* It adds or claims at most the snapshot its operation names.              *)
LEMMA MutationSnapshots ==
  ASSUME TablesOK, NEW r, NEW i, NEW s, NEW row, Mutates(r, i, s, row)
  PROVE  /\ snapshots' \in Seq(SnapshotTable')
         /\ DOMAIN snapshots' \subseteq DOMAIN snapshots \cup {s}
         /\ \A t \in DOMAIN snapshots : t # s => snapshots'[t] = snapshots[t]
<1>1. i \in DOMAIN instances /\ SnapshotAccepted(i, s)
  BY DEF Mutates
<1>2. DOMAIN instances' = DOMAIN instances
  BY MutationRows
<1>3. SnapshotTable' = SnapshotTable
  BY <1>2 DEF SnapshotTable
<1>4. snapshots \in Seq(SnapshotTable)
  BY DEF TablesOK
<1>5. CASE s = 0 /\ snapshots' = snapshots
  BY <1>3, <1>4, <1>5
<1>6. ASSUME s = Len(snapshots) + 1, NEW name \in Names,
             snapshots' = Append(snapshots, [inst |-> i, name |-> name, state |-> "creating"])
      PROVE  /\ snapshots' \in Seq(SnapshotTable')
             /\ DOMAIN snapshots' \subseteq DOMAIN snapshots \cup {s}
             /\ \A t \in DOMAIN snapshots : t # s => snapshots'[t] = snapshots[t]
  <2>1. [inst |-> i, name |-> name, state |-> "creating"] \in SnapshotTable
    BY <1>1, <1>6 DEF SnapshotTable, SnapshotStates
  <2>2. QED  BY <1>3, <1>4, <1>6, <2>1, ExtendedSeq
<1>7. ASSUME s \in DOMAIN snapshots, NEW state \in Transitional,
             snapshots' = [snapshots EXCEPT ![s].state = state]
      PROVE  /\ snapshots' \in Seq(SnapshotTable')
             /\ DOMAIN snapshots' \subseteq DOMAIN snapshots \cup {s}
             /\ \A t \in DOMAIN snapshots : t # s => snapshots'[t] = snapshots[t]
  <2> DEFINE new == [snapshots[s] EXCEPT !.state = state]
  <2>1. snapshots[s] \in SnapshotTable
    BY <1>7, Columns
  <2>2. new \in SnapshotTable
    BY <1>7, <2>1 DEF SnapshotTable, SnapshotStates, Transitional
  <2>3. snapshots' = [snapshots EXCEPT ![s] = new]
    BY <1>7
  <2> HIDE DEF new
  <2>4. QED  BY <1>3, <1>4, <1>7, <2>2, <2>3, UpdatedSeq
<1>8. QED  BY <1>1, <1>5, <1>6, <1>7 DEF SnapshotAccepted

(* It may change the state of its own instance's lease, never an address.  *)
LEMMA MutationLeases ==
  ASSUME TablesOK, NEW r, NEW i, NEW s, NEW row, Mutates(r, i, s, row)
  PROVE  /\ leases' \in Seq(Ipv4LeaseTable) /\ Len(leases') = Len(leases)
         /\ DOMAIN leases' = DOMAIN leases
         /\ \A j \in DOMAIN leases :
              /\ leases'[j].net = leases[j].net /\ leases'[j].addr = leases[j].addr
              /\ leases[j].state = "released" => leases'[j].state = "released"
              /\ ~ReleaseOnRetain /\ leases[j].state # "released" =>
                   leases'[j].state # "released"
<1>1. i \in DOMAIN leases /\ LeaseAccepted(i)
  BY TablePositions DEF Mutates
<1>2. leases \in Seq(Ipv4LeaseTable)
  BY DEF TablesOK
<1>3. CASE leases' = leases
  BY <1>2, <1>3
<1>4. CASE leases' = [leases EXCEPT ![i] = RetainedLease(@)]
  <2> DEFINE new == RetainedLease(leases[i])
  <2>1. leases[i] \in Ipv4LeaseTable
    BY <1>1, Columns, TablePositions
  <2>2. /\ new \in Ipv4LeaseTable
        /\ new.net = leases[i].net /\ new.addr = leases[i].addr
        /\ leases[i].state = "released" => new.state = "released"
        /\ ~ReleaseOnRetain /\ leases[i].state # "released" => new.state # "released"
    BY <2>1, RetainedLeaseType
  <2>3. leases' = [leases EXCEPT ![i] = new]
    BY <1>4
  <2> HIDE DEF new
  <2>4. QED  BY <1>1, <1>2, <2>2, <2>3, UpdatedSeq
<1>5. QED  BY <1>1, <1>3, <1>4 DEF LeaseAccepted

(* A create adds a row to every table but the snapshots.                   *)
LEMMA CreationRows ==
  ASSUME LInv, NEW h \in Handlers, WriteAcceptanceRecords(h)
  PROVE  LET r == tx[h].req i == Len(instances) + 1 IN
         /\ r \in CreateInstanceCommands /\ r.kind = "create_instance"
         /\ TablesOK'
         /\ DOMAIN instances' = DOMAIN instances \cup {i} /\ i \notin DOMAIN instances
         /\ instances'[i].active = ThisOp
         /\ instances'[i].life = "pending"
         /\ \A j \in DOMAIN instances : instances'[j] = instances[j]
         /\ DOMAIN operations' = DOMAIN operations \cup {ThisOp}
         /\ operations'[ThisOp] = NewOp(r, i, 0)
         /\ \A o \in DOMAIN operations : operations'[o] = operations[o]
         /\ idem' = idem \cup {IdempotencyRecord(r, requestHash(r), ThisOp)}
         /\ DOMAIN leases' = DOMAIN leases \cup {i} /\ i \notin DOMAIN leases
         /\ leases'[i] = [net |-> r.net, addr |-> tx[h].addr, state |-> "active"]
         /\ \A j \in DOMAIN leases : leases'[j] = leases[j]
<1> DEFINE r == tx[h].req
           i == Len(instances) + 1
<1>1. TablesOK /\ TransactionsOK
  BY DEF LInv
<1>2. Open(h) /\ HoldsNetwork(h)
  BY DEF WriteAcceptanceRecords, Open, HoldsNetwork
<1>3. r.kind = "create_instance" /\ tx[h] \in OpenTransactions /\ r \in OpenCommands
  BY <1>1, <1>2, OpenTransaction DEF TransactionsOK
<1>4. r \in CreateInstanceCommands
  BY <1>3 DEF OpenCommands, ResizeInstanceCommands, CreateSnapshotCommands
<1>5. /\ r.project \in Projects /\ r.net \in DOMAIN Pools /\ tx[h].addr \in Nat
      /\ Flavors[r.flavor].cpu \in Nat /\ Flavors[r.flavor].disk \in Nat
  BY <1>3, <1>4, AcceptanceAssumption
     DEF CreateInstanceCommands, OpenTransactions, FlavorTable
<1>6. /\ Len(instances) \in Nat /\ Len(operations) \in Nat /\ Len(snapshots) \in Nat
      /\ DOMAIN instances = 1 .. Len(instances)
      /\ DOMAIN docs = DOMAIN instances /\ DOMAIN leases = DOMAIN instances
      /\ DOMAIN operations = 1 .. Len(operations)
      /\ DOMAIN snapshots = 1 .. Len(snapshots)
      /\ ThisOp = Len(operations) + 1
  BY <1>1, TablePositions DEF ThisOp
<1> DEFINE inst == NewInstance(r)
           doc == [life |-> "pending", active |-> ThisOp, drift |-> "none"]
           lease == [net |-> r.net, addr |-> tx[h].addr, state |-> "active"]
           op == NewOp(r, i, 0)
<1>7. /\ instances' = Append(instances, inst) /\ docs' = Append(docs, doc)
      /\ leases' = Append(leases, lease) /\ operations' = Append(operations, op)
      /\ snapshots' = snapshots
  BY DEF WriteAcceptanceRecords, WriteOperation
<1>8. /\ instances \in Seq(InstanceTable) /\ docs \in Seq(DocTable)
      /\ leases \in Seq(Ipv4LeaseTable) /\ operations \in Seq(OperationTable)
      /\ snapshots \in Seq(SnapshotTable) /\ idem \subseteq IdempotencyTable
      /\ Len(docs) = Len(instances) /\ Len(leases) = Len(instances)
  BY <1>1 DEF TablesOK
<1>9. /\ Len(operations') = Len(operations) + 1
      /\ DOMAIN operations' = DOMAIN operations \cup {ThisOp}
      /\ DOMAIN instances' = DOMAIN instances \cup {i}
  BY <1>6, <1>7, <1>8
<1>10. /\ InstanceTable \subseteq InstanceTable' /\ DocTable \subseteq DocTable'
       /\ AcceptedCommands \subseteq AcceptedCommands'
       /\ OperationTable \subseteq OperationTable'
       /\ SnapshotTable \subseteq SnapshotTable'
       /\ IdempotencyTable \subseteq IdempotencyTable'
  BY <1>1, <1>6, <1>7, <1>9, TypesGrow
<1>11. inst \in InstanceTable' /\ inst.active = ThisOp /\ inst.life = "pending"
  BY <1>5, <1>6, <1>9 DEF NewInstance, InstanceTable, Lifecycles
<1>12. doc \in DocTable'
  BY <1>6, <1>9 DEF DocTable, Lifecycles
<1>13. lease \in Ipv4LeaseTable
  BY <1>5 DEF Ipv4LeaseTable
<1>14. op \in OperationTable'
  <2>1. r \in AcceptedCommands'
    BY <1>4, <1>10 DEF AcceptedCommands
  <2>2. i \in DOMAIN instances' /\ 0 \in 0 .. Len(snapshots')
    BY <1>6, <1>7, <1>9
  <2>3. QED  BY <2>1, <2>2 DEF NewOp, OperationTable, OperationStates
<1>15. /\ idem' = idem \cup {IdempotencyRecord(r, requestHash(r), ThisOp)}
       /\ IdempotencyRecord(r, requestHash(r), ThisOp) \in IdempotencyTable'
  <2>1. Scope(r) \in Scopes /\ requestHash(r) \in Hashes /\ tx[h].hash = requestHash(r)
    BY <1>1, <1>2, OpenTransaction
  <2>2. QED
    BY <1>9, <2>1 DEF WriteAcceptanceRecords, WriteOperation, IdempotencyRecord,
                      IdempotencyTable, Scopes, Hashes
<1> HIDE DEF inst, doc, lease, op
<1>16. /\ instances' \in Seq(InstanceTable') /\ Len(instances') = Len(instances) + 1
       /\ instances'[i] = inst /\ i \notin DOMAIN instances
       /\ \A j \in DOMAIN instances : instances'[j] = instances[j]
  BY <1>7, <1>8, <1>10, <1>11, ExtendedSeq
<1>17. docs' \in Seq(DocTable') /\ Len(docs') = Len(docs) + 1
  BY <1>7, <1>8, <1>10, <1>12, ExtendedSeq
<1>18. /\ leases' \in Seq(Ipv4LeaseTable) /\ Len(leases') = Len(leases) + 1
       /\ DOMAIN leases' = DOMAIN leases \cup {i}
       /\ leases'[i] = lease
       /\ \A j \in DOMAIN leases : leases'[j] = leases[j]
  BY <1>7, <1>8, <1>13, ExtendedSeq
<1>19. /\ operations' \in Seq(OperationTable') /\ operations'[ThisOp] = op
       /\ \A o \in DOMAIN operations : operations'[o] = operations[o]
  BY <1>6, <1>7, <1>8, <1>10, <1>14, ExtendedSeq
<1>20. snapshots' \in Seq(SnapshotTable')
  BY <1>7, <1>8, <1>10, WidenedSeq
<1>21. TablesOK'
  <2>1. Ipv4LeaseTable' = Ipv4LeaseTable
    BY DEF Ipv4LeaseTable
  <2>2. QED
    BY <1>8, <1>10, <1>15, <1>16, <1>17, <1>18, <1>19, <1>20, <2>1 DEF TablesOK
<1>22. QED
  BY <1>3, <1>4, <1>6, <1>9, <1>11, <1>15, <1>16, <1>18, <1>19, <1>21 DEF lease, op

(* An event writes its operation, that operation's instance, document and  *)
(* snapshot.                                                               *)
LEMMA CarriedRows ==
  ASSUME TablesOK, NEW o \in DOMAIN operations, NEW state \in OperationStates,
         NEW life \in Lifecycles, NEW active \in 0 .. Len(operations),
         Carries(o, state, life, active)
  PROVE  LET i == operations[o].inst IN
         /\ i \in DOMAIN instances
         /\ TablesOK'
         /\ DOMAIN instances' = DOMAIN instances
         /\ instances'[i].life = life /\ instances'[i].active = active
         /\ instances'[i].deadline = instances[i].deadline
         /\ \A j \in DOMAIN instances : j # i => instances'[j] = instances[j]
         /\ DOMAIN operations' = DOMAIN operations
         /\ operations'[o].state = state /\ operations'[o].inst = i
         /\ operations'[o].req = operations[o].req
         /\ operations'[o].snap = operations[o].snap
         /\ \A q \in DOMAIN operations : q # o => operations'[q] = operations[q]
         /\ DOMAIN snapshots' = DOMAIN snapshots
         /\ \A s \in DOMAIN snapshots :
              s # operations[o].snap => snapshots'[s] = snapshots[s]
         /\ \A s \in DOMAIN snapshots :
              s = operations[o].snap /\ state = "succeeded"
                => snapshots'[s].state \in {"deleted", "available"}
<1> DEFINE i == operations[o].inst
           s == operations[o].snap
           row == [instances[i] EXCEPT !.life = life, !.active = active]
           op == [operations[o] EXCEPT !.state = state]
<1>1. operations[o] \in OperationTable
  BY Columns
<1>2. i \in DOMAIN instances /\ s \in 0 .. Len(snapshots)
  BY <1>1 DEF OperationTable
<1>3. instances[i] \in InstanceTable
  BY <1>2, Columns
<1>4. /\ row \in InstanceTable /\ op \in OperationTable
      /\ row.life = life /\ row.active = active /\ row.deadline = instances[i].deadline
      /\ op.state = state /\ op.inst = i /\ op.req = operations[o].req
      /\ op.snap = operations[o].snap
  BY <1>1, <1>3 DEF InstanceTable, OperationTable
<1>5. /\ instances \in Seq(InstanceTable) /\ docs \in Seq(DocTable)
      /\ leases \in Seq(Ipv4LeaseTable) /\ operations \in Seq(OperationTable)
      /\ snapshots \in Seq(SnapshotTable) /\ idem \subseteq IdempotencyTable
      /\ Len(docs) = Len(instances) /\ Len(leases) = Len(instances)
      /\ DOMAIN docs = DOMAIN instances
  BY TablePositions DEF TablesOK
<1>6. /\ instances' = [instances EXCEPT ![i] = row]
      /\ operations' = [operations EXCEPT ![o] = op]
      /\ leases' = leases /\ idem' = idem
  BY <1>2, <1>5 DEF Carries
<1>7. PICK doc \in DocTable : docs' = [docs EXCEPT ![i] = doc]
  BY DEF Carries
<1> HIDE DEF row, op
<1>8. /\ instances' \in Seq(InstanceTable) /\ Len(instances') = Len(instances)
      /\ DOMAIN instances' = DOMAIN instances /\ instances'[i] = row
      /\ \A j \in DOMAIN instances : j # i => instances'[j] = instances[j]
  BY <1>2, <1>4, <1>5, <1>6, UpdatedSeq
<1>9. /\ operations' \in Seq(OperationTable) /\ Len(operations') = Len(operations)
      /\ DOMAIN operations' = DOMAIN operations /\ operations'[o] = op
      /\ \A q \in DOMAIN operations : q # o => operations'[q] = operations[q]
  BY <1>4, <1>5, <1>6, UpdatedSeq
<1>10. docs' \in Seq(DocTable) /\ Len(docs') = Len(docs)
  BY <1>2, <1>5, <1>7, UpdatedSeq
<1>11. /\ snapshots' \in Seq(SnapshotTable) /\ Len(snapshots') = Len(snapshots)
       /\ DOMAIN snapshots' = DOMAIN snapshots
       /\ \A t \in DOMAIN snapshots : t # s => snapshots'[t] = snapshots[t]
       /\ \A t \in DOMAIN snapshots :
            t = s /\ state = "succeeded" => snapshots'[t].state \in {"deleted", "available"}
  <2>1. CASE snapshots' = snapshots /\ (s = 0 \/ state # "succeeded")
    BY <1>5, <2>1, TablePositions
  <2>2. CASE s # 0 /\ \E settled \in {"deleted", "available"} :
                        snapshots' = [snapshots EXCEPT ![s].state = settled]
    <3>1. PICK settled \in {"deleted", "available"} :
                 snapshots' = [snapshots EXCEPT ![s].state = settled]
      BY <2>2
    <3>2. s \in DOMAIN snapshots
      BY <1>2, <2>2, TablePositions
    <3> DEFINE new == [snapshots[s] EXCEPT !.state = settled]
    <3>3. new \in SnapshotTable /\ new.state = settled
      BY <3>1, <3>2, Columns DEF SnapshotTable, SnapshotStates
    <3>4. snapshots' = [snapshots EXCEPT ![s] = new]
      BY <3>1
    <3> HIDE DEF new
    <3>5. QED  BY <1>5, <3>1, <3>2, <3>3, <3>4, UpdatedSeq
  <2>3. QED  BY <2>1, <2>2 DEF Carries
<1>12. /\ InstanceTable' = InstanceTable /\ DocTable' = DocTable
       /\ Ipv4LeaseTable' = Ipv4LeaseTable /\ SnapshotTable' = SnapshotTable
       /\ IdempotencyTable' = IdempotencyTable /\ OperationTable' = OperationTable
  <2>1. /\ InstanceTable' = InstanceTable /\ DocTable' = DocTable
        /\ Ipv4LeaseTable' = Ipv4LeaseTable /\ SnapshotTable' = SnapshotTable
        /\ IdempotencyTable' = IdempotencyTable
    BY <1>8, <1>9
       DEF InstanceTable, DocTable, Ipv4LeaseTable, SnapshotTable, IdempotencyTable
  <2>2. AcceptedCommands' = AcceptedCommands
    BY <1>8, <1>11
       DEF AcceptedCommands, CreateInstanceCommands, Actors, authenticate, Authenticated,
           PowerInstanceCommands, ResizeInstanceCommands, CreateSnapshotCommands,
           SnapshotActionCommands, RetainInstanceCommands, PurgeInstanceCommands
  <2>3. QED  BY <1>8, <1>11, <2>1, <2>2 DEF OperationTable
<1>13. TablesOK'
  BY <1>5, <1>6, <1>8, <1>9, <1>10, <1>11, <1>12 DEF TablesOK
<1>14. QED  BY <1>2, <1>4, <1>8, <1>9, <1>11, <1>13

(* A deadline that passes changes nothing else.                            *)
LEMMA DeadlineRows ==
  ASSUME TablesOK, NEW i \in DOMAIN instances, DeadlinePasses(i)
  PROVE  /\ TablesOK'
         /\ DOMAIN instances' = DOMAIN instances
         /\ instances'[i] = [instances[i] EXCEPT !.deadline = "passed"]
         /\ \A j \in DOMAIN instances : j # i => instances'[j] = instances[j]
         /\ \A j \in DOMAIN instances : /\ instances'[j].life = instances[j].life
                                        /\ instances'[j].active = instances[j].active
                                        /\ instances[j].deadline = "passed" =>
                                             instances'[j].deadline = "passed"
<1> DEFINE row == [instances[i] EXCEPT !.deadline = "passed"]
<1>1. instances[i] \in InstanceTable
  BY Columns
<1>2. /\ row \in InstanceTable
      /\ row.life = instances[i].life /\ row.active = instances[i].active
      /\ row.deadline = "passed"
  BY <1>1 DEF InstanceTable
<1>3. instances' = [instances EXCEPT ![i] = row] /\ instances \in Seq(InstanceTable)
  BY DEF DeadlinePasses, TablesOK
<1>4. UNCHANGED <<docs, operations, leases, snapshots, idem>>
  BY DEF DeadlinePasses
<1> HIDE DEF row
<1>5. /\ instances' \in Seq(InstanceTable) /\ Len(instances') = Len(instances)
      /\ DOMAIN instances' = DOMAIN instances /\ instances'[i] = row
      /\ \A j \in DOMAIN instances : j # i => instances'[j] = instances[j]
  BY <1>2, <1>3, UpdatedSeq
<1>6. /\ InstanceTable' = InstanceTable /\ DocTable' = DocTable
      /\ Ipv4LeaseTable' = Ipv4LeaseTable /\ SnapshotTable' = SnapshotTable
      /\ IdempotencyTable' = IdempotencyTable /\ OperationTable' = OperationTable
  <2>1. /\ InstanceTable' = InstanceTable /\ DocTable' = DocTable
        /\ Ipv4LeaseTable' = Ipv4LeaseTable /\ SnapshotTable' = SnapshotTable
        /\ IdempotencyTable' = IdempotencyTable
    BY <1>4, <1>5
       DEF InstanceTable, DocTable, Ipv4LeaseTable, SnapshotTable, IdempotencyTable
  <2>2. AcceptedCommands' = AcceptedCommands
    BY <1>4, <1>5
       DEF AcceptedCommands, CreateInstanceCommands, Actors, authenticate, Authenticated,
           PowerInstanceCommands, ResizeInstanceCommands, CreateSnapshotCommands,
           SnapshotActionCommands, RetainInstanceCommands, PurgeInstanceCommands
  <2>3. QED  BY <1>4, <1>5, <2>1, <2>2 DEF OperationTable
<1>7. TablesOK'
  BY <1>4, <1>5, <1>6 DEF TablesOK
<1>8. QED  BY <1>2, <1>5, <1>7 DEF row

(* A step that writes no table leaves them typed.                          *)
LEMMA UnwrittenTables ==
  ASSUME TablesOK, UNCHANGED tableVars
  PROVE  TablesOK' /\ OpenCommands' = OpenCommands
<1>1. /\ instances' = instances /\ docs' = docs /\ operations' = operations
      /\ leases' = leases /\ snapshots' = snapshots /\ idem' = idem
  BY DEF tableVars
<1>2. /\ InstanceTable' = InstanceTable /\ DocTable' = DocTable
      /\ Ipv4LeaseTable' = Ipv4LeaseTable /\ SnapshotTable' = SnapshotTable
      /\ IdempotencyTable' = IdempotencyTable
  BY <1>1
     DEF InstanceTable, DocTable, Ipv4LeaseTable, SnapshotTable, IdempotencyTable
<1>3. AcceptedCommands' = AcceptedCommands /\ OpenCommands' = OpenCommands
  BY <1>1
     DEF AcceptedCommands, OpenCommands, CreateInstanceCommands, Actors, authenticate,
         Authenticated, PowerInstanceCommands, ResizeInstanceCommands,
         CreateSnapshotCommands, SnapshotActionCommands, RetainInstanceCommands,
         PurgeInstanceCommands
<1>4. OperationTable' = OperationTable
  BY <1>1, <1>3 DEF OperationTable
<1>5. QED  BY <1>1, <1>2, <1>3, <1>4 DEF TablesOK

(* A mutation leaves the tables typed.                                     *)
LEMMA MutationTables ==
  ASSUME TablesOK, NEW r, NEW i, NEW s, NEW row, Mutates(r, i, s, row)
  PROVE  TablesOK'
<1> DEFINE doc == [docs[i] EXCEPT !.active = ThisOp]
<1>1. /\ i \in DOMAIN docs /\ docs[i] \in DocTable /\ docs \in Seq(DocTable)
      /\ Len(docs) = Len(instances) /\ Len(leases) = Len(instances)
  BY MutationRows, TablePositions, Columns DEF TablesOK
<1>2. docs' = [docs EXCEPT ![i] = doc]
  BY <1>1 DEF Mutates, MarkInstanceBusy
<1>3. DocTable \subseteq DocTable' /\ doc \in DocTable'
  <2>1. Len(operations') = ThisOp /\ ThisOp = Len(operations) + 1 /\ Len(operations) \in Nat
    BY MutationGrows, TablePositions DEF Mutates, RowAccepted, ThisOp
  <2>2. QED  BY <1>1, <2>1 DEF DocTable
<1> HIDE DEF doc
<1>4. docs' \in Seq(DocTable') /\ Len(docs') = Len(docs)
  BY <1>1, <1>2, <1>3, UpdatedSeq
<1>5. Ipv4LeaseTable' = Ipv4LeaseTable
  BY DEF Ipv4LeaseTable
<1>6. QED
  BY <1>1, <1>4, <1>5, MutationRows, MutationOperations, MutationSnapshots, MutationLeases
     DEF TablesOK

(* Every step leaves the tables typed.                                     *)
LEMMA TablesOKStep ==
  ASSUME LInv, StepKinds \/ UNCHANGED acceptVars
  PROVE  TablesOK'
<1>1. TablesOK
  BY DEF LInv
<1>2. CASE UNCHANGED tableVars
  BY <1>1, <1>2, UnwrittenTables
<1>3. ASSUME NEW h \in Handlers, WriteAcceptanceRecords(h)  PROVE TablesOK'
  BY <1>3, CreationRows
<1>4. ASSUME NEW r, NEW i, NEW s, NEW row, Mutates(r, i, s, row)  PROVE TablesOK'
  BY <1>1, <1>4, MutationTables
<1>5. ASSUME NEW i \in DOMAIN instances, DeadlinePasses(i)  PROVE TablesOK'
  BY <1>1, <1>5, DeadlineRows
<1>6. ASSUME NEW o \in DOMAIN operations, NEW state \in OperationStates,
             NEW life \in Lifecycles, NEW active \in 0 .. Len(operations),
             Carries(o, state, life, active)
      PROVE  TablesOK'
  BY <1>1, <1>6, CarriedRows
<1>7. ASSUME NEW h \in Handlers, NEW r \in OpenCommands, Opens(h, r)  PROVE TablesOK'
  BY <1>2, <1>7 DEF Opens
<1>8. ASSUME NEW h \in Handlers, ReserveIpv4Address(h)  PROVE TablesOK'
  BY <1>2, <1>8 DEF ReserveIpv4Address, tableVars
<1>9. CASE UNCHANGED acceptVars
  BY <1>2, <1>9 DEF acceptVars, tableVars
<1>10. QED
  BY <1>2, <1>3, <1>4, <1>5, <1>6, <1>7, <1>8, <1>9, Zenon
     DEF StepKinds, AcceptKinds, EventKind

-----------------------------------------------------------------------------
(* The open transactions and their locks.                                  *)

(* Transactions that stay open are typed by tables that only grow.         *)
LEMMA TransactionsKept ==
  ASSUME TransactionsOK, OpenCommands \subseteq OpenCommands',
         tx' = tx \/ \E h \in Handlers : Closes(h)
  PROVE  /\ TransactionsOK'
         /\ \A g \in Handlers : Open(g)' => Open(g) /\ tx'[g] = tx[g]
<1>1. tx \in [Handlers -> {IdleTx} \cup OpenTransactions]
  BY DEF TransactionsOK
<1>2. \A g \in Handlers : tx'[g] = tx[g] \/ tx'[g] = IdleTx
  BY <1>1 DEF Closes
<1>3. OpenTransactions \subseteq OpenTransactions'
  BY DEF OpenTransactions
<1>4. tx' \in [Handlers -> {IdleTx} \cup OpenTransactions']
  BY <1>1, <1>2, <1>3 DEF Closes
<1>5. \A g \in Handlers : Open(g)' => Open(g) /\ tx'[g] = tx[g]
  BY <1>2 DEF Open, IdleTx
<1>6. IdleTx' = IdleTx
  BY DEF IdleTx
<1>7. QED
  BY <1>4, <1>5, <1>6 DEF TransactionsOK, HoldsNetwork, Scope, Assignable

(* A transaction opens on a scope and a row nobody has locked.             *)
LEMMA OpensLocks ==
  ASSUME LInv, NEW h \in Handlers, NEW r \in OpenCommands, Opens(h, r)
  PROVE  /\ TransactionsOK' /\ ScopesHeldOnce' /\ NetworksHeldOnce' /\ RowsHeldOnce'
         /\ InsertsDoNotConflict' /\ RowsHeldAreFree'
<1>1. /\ tx \in [Handlers -> {IdleTx} \cup OpenTransactions]
      /\ tx' = [tx EXCEPT ![h] = Opened(r, requestHash(r))]
      /\ UNCHANGED tableVars
  BY DEF LInv, TransactionsOK, Opens
<1>2. OpenCommands' = OpenCommands
  BY <1>1, UnwrittenTables DEF LInv
<1>3. /\ tx'[h].phase = "checked" /\ tx'[h].req = r /\ tx'[h].hash = requestHash(r)
      /\ \A g \in Handlers : g # h => tx'[g] = tx[g]
  BY <1>1 DEF Opened
<1>4. TransactionsOK'
  <2>1. OpenTransactions' = OpenTransactions
    BY <1>2 DEF OpenTransactions
  <2>2. Opened(r, requestHash(r)) \in OpenTransactions
    BY DEF Opened, OpenTransactions, Opens, Hashes
  <2>3. tx' \in [Handlers -> {IdleTx} \cup OpenTransactions]
    BY <1>1, <2>2
  <2>4. Scope(r) \in {Scope(q) : q \in Requests}
    BY DEF Opens, Scopes
  <2>5. QED
    BY <1>3, <2>1, <2>3, <2>4
       DEF LInv, TransactionsOK, Open, HoldsNetwork, IdleTx, Scope, Assignable
<1>5. ScopesHeldOnce'
  BY <1>3 DEF LInv, ScopesHeldOnce, Open, Opens, Fresh, ScopeLocked, Scope
<1>6. NetworksHeldOnce'
  BY <1>3 DEF LInv, NetworksHeldOnce, HoldsNetwork
<1>7. RowsHeldOnce'
  BY <1>3 DEF LInv, RowsHeldOnce, HoldsRow, Open, Opens, RowLocked
<1>8. /\ instances' = instances /\ leases' = leases /\ idem' = idem
  BY <1>1 DEF tableVars
<1>9. InsertsDoNotConflict'
  <2>1. SUFFICES ASSUME NEW g \in Handlers, tx'[g].phase # "idle"
                 PROVE  /\ ~Recorded(tx[g].req)'
                        /\ tx'[g].phase = "reserved" =>
                             IndexAllows(tx[g].req.net, tx[g].addr)'
    BY DEF InsertsDoNotConflict
  <2>2. CASE g = h
    BY <1>3, <1>8, <2>2 DEF Opens, Fresh, Recorded, Scope
  <2>3. CASE g # h
    <3>1. tx'[g] = tx[g]
      BY <1>3, <2>3
    <3>2. /\ ~Recorded(tx[g].req)
          /\ tx[g].phase = "reserved" => IndexAllows(tx[g].req.net, tx[g].addr)
      BY <2>1, <3>1 DEF LInv, InsertsDoNotConflict
    <3>3. QED  BY <1>8, <3>1, <3>2 DEF Recorded, IndexAllows, Scope
  <2>4. QED  BY <2>2, <2>3
<1>10. RowsHeldAreFree'
  BY <1>3, <1>8 DEF LInv, RowsHeldAreFree, HoldsRow, Open, Opens
<1>11. QED  BY <1>4, <1>5, <1>6, <1>7, <1>9, <1>10

(* An address is reserved while its network is locked, among those no      *)
(* lease keeps.                                                            *)
LEMMA ReserveLocks ==
  ASSUME LInv, NEW h \in Handlers, ReserveIpv4Address(h)
  PROVE  /\ TransactionsOK' /\ ScopesHeldOnce' /\ NetworksHeldOnce' /\ RowsHeldOnce'
         /\ InsertsDoNotConflict' /\ RowsHeldAreFree'
<1> DEFINE r == tx[h].req
           a == AllocateIpv4(r.net)
<1>1. /\ tx \in [Handlers -> {IdleTx} \cup OpenTransactions]
      /\ tx' = [tx EXCEPT ![h].phase = "reserved", ![h].addr = a]
      /\ instances' = instances /\ leases' = leases /\ idem' = idem
      /\ UNCHANGED tableVars
  BY DEF LInv, TransactionsOK, ReserveIpv4Address, tableVars
<1>2. Open(h) /\ r.kind = "create_instance" /\ tx[h] \in OpenTransactions
  BY OpenTransaction DEF LInv, ReserveIpv4Address, Open
<1>3. a \in Assignable(r.net) /\ a \notin Taken(r.net) /\ a \in Nat
  <2>1. Assignable(r.net) \subseteq Nat
    <3>1. r \in CreateInstanceCommands
      BY <1>2 DEF OpenTransactions, OpenCommands, ResizeInstanceCommands,
                  CreateSnapshotCommands
    <3>2. Pools[r.net].hosts \in Nat
      BY <3>1, AcceptanceAssumption DEF CreateInstanceCommands, NetworkTable
    <3>3. QED  BY <3>2 DEF Assignable
  <2>2. Assignable(r.net) \ Taken(r.net) # {}
    BY DEF ReserveIpv4Address
  <2>3. a \in Assignable(r.net) \ Taken(r.net)
    BY <2>1, <2>2, LeastElement DEF AllocateIpv4
  <2>4. QED  BY <2>1, <2>3
<1> HIDE DEF a
<1>4. OpenTransactions' = OpenTransactions
  <2>1. OpenCommands' = OpenCommands
    BY <1>1, UnwrittenTables DEF LInv
  <2>2. QED  BY <2>1 DEF OpenTransactions
<1>5. /\ tx'[h].phase = "reserved" /\ tx'[h].addr = a /\ tx'[h].req = r
      /\ tx'[h].hash = tx[h].hash /\ tx'[h] \in OpenTransactions
      /\ \A g \in Handlers : g # h => tx'[g] = tx[g]
      /\ tx' \in [Handlers -> {IdleTx} \cup OpenTransactions]
  BY <1>1, <1>2, <1>3 DEF OpenTransactions
<1>6. \A g \in Handlers : Open(g)' => Open(g) /\ tx'[g].req = tx[g].req
  BY <1>2, <1>5 DEF Open
<1>7. TransactionsOK'
  <2>1. \A g \in Handlers : tx'[g].hash = tx[g].hash
    BY <1>5
  <2>2. \A g \in Handlers : Open(g)' =>
          /\ Scope(tx[g].req)' \in {Scope(q) : q \in Requests}
          /\ tx'[g].hash = requestHash(tx'[g].req)
    BY <1>6, <2>1 DEF LInv, TransactionsOK, Scope
  <2>3. \A g \in Handlers : HoldsNetwork(g)' =>
          tx'[g].req.kind = "create_instance" /\ tx'[g].addr \in Assignable(tx'[g].req.net)
    <3>1. SUFFICES ASSUME NEW g \in Handlers, HoldsNetwork(g)'
                   PROVE  /\ tx'[g].req.kind = "create_instance"
                          /\ tx'[g].addr \in Assignable(tx'[g].req.net)
      OBVIOUS
    <3>2. CASE g = h
      BY <1>2, <1>3, <1>5, <3>2
    <3>3. CASE g # h
      BY <1>5, <3>1, <3>3 DEF LInv, TransactionsOK, HoldsNetwork, Open
    <3>4. QED  BY <3>2, <3>3
  <2>4. QED
    BY <1>4, <1>5, <2>2, <2>3 DEF TransactionsOK, IdleTx
<1>8. ScopesHeldOnce'
  BY <1>6 DEF LInv, ScopesHeldOnce, Scope
<1>9. RowsHeldOnce' /\ RowsHeldAreFree'
  BY <1>1, <1>6 DEF LInv, RowsHeldOnce, RowsHeldAreFree, HoldsRow
<1>10. NetworksHeldOnce'
  BY <1>5 DEF LInv, NetworksHeldOnce, HoldsNetwork, ReserveIpv4Address, NetworkLocked
<1>11. IndexAllows(r.net, a)
  <2>1. SUFFICES ASSUME NEW i \in DOMAIN leases, leases[i].net = r.net, leases[i].addr = a
                 PROVE  leases[i].state = "released"
    BY DEF IndexAllows
  <2>2. leases[i].state \notin {"active", "quarantined"}
    BY <1>3, <2>1 DEF Taken
  <2>3. leases[i] \in Ipv4LeaseTable
    BY <2>1, Columns, TablePositions DEF LInv
  <2>4. QED  BY <2>2, <2>3 DEF Ipv4LeaseTable
<1>12. InsertsDoNotConflict'
  <2>1. SUFFICES ASSUME NEW g \in Handlers, tx'[g].phase # "idle"
                 PROVE  /\ ~Recorded(tx[g].req)'
                        /\ tx'[g].phase = "reserved" =>
                             IndexAllows(tx[g].req.net, tx[g].addr)'
    BY DEF InsertsDoNotConflict
  <2>2. tx'[g].req = tx[g].req /\ ~Recorded(tx[g].req)
    BY <1>6, <2>1 DEF LInv, InsertsDoNotConflict, Open
  <2>3. ~Recorded(tx[g].req)'
    BY <1>1, <2>2 DEF Recorded, Scope
  <2>4. CASE g = h
    BY <1>1, <1>5, <1>11, <2>3, <2>4 DEF IndexAllows
  <2>5. CASE g # h
    BY <1>1, <1>5, <2>3, <2>5 DEF LInv, InsertsDoNotConflict, IndexAllows
  <2>6. QED  BY <2>4, <2>5
<1>13. QED  BY <1>7, <1>8, <1>9, <1>10, <1>12

(* When transactions only end, those that stay open keep excluding each    *)
(* other.                                                                  *)
LEMMA KeptExclude ==
  ASSUME LInv, \A g \in Handlers : Open(g)' => Open(g) /\ tx'[g] = tx[g]
  PROVE  ScopesHeldOnce' /\ NetworksHeldOnce' /\ RowsHeldOnce'
<1>1. ScopesHeldOnce'
  BY DEF LInv, ScopesHeldOnce, Scope
<1>2. \A g \in Handlers : HoldsNetwork(g)' => HoldsNetwork(g) /\ tx'[g] = tx[g]
  BY DEF HoldsNetwork, Open
<1>3. NetworksHeldOnce'
  BY <1>2 DEF LInv, NetworksHeldOnce
<1>4. RowsHeldOnce'
  BY DEF LInv, RowsHeldOnce, HoldsRow
<1>5. QED  BY <1>1, <1>3, <1>4

(* A rollback gives up its locks.                                          *)
LEMMA RollbackLocks ==
  ASSUME LInv, NEW h \in Handlers, Closes(h), UNCHANGED tableVars
  PROVE  /\ TransactionsOK' /\ ScopesHeldOnce' /\ NetworksHeldOnce' /\ RowsHeldOnce'
         /\ InsertsDoNotConflict' /\ RowsHeldAreFree'
<1>1. OpenCommands' = OpenCommands
  BY UnwrittenTables DEF LInv
<1>2. /\ TransactionsOK'
      /\ \A g \in Handlers : Open(g)' => Open(g) /\ tx'[g] = tx[g]
  BY <1>1, TransactionsKept DEF LInv
<1>3. instances' = instances /\ leases' = leases /\ idem' = idem
  BY DEF tableVars
<1>4. InsertsDoNotConflict'
  BY <1>2, <1>3 DEF LInv, InsertsDoNotConflict, Open, Recorded, IndexAllows, Scope
<1>5. RowsHeldAreFree'
  BY <1>2, <1>3 DEF LInv, RowsHeldAreFree, HoldsRow
<1>6. QED  BY <1>2, <1>4, <1>5, KeptExclude

(* A create ends its transaction; the others have another scope and, where *)
(* they reserved an address, another network.                              *)
LEMMA CreationLocks ==
  ASSUME LInv, NEW h \in Handlers, WriteAcceptanceRecords(h)
  PROVE  /\ TransactionsOK' /\ ScopesHeldOnce' /\ NetworksHeldOnce' /\ RowsHeldOnce'
         /\ InsertsDoNotConflict' /\ RowsHeldAreFree'
<1> DEFINE r == tx[h].req
           i == Len(instances) + 1
<1>1. Closes(h) /\ HoldsNetwork(h) /\ snapshots' = snapshots
  BY DEF WriteAcceptanceRecords, Closes, Open, HoldsNetwork
<1>2. /\ DOMAIN instances' = DOMAIN instances \cup {i}
      /\ \A j \in DOMAIN instances : instances'[j] = instances[j]
      /\ idem' = idem \cup {IdempotencyRecord(r, requestHash(r), ThisOp)}
      /\ DOMAIN leases' = DOMAIN leases \cup {i}
      /\ leases'[i] = [net |-> r.net, addr |-> tx[h].addr, state |-> "active"]
      /\ \A j \in DOMAIN leases : leases'[j] = leases[j]
  BY CreationRows
<1>3. OpenCommands \subseteq OpenCommands'
  BY <1>1, <1>2
     DEF OpenCommands, CreateInstanceCommands, Actors, authenticate, Authenticated,
         ResizeInstanceCommands, CreateSnapshotCommands
<1>4. /\ TransactionsOK'
      /\ \A g \in Handlers : Open(g)' => Open(g) /\ tx'[g] = tx[g]
  BY <1>1, <1>3, TransactionsKept DEF LInv
<1>5. ~Open(h)'
  BY <1>1 DEF Closes, Open, IdleTx, LInv, TransactionsOK
<1>6. InsertsDoNotConflict'
  <2>1. SUFFICES ASSUME NEW g \in Handlers, tx'[g].phase # "idle"
                 PROVE  /\ ~Recorded(tx[g].req)'
                        /\ tx'[g].phase = "reserved" =>
                             IndexAllows(tx[g].req.net, tx[g].addr)'
    BY DEF InsertsDoNotConflict
  <2>2. g # h /\ Open(g) /\ tx'[g] = tx[g]
    BY <1>4, <1>5, <2>1 DEF Open
  <2>3. Scope(tx[g].req) # Scope(r)
    BY <1>1, <2>2 DEF LInv, ScopesHeldOnce, Closes
  <2>4. ~Recorded(tx[g].req)'
    <3>1. ~Recorded(tx[g].req)
      BY <2>2 DEF LInv, InsertsDoNotConflict, Open
    <3>2. IdempotencyRecord(r, requestHash(r), ThisOp).scope = Scope(r)
      BY DEF IdempotencyRecord
    <3>3. QED  BY <1>2, <2>2, <2>3, <3>1, <3>2 DEF Recorded, Scope
  <2>5. ASSUME tx'[g].phase = "reserved"
        PROVE  IndexAllows(tx[g].req.net, tx[g].addr)'
    <3>1. HoldsNetwork(g)
      BY <2>2, <2>5 DEF HoldsNetwork
    <3>2. tx[g].req.net # r.net
      BY <1>1, <2>2, <3>1 DEF LInv, NetworksHeldOnce
    <3>3. IndexAllows(tx[g].req.net, tx[g].addr)
      BY <2>2, <3>1 DEF LInv, InsertsDoNotConflict, Open, HoldsNetwork
    <3>4. QED  BY <1>2, <2>2, <3>2, <3>3 DEF IndexAllows
  <2>6. QED  BY <2>4, <2>5
<1>7. RowsHeldAreFree'
  <2>1. SUFFICES ASSUME NEW g \in Handlers, HoldsRow(g)'
                 PROVE  /\ instances'[tx'[g].req.inst].active = 0
                        /\ instances'[tx'[g].req.inst].life \in MutableLifecycleStates
    BY DEF RowsHeldAreFree
  <2>2. HoldsRow(g) /\ tx'[g] = tx[g]
    BY <1>4, <2>1 DEF HoldsRow
  <2>3. tx[g].req.inst \in DOMAIN instances
    BY <2>2, OpenTransaction
       DEF LInv, HoldsRow, OpenCommands, CreateInstanceCommands, ResizeInstanceCommands,
           CreateSnapshotCommands
  <2>4. QED  BY <1>2, <2>2, <2>3 DEF LInv, RowsHeldAreFree
<1>8. QED  BY <1>4, <1>6, <1>7, KeptExclude

(* The row an open transaction holds is in the table.                      *)
LEMMA HeldRowExists ==
  ASSUME LInv, NEW g \in Handlers, HoldsRow(g)
  PROVE  tx[g].req.inst \in DOMAIN instances
  BY OpenTransaction
     DEF LInv, HoldsRow, OpenCommands, CreateInstanceCommands, ResizeInstanceCommands,
         CreateSnapshotCommands

(* A mutation touches neither the row nor the scope of a transaction that  *)
(* stays open, and brings no released lease back.                          *)
LEMMA MutationLocks ==
  ASSUME LInv, NEW r, NEW i, NEW s, NEW row, Mutates(r, i, s, row)
  PROVE  /\ TransactionsOK' /\ ScopesHeldOnce' /\ NetworksHeldOnce' /\ RowsHeldOnce'
         /\ InsertsDoNotConflict' /\ RowsHeldAreFree'
<1>1. TablesOK
  BY DEF LInv
<1>2. OpenCommands \subseteq OpenCommands'
  BY <1>1, MutationRows
     DEF OpenCommands, CreateInstanceCommands, Actors, authenticate, Authenticated,
         ResizeInstanceCommands, CreateSnapshotCommands
<1>3. /\ TransactionsOK'
      /\ \A g \in Handlers : Open(g)' => Open(g) /\ tx'[g] = tx[g]
  BY <1>2, TransactionsKept DEF LInv, Mutates, LeavesOthers
<1>4. \A g \in Handlers : Open(g)' =>
        /\ Scope(tx[g].req) # Scope(r)
        /\ HoldsRow(g) => tx[g].req.inst # i
  BY DEF Mutates, LeavesOthers
<1>5. InsertsDoNotConflict'
  <2>1. SUFFICES ASSUME NEW g \in Handlers, tx'[g].phase # "idle"
                 PROVE  /\ ~Recorded(tx[g].req)'
                        /\ tx'[g].phase = "reserved" =>
                             IndexAllows(tx[g].req.net, tx[g].addr)'
    BY DEF InsertsDoNotConflict
  <2>2. Open(g) /\ tx'[g] = tx[g] /\ Scope(tx[g].req) # Scope(r)
    BY <1>3, <1>4, <2>1 DEF Open
  <2>3. ~Recorded(tx[g].req)'
    <3>1. ~Recorded(tx[g].req)
      BY <2>2 DEF LInv, InsertsDoNotConflict, Open
    <3>2. IdempotencyRecord(r, requestHash(r), ThisOp).scope = Scope(r)
      BY DEF IdempotencyRecord
    <3>3. idem' = idem \cup {IdempotencyRecord(r, requestHash(r), ThisOp)}
      BY <1>1, MutationOperations
    <3>4. QED  BY <2>2, <3>1, <3>2, <3>3 DEF Recorded, Scope
  <2>4. ASSUME tx'[g].phase = "reserved"
        PROVE  IndexAllows(tx[g].req.net, tx[g].addr)'
    <3>1. IndexAllows(tx[g].req.net, tx[g].addr)
      BY <2>2, <2>4 DEF LInv, InsertsDoNotConflict, Open
    <3>2. QED  BY <1>1, <2>2, <3>1, MutationLeases DEF IndexAllows
  <2>5. QED  BY <2>3, <2>4
<1>6. RowsHeldAreFree'
  <2>1. SUFFICES ASSUME NEW g \in Handlers, HoldsRow(g)'
                 PROVE  /\ instances'[tx'[g].req.inst].active = 0
                        /\ instances'[tx'[g].req.inst].life \in MutableLifecycleStates
    BY DEF RowsHeldAreFree
  <2>2. HoldsRow(g) /\ tx'[g] = tx[g] /\ tx[g].req.inst # i
    BY <1>3, <1>4, <2>1 DEF HoldsRow
  <2>3. instances'[tx[g].req.inst] = instances[tx[g].req.inst]
    BY <1>1, <2>2, HeldRowExists, MutationRows
  <2>4. QED  BY <2>2, <2>3 DEF LInv, RowsHeldAreFree
<1>7. QED  BY <1>3, <1>5, <1>6, KeptExclude

(* An event waits for the row lock of its instance.                        *)
LEMMA CarriedLocks ==
  ASSUME LInv, NEW o \in DOMAIN operations, NEW state \in OperationStates,
         NEW life \in Lifecycles, NEW active \in 0 .. Len(operations),
         Carries(o, state, life, active)
  PROVE  /\ TransactionsOK' /\ ScopesHeldOnce' /\ NetworksHeldOnce' /\ RowsHeldOnce'
         /\ InsertsDoNotConflict' /\ RowsHeldAreFree'
<1> DEFINE i == operations[o].inst
<1>1. TablesOK
  BY DEF LInv
<1>2. tx' = tx /\ leases' = leases /\ idem' = idem /\ ~RowLocked(i)
  BY DEF Carries
<1>3. /\ DOMAIN instances' = DOMAIN instances
      /\ \A j \in DOMAIN instances : j # i => instances'[j] = instances[j]
  BY <1>1, CarriedRows
<1>4. OpenCommands \subseteq OpenCommands'
  BY <1>3
     DEF OpenCommands, CreateInstanceCommands, Actors, authenticate, Authenticated,
         ResizeInstanceCommands, CreateSnapshotCommands
<1>5. /\ TransactionsOK'
      /\ \A g \in Handlers : Open(g)' => Open(g) /\ tx'[g] = tx[g]
  BY <1>2, <1>4, TransactionsKept DEF LInv
<1>6. InsertsDoNotConflict'
  BY <1>2 DEF LInv, InsertsDoNotConflict, Recorded, IndexAllows, Scope
<1>7. RowsHeldAreFree'
  <2>1. SUFFICES ASSUME NEW g \in Handlers, HoldsRow(g)'
                 PROVE  /\ instances'[tx'[g].req.inst].active = 0
                        /\ instances'[tx'[g].req.inst].life \in MutableLifecycleStates
    BY DEF RowsHeldAreFree
  <2>2. HoldsRow(g) /\ tx'[g] = tx[g]
    BY <1>2, <2>1 DEF HoldsRow, Open
  <2>3. tx[g].req.inst # i
    BY <1>2, <2>2 DEF RowLocked, HoldsRow, Open
  <2>4. instances'[tx[g].req.inst] = instances[tx[g].req.inst]
    BY <1>3, <2>2, <2>3, HeldRowExists
  <2>5. QED  BY <2>2, <2>4 DEF LInv, RowsHeldAreFree
<1>8. QED  BY <1>5, <1>6, <1>7, KeptExclude

(* A deadline has nothing to do with locks.                                *)
LEMMA DeadlineLocks ==
  ASSUME LInv, NEW i \in DOMAIN instances, DeadlinePasses(i)
  PROVE  /\ TransactionsOK' /\ ScopesHeldOnce' /\ NetworksHeldOnce' /\ RowsHeldOnce'
         /\ InsertsDoNotConflict' /\ RowsHeldAreFree'
<1>1. tx' = tx /\ leases' = leases /\ idem' = idem
  BY DEF DeadlinePasses
<1>2. /\ DOMAIN instances' = DOMAIN instances
      /\ \A j \in DOMAIN instances : /\ instances'[j].life = instances[j].life
                                     /\ instances'[j].active = instances[j].active
  BY DeadlineRows DEF LInv
<1>3. OpenCommands \subseteq OpenCommands'
  BY <1>2
     DEF OpenCommands, CreateInstanceCommands, Actors, authenticate, Authenticated,
         ResizeInstanceCommands, CreateSnapshotCommands
<1>4. /\ TransactionsOK'
      /\ \A g \in Handlers : Open(g)' => Open(g) /\ tx'[g] = tx[g]
  BY <1>1, <1>3, TransactionsKept DEF LInv
<1>5. InsertsDoNotConflict'
  BY <1>1 DEF LInv, InsertsDoNotConflict, Recorded, IndexAllows, Scope
<1>6. RowsHeldAreFree'
  <2>1. SUFFICES ASSUME NEW g \in Handlers, HoldsRow(g)'
                 PROVE  /\ instances'[tx'[g].req.inst].active = 0
                        /\ instances'[tx'[g].req.inst].life \in MutableLifecycleStates
    BY DEF RowsHeldAreFree
  <2>2. HoldsRow(g) /\ tx'[g] = tx[g]
    BY <1>1, <2>1 DEF HoldsRow, Open
  <2>3. QED  BY <1>2, <2>2, HeldRowExists DEF LInv, RowsHeldAreFree
<1>7. QED  BY <1>4, <1>5, <1>6, KeptExclude

-----------------------------------------------------------------------------
(* The records of the operations.                                          *)

(* A new record is found by its own operation only.                        *)
LEMMA NewRecord ==
  ASSUME OperationsRecorded, NEW r, NEW n, ~Recorded(r),
         DOMAIN operations' = DOMAIN operations \cup {n},
         operations'[n].req = r,
         \A o \in DOMAIN operations : operations'[o] = operations[o],
         n \notin DOMAIN operations,
         idem' = idem \cup {IdempotencyRecord(r, requestHash(r), n)}
  PROVE  OperationsRecorded'
<1> DEFINE new == IdempotencyRecord(r, requestHash(r), n)
<1>1. new.scope = Scope(r)
  BY DEF IdempotencyRecord
<1>2. SUFFICES ASSUME NEW o \in DOMAIN operations'
               PROVE  {e \in idem' : e.scope = Scope(operations'[o].req)} =
                        {IdempotencyRecord(operations'[o].req,
                                           requestHash(operations'[o].req), o)}
  BY DEF OperationsRecorded, Scope
<1>3. CASE o = n
  <2>1. \A e \in idem : e.scope # Scope(r)
    BY DEF Recorded
  <2> HIDE DEF new
  <2>2. {e \in idem \cup {new} : e.scope = Scope(r)} = {new}
    BY <1>1, <2>1
  <2>3. QED  BY <1>3, <2>2 DEF new
<1>4. CASE o \in DOMAIN operations
  <2> DEFINE q == operations[o].req
             old == IdempotencyRecord(q, requestHash(q), o)
  <2>1. {e \in idem : e.scope = Scope(q)} = {old}
    BY <1>4 DEF OperationsRecorded
  <2>2. old.scope = Scope(q)
    BY DEF IdempotencyRecord
  <2>3. old \in idem
    BY <2>1
  <2>4. Scope(q) # Scope(r)
    BY <2>2, <2>3 DEF Recorded
  <2> HIDE DEF old, new
  <2>5. {e \in idem \cup {new} : e.scope = Scope(q)} = {old}
    BY <1>1, <2>1, <2>4
  <2>6. operations'[o] = operations[o] /\ idem' = idem \cup {new}
    BY <1>4 DEF new
  <2>7. QED  BY <2>5, <2>6 DEF old
<1>5. QED  BY <1>3, <1>4

(* Every step leaves each operation its record.                            *)
LEMMA RecordsStep ==
  ASSUME LInv, StepKinds \/ UNCHANGED acceptVars
  PROVE  OperationsRecorded'
<1>1. TablesOK /\ OperationsRecorded
  BY DEF LInv
<1>2. ASSUME operations' = operations, idem' = idem
      PROVE  OperationsRecorded'
  BY <1>1, <1>2 DEF OperationsRecorded, Scope
<1>3. ASSUME NEW h \in Handlers, WriteAcceptanceRecords(h)
      PROVE  OperationsRecorded'
  <2> DEFINE r == tx[h].req
  <2>1. /\ DOMAIN operations' = DOMAIN operations \cup {ThisOp}
        /\ operations'[ThisOp] = NewOp(r, Len(instances) + 1, 0)
        /\ \A o \in DOMAIN operations : operations'[o] = operations[o]
        /\ idem' = idem \cup {IdempotencyRecord(r, requestHash(r), ThisOp)}
    BY <1>3, CreationRows
  <2>2. operations'[ThisOp].req = r /\ ThisOp \notin DOMAIN operations
    BY <1>1, <2>1, TablePositions DEF NewOp
  <2>3. ~Recorded(r)
    BY <1>3 DEF WriteAcceptanceRecords, Recorded
  <2>4. QED  BY <1>1, <2>1, <2>2, <2>3, NewRecord
<1>4. ASSUME NEW r, NEW i, NEW s, NEW row, Mutates(r, i, s, row)
      PROVE  OperationsRecorded'
  <2>1. /\ DOMAIN operations' = DOMAIN operations \cup {ThisOp}
        /\ ThisOp \notin DOMAIN operations
        /\ operations'[ThisOp] = NewOp(r, i, s)
        /\ \A o \in DOMAIN operations : operations'[o] = operations[o]
        /\ idem' = idem \cup {IdempotencyRecord(r, requestHash(r), ThisOp)}
    BY <1>1, <1>4, MutationOperations
  <2>2. operations'[ThisOp].req = r /\ ~Recorded(r)
    BY <1>4, <2>1 DEF NewOp, Mutates
  <2>3. QED  BY <1>1, <2>1, <2>2, NewRecord
<1>5. ASSUME NEW o \in DOMAIN operations, NEW state \in OperationStates,
             NEW life \in Lifecycles, NEW active \in 0 .. Len(operations),
             Carries(o, state, life, active)
      PROVE  OperationsRecorded'
  <2>1. /\ DOMAIN operations' = DOMAIN operations
        /\ operations'[o].req = operations[o].req
        /\ \A q \in DOMAIN operations : q # o => operations'[q] = operations[q]
    BY <1>1, <1>5, CarriedRows
  <2>2. \A q \in DOMAIN operations : operations'[q].req = operations[q].req
    BY <2>1
  <2>3. idem' = idem
    BY <1>5 DEF Carries
  <2>4. QED  BY <1>1, <2>1, <2>2, <2>3 DEF OperationsRecorded, Scope
<1>6. CASE UNCHANGED acceptVars
  BY <1>2, <1>6 DEF acceptVars
<1>7. ASSUME NEW h \in Handlers, NEW r \in OpenCommands, Opens(h, r)
      PROVE  OperationsRecorded'
  BY <1>2, <1>7 DEF Opens, tableVars
<1>8. ASSUME NEW h \in Handlers,
             ReserveIpv4Address(h) \/ (Closes(h) /\ UNCHANGED tableVars)
      PROVE  OperationsRecorded'
  BY <1>2, <1>8 DEF ReserveIpv4Address, tableVars
<1>9. ASSUME NEW i \in DOMAIN instances, DeadlinePasses(i)
      PROVE  OperationsRecorded'
  BY <1>2, <1>9 DEF DeadlinePasses
<1>10. QED
  BY <1>3, <1>4, <1>5, <1>6, <1>7, <1>8, <1>9, Zenon
     DEF StepKinds, AcceptKinds, EventKind

(* Every step keeps the locks, in whichever order events are applied.      *)
LEMMA LocksPreserved ==
  ASSUME LInv, StepKinds \/ UNCHANGED acceptVars
  PROVE  LInv'
<1> DEFINE Locks == /\ TransactionsOK' /\ ScopesHeldOnce' /\ NetworksHeldOnce'
                    /\ RowsHeldOnce' /\ InsertsDoNotConflict' /\ RowsHeldAreFree'
<1>1. ASSUME NEW h \in Handlers, NEW r \in OpenCommands, Opens(h, r)
      PROVE  Locks
  BY <1>1, OpensLocks
<1>2. ASSUME NEW h \in Handlers, ReserveIpv4Address(h)
      PROVE  Locks
  BY <1>2, ReserveLocks
<1>3. ASSUME NEW h \in Handlers, Closes(h) /\ UNCHANGED tableVars
      PROVE  Locks
  BY <1>3, RollbackLocks
<1>4. ASSUME NEW h \in Handlers, WriteAcceptanceRecords(h)
      PROVE  Locks
  BY <1>4, CreationLocks
<1>5. ASSUME NEW r, NEW i, NEW s, NEW row, Mutates(r, i, s, row)
      PROVE  Locks
  BY <1>5, MutationLocks
<1>6. ASSUME NEW i \in DOMAIN instances, DeadlinePasses(i)
      PROVE  Locks
  BY <1>6, DeadlineLocks
<1>7. ASSUME NEW o \in DOMAIN operations, EventKind(o)
      PROVE  Locks
  BY <1>7, CarriedLocks DEF EventKind
<1>8. ASSUME UNCHANGED acceptVars  PROVE Locks
  <2>1. UNCHANGED tableVars /\ tx' = tx
    BY <1>8 DEF acceptVars, tableVars
  <2>2. instances' = instances /\ leases' = leases /\ idem' = idem
    BY <2>1 DEF tableVars
  <2>3. OpenCommands' = OpenCommands
    BY <2>1, UnwrittenTables DEF LInv
  <2>4. /\ TransactionsOK'
        /\ \A g \in Handlers : Open(g)' => Open(g) /\ tx'[g] = tx[g]
    BY <2>1, <2>3, TransactionsKept DEF LInv
  <2>5. InsertsDoNotConflict'
    BY <2>1, <2>2 DEF LInv, InsertsDoNotConflict, Recorded, IndexAllows, Scope
  <2>6. RowsHeldAreFree'
    BY <2>2, <2>4 DEF LInv, RowsHeldAreFree, HoldsRow
  <2>7. QED  BY <2>4, <2>5, <2>6, KeptExclude
<1> HIDE DEF Locks
<1>9. Locks
  BY <1>1, <1>2, <1>3, <1>4, <1>5, <1>6, <1>7, <1>8, Zenon DEF StepKinds, AcceptKinds
<1>10. QED  BY <1>9, TablesOKStep, RecordsStep DEF LInv, Locks

-----------------------------------------------------------------------------
(* What the tables say of each other.                                      *)

TablesAgree ==
  /\ UnfinishedIsActive
  /\ LeasesUnique /\ LeasesAssignable /\ LeasesKept
  /\ RetainedBefore /\ SnapshotsSettle

(* A step that writes no table changes none of it.                         *)
LEMMA UnwrittenAgree ==
  ASSUME TablesAgree, UNCHANGED tableVars
  PROVE  TablesAgree'
<1>1. /\ instances' = instances /\ operations' = operations
      /\ leases' = leases /\ snapshots' = snapshots /\ idem' = idem
  BY DEF tableVars
<1>2. UnfinishedIsActive' /\ SnapshotsSettle'
  BY <1>1 DEF TablesAgree, UnfinishedIsActive, Unfinished, SnapshotsSettle
<1>3. LeasesUnique' /\ LeasesAssignable' /\ LeasesKept'
  BY <1>1 DEF TablesAgree, LeasesUnique, LeasesAssignable, LeasesKept, Assignable
<1>4. RetainedBefore'
  BY <1>1 DEF TablesAgree, RetainedBefore, Retained, Unfinished
<1>5. QED  BY <1>2, <1>3, <1>4 DEF TablesAgree

(* Operations that are kept or added leave a retention found.              *)
LEMMA RetainedKept ==
  ASSUME NEW i, Retained(i), DOMAIN operations \subseteq DOMAIN operations',
         \A o \in DOMAIN operations :
           /\ operations'[o].inst = operations[o].inst
           /\ operations'[o].req = operations[o].req
           /\ operations[o].state = "succeeded" => operations'[o].state = "succeeded"
  PROVE  Retained(i)'
  BY DEF Retained

(* A create adds an instance with an unfinished operation, a record and an *)
(* address that no lease keeps.                                            *)
LEMMA CreationAgrees ==
  ASSUME AInv, NEW h \in Handlers, WriteAcceptanceRecords(h)
  PROVE  TablesAgree'
<1> DEFINE r == tx[h].req
           i == Len(instances) + 1
<1>1. /\ r.kind = "create_instance"
      /\ DOMAIN instances' = DOMAIN instances \cup {i} /\ i \notin DOMAIN instances
      /\ instances'[i].active = ThisOp
      /\ instances'[i].life = "pending"
      /\ \A j \in DOMAIN instances : instances'[j] = instances[j]
      /\ DOMAIN operations' = DOMAIN operations \cup {ThisOp}
      /\ operations'[ThisOp] = NewOp(r, i, 0)
      /\ \A o \in DOMAIN operations : operations'[o] = operations[o]
      /\ idem' = idem \cup {IdempotencyRecord(r, requestHash(r), ThisOp)}
      /\ DOMAIN leases' = DOMAIN leases \cup {i} /\ i \notin DOMAIN leases
      /\ leases'[i] = [net |-> r.net, addr |-> tx[h].addr, state |-> "active"]
      /\ \A j \in DOMAIN leases : leases'[j] = leases[j]
  BY CreationRows DEF AInv
<1>2. /\ operations'[ThisOp].req = r /\ operations'[ThisOp].inst = i
      /\ operations'[ThisOp].state = "accepted"
  BY <1>1 DEF NewOp
<1>3. TablesOK /\ ThisOp \notin DOMAIN operations
  BY TablePositions DEF AInv, LInv
<1>4. \A o \in DOMAIN operations : operations[o].inst \in DOMAIN instances
  BY <1>3, Columns DEF OperationTable
<1>5. UnfinishedIsActive'
  BY <1>1, <1>2, <1>4 DEF AInv, UnfinishedIsActive, Unfinished
<1>6. LeasesUnique' /\ LeasesAssignable' /\ LeasesKept'
  <2>1. IndexAllows(r.net, tx[h].addr) /\ tx[h].addr \in Assignable(r.net)
    BY DEF WriteAcceptanceRecords, AInv, LInv, TransactionsOK, Open, HoldsNetwork
  <2>2. /\ leases'[i].net = r.net /\ leases'[i].addr = tx[h].addr
        /\ leases'[i].state = "active"
    BY <1>1
  <2>3. LeasesUnique'
    BY <1>1, <2>1, <2>2 DEF AInv, LeasesUnique, IndexAllows
  <2>4. LeasesAssignable'
    BY <1>1, <2>1, <2>2 DEF AInv, LeasesAssignable, Assignable
  <2>5. LeasesKept'
    BY <1>1, <2>2 DEF AInv, LeasesKept
  <2>6. QED  BY <2>3, <2>4, <2>5
<1>7. RetainedBefore'
  <2>1. \A j \in DOMAIN instances : Retained(j) => Retained(j)'
    BY <1>1, RetainedKept
  <2>2. QED
    BY <1>1, <1>2, <1>4, <2>1 DEF AInv, RetainedBefore, Unfinished
<1>8. SnapshotsSettle'
  <2>1. snapshots' = snapshots
    BY DEF WriteAcceptanceRecords
  <2>2. QED  BY <1>1, <2>1 DEF AInv, SnapshotsSettle
<1>9. QED  BY <1>5, <1>6, <1>7, <1>8 DEF TablesAgree

(* A mutation makes an idle instance busy with its own operation.          *)
LEMMA MutationAgrees ==
  ASSUME AInv, NEW r, NEW i, NEW s, NEW row, Mutates(r, i, s, row)
  PROVE  TablesAgree'
<1>1. TablesOK
  BY DEF AInv, LInv
<1>2. /\ i \in DOMAIN instances /\ instances[i].active = 0 /\ ~Recorded(r)
      /\ DOMAIN instances' = DOMAIN instances
      /\ instances'[i] = row /\ row.active = ThisOp
      /\ \A j \in DOMAIN instances : j # i => instances'[j] = instances[j]
  BY <1>1, MutationRows DEF Mutates
<1>3. /\ DOMAIN operations' = DOMAIN operations \cup {ThisOp}
      /\ ThisOp \in Nat /\ ThisOp # 0 /\ ThisOp \notin DOMAIN operations
      /\ operations'[ThisOp] = NewOp(r, i, s)
      /\ \A o \in DOMAIN operations : operations'[o] = operations[o]
      /\ idem' = idem \cup {IdempotencyRecord(r, requestHash(r), ThisOp)}
  BY <1>1, MutationOperations
<1>4. /\ operations'[ThisOp].req = r /\ operations'[ThisOp].inst = i
      /\ operations'[ThisOp].state = "accepted" /\ operations'[ThisOp].snap = s
  BY <1>3 DEF NewOp
<1>5. \A o \in DOMAIN operations :
        /\ operations[o].inst \in DOMAIN instances
        /\ o # 0
        /\ Unfinished(o) => operations[o].inst # i
  <2>1. \A o \in DOMAIN operations : operations[o].inst \in DOMAIN instances /\ o # 0
    BY <1>1, Columns, TablePositions DEF OperationTable
  <2>2. QED  BY <1>2, <2>1 DEF AInv, UnfinishedIsActive
<1>6. UnfinishedIsActive'
  BY <1>2, <1>3, <1>4, <1>5 DEF AInv, UnfinishedIsActive, Unfinished
<1>7. LeasesUnique' /\ LeasesAssignable' /\ LeasesKept'
  <2>1. LeasesUnique'
    BY <1>1, MutationLeases DEF AInv, LeasesUnique
  <2>2. LeasesAssignable'
    BY <1>1, MutationLeases DEF AInv, LeasesAssignable, Assignable
  <2>3. LeasesKept'
    BY <1>1, MutationLeases DEF AInv, LeasesKept
  <2>4. QED  BY <2>1, <2>2, <2>3
<1>8. RetainedBefore'
  <2>1. \A j \in DOMAIN instances : Retained(j) => Retained(j)'
    BY <1>3, RetainedKept
  <2>2. \/ /\ r.kind # "purge_instance"
           /\ row.life = instances[i].life /\ row.deadline = instances[i].deadline
        \/ r.kind = "retain_instance" /\ row.life = "deleting"
        \/ /\ r.kind = "purge_instance"
           /\ instances[i].life = "retained" /\ instances[i].deadline = "passed"
           /\ row.life = "purge_pending" /\ row.deadline = "passed"
    BY DEF Mutates, RowAccepted
  <2>3. /\ row.life \in {"retained", "purge_pending", "purged"} => Retained(i)
        /\ row.life \in {"purge_pending", "purged"} => row.deadline = "passed"
        /\ r.kind = "purge_instance" => Retained(i) /\ row.deadline = "passed"
    BY <1>2, <2>2 DEF AInv, RetainedBefore
  <2>4. \A j \in DOMAIN instances' :
          /\ instances'[j].life \in {"retained", "purge_pending", "purged"} => Retained(j)'
          /\ instances'[j].life \in {"purge_pending", "purged"} =>
               instances'[j].deadline = "passed"
    BY <1>2, <2>1, <2>3 DEF AInv, RetainedBefore
  <2>5. ASSUME NEW o \in DOMAIN operations', Unfinished(o)',
               operations'[o].req.kind = "purge_instance",
               NEW j, j = operations'[o].inst
        PROVE  Retained(j)' /\ instances'[j].deadline = "passed"
    <3>1. CASE o = ThisOp
      BY <1>2, <1>4, <2>1, <2>3, <2>5, <3>1
    <3>2. CASE o \in DOMAIN operations
      <4>1. Unfinished(o) /\ operations[o].req.kind = "purge_instance" /\ j = operations[o].inst
        BY <1>3, <2>5, <3>2 DEF Unfinished
      <4>2. j \in DOMAIN instances /\ j # i
        BY <1>5, <3>2, <4>1
      <4>3. Retained(j) /\ instances[j].deadline = "passed"
        BY <3>2, <4>1 DEF AInv, RetainedBefore
      <4>4. QED  BY <1>2, <2>1, <4>2, <4>3
    <3>3. QED  BY <1>3, <3>1, <3>2
  <2>6. \A o \in DOMAIN operations' :
          Unfinished(o)' /\ operations'[o].req.kind = "purge_instance" =>
            Retained(operations[o].inst)' /\ instances'[operations'[o].inst].deadline = "passed"
    BY <2>5 DEF Retained
  <2>7. QED  BY <2>4, <2>6 DEF RetainedBefore
<1>9. SnapshotsSettle'
  <2>1. SUFFICES ASSUME NEW t \in DOMAIN snapshots', snapshots'[t].state \in Transitional
                 PROVE  \E o \in DOMAIN operations' : operations'[o].snap = t
                                                      /\ operations'[o].state # "succeeded"
    BY DEF SnapshotsSettle
  <2>2. CASE t = s
    BY <1>3, <1>4, <2>2
  <2>3. CASE t # s
    <3>1. t \in DOMAIN snapshots /\ snapshots'[t] = snapshots[t]
      BY <1>1, <2>1, <2>3, MutationSnapshots
    <3>2. PICK o \in DOMAIN operations :
                 operations[o].snap = t /\ operations[o].state # "succeeded"
      BY <2>1, <3>1 DEF AInv, SnapshotsSettle
    <3>3. QED  BY <1>3, <3>2
  <2>4. QED  BY <2>2, <2>3
<1>10. QED  BY <1>6, <1>7, <1>8, <1>9 DEF TablesAgree

(* A deadline that passes can only make a purge admissible.                *)
LEMMA DeadlineAgrees ==
  ASSUME AInv, NEW i \in DOMAIN instances, DeadlinePasses(i)
  PROVE  TablesAgree'
<1>1. TablesOK
  BY DEF AInv, LInv
<1>2. /\ operations' = operations /\ leases' = leases /\ snapshots' = snapshots
      /\ idem' = idem
  BY DEF DeadlinePasses
<1>3. /\ DOMAIN instances' = DOMAIN instances
      /\ \A j \in DOMAIN instances : /\ instances'[j].life = instances[j].life
                                     /\ instances'[j].active = instances[j].active
                                     /\ instances[j].deadline = "passed" =>
                                          instances'[j].deadline = "passed"
  BY <1>1, DeadlineRows
<1>4. \A o \in DOMAIN operations : operations[o].inst \in DOMAIN instances
  BY <1>1, Columns DEF OperationTable
<1>5. UnfinishedIsActive'
  BY <1>2, <1>3, <1>4 DEF AInv, UnfinishedIsActive, Unfinished
<1>6. SnapshotsSettle'
  BY <1>2 DEF AInv, SnapshotsSettle
<1>7. LeasesUnique' /\ LeasesAssignable' /\ LeasesKept'
  BY <1>2 DEF AInv, LeasesUnique, LeasesAssignable, LeasesKept, Assignable
<1>8. RetainedBefore'
  BY <1>2, <1>3, <1>4 DEF AInv, RetainedBefore, Retained, Unfinished
<1>9. QED  BY <1>5, <1>6, <1>7, <1>8 DEF TablesAgree

(* An event ends its own operation and frees the instance that names it.   *)
LEMMA CarriedAgrees ==
  ASSUME AInv, NEW o \in DOMAIN operations, NEW state \in OperationStates,
         NEW life \in Lifecycles, NEW active \in 0 .. Len(operations),
         Carries(o, state, life, active), Unfinished(o)
  PROVE  TablesAgree'
<1> DEFINE i == operations[o].inst
<1>1. TablesOK
  BY DEF AInv, LInv
<1>2. /\ i \in DOMAIN instances
      /\ DOMAIN instances' = DOMAIN instances
      /\ \A j \in DOMAIN instances : j # i => instances'[j] = instances[j]
      /\ DOMAIN operations' = DOMAIN operations
      /\ \A q \in DOMAIN operations : q # o => operations'[q] = operations[q]
      /\ DOMAIN snapshots' = DOMAIN snapshots
      /\ \A s \in DOMAIN snapshots :
           s # operations[o].snap => snapshots'[s] = snapshots[s]
      /\ \A s \in DOMAIN snapshots :
           s = operations[o].snap /\ state = "succeeded"
             => snapshots'[s].state \in {"deleted", "available"}
  BY <1>1, CarriedRows
<1>3. /\ instances'[i].life = life /\ instances'[i].active = active
      /\ instances'[i].deadline = instances[i].deadline
      /\ operations'[o].state = state /\ operations'[o].inst = i
      /\ operations'[o].req = operations[o].req
      /\ operations'[o].snap = operations[o].snap
  BY <1>1, CarriedRows
<1>4. Unfinished(o) /\ leases' = leases /\ idem' = idem
  BY DEF Carries
<1>5. \A q \in DOMAIN operations :
        /\ operations[q].inst \in DOMAIN instances
        /\ q # o /\ Unfinished(q) => operations[q].inst # i
  <2>1. \A q \in DOMAIN operations : operations[q].inst \in DOMAIN instances
    BY <1>1, Columns DEF OperationTable
  <2>2. QED  BY <1>4, <2>1 DEF AInv, UnfinishedIsActive
<1>6. \A q \in DOMAIN operations :
        /\ operations'[q].inst = operations[q].inst
        /\ operations'[q].req = operations[q].req
        /\ operations'[q].snap = operations[q].snap
        /\ operations[q].state = "succeeded" => operations'[q].state = "succeeded"
  BY <1>2, <1>3, <1>4 DEF Unfinished
<1>7. UnfinishedIsActive'
  <2>1. SUFFICES ASSUME NEW q \in DOMAIN operations', Unfinished(q)'
                 PROVE  instances'[operations'[q].inst].active = q
    BY DEF UnfinishedIsActive
  <2>2. CASE q = o
    <3>1. state = "running" /\ active = instances[i].active
      BY <1>3, <2>1, <2>2 DEF Carries, Unfinished
    <3>2. instances[i].active = o
      BY <1>4 DEF AInv, UnfinishedIsActive
    <3>3. QED  BY <1>3, <2>2, <3>1, <3>2
  <2>3. CASE q # o
    BY <1>2, <1>5, <2>1, <2>3 DEF AInv, UnfinishedIsActive, Unfinished
  <2>4. QED  BY <2>2, <2>3
<1>8. LeasesUnique' /\ LeasesAssignable' /\ LeasesKept'
  BY <1>4 DEF AInv, LeasesUnique, LeasesAssignable, LeasesKept, Assignable
<1>9. RetainedBefore'
  <2>1. \A j \in DOMAIN instances : Retained(j) => Retained(j)'
    BY <1>2, <1>6, RetainedKept
  <2>2. ASSUME NEW k, k = i
        PROVE  /\ life \in {"retained", "purge_pending", "purged"} => Retained(k)'
               /\ life \in {"purge_pending", "purged"} => instances[k].deadline = "passed"
    <3>1. CASE life = "retained"
      <4>1. state = "succeeded" /\ operations[o].req.kind = "retain_instance"
        BY <3>1 DEF Carries, LifecycleAfter
      <4>2. /\ o \in DOMAIN operations' /\ operations'[o].inst = k
            /\ operations'[o].req.kind = "retain_instance"
            /\ operations'[o].state = "succeeded"
        BY <1>2, <1>3, <2>2, <4>1
      <4>3. QED  BY <3>1, <4>2 DEF Retained
    <3>2. CASE life \in {"purge_pending", "purged"}
      <4>1. operations[o].req.kind = "purge_instance"
        BY <3>2 DEF Carries, LifecycleAfter
      <4>2. Retained(k) /\ instances[k].deadline = "passed"
        BY <1>4, <2>2, <4>1 DEF AInv, RetainedBefore
      <4>3. QED  BY <1>2, <2>1, <2>2, <4>2
    <3>3. QED  BY <3>1, <3>2
  <2>3. ASSUME NEW j \in DOMAIN instances'
        PROVE  /\ instances'[j].life \in {"retained", "purge_pending", "purged"} =>
                    Retained(j)'
               /\ instances'[j].life \in {"purge_pending", "purged"} =>
                    instances'[j].deadline = "passed"
    <3>1. CASE j = i
      BY <1>3, <2>2, <3>1
    <3>2. CASE j # i
      <4>1. instances'[j] = instances[j] /\ j \in DOMAIN instances
        BY <1>2, <3>2
      <4>2. QED  BY <2>1, <4>1 DEF AInv, RetainedBefore
    <3>3. QED  BY <3>1, <3>2
  <2>4. ASSUME NEW q \in DOMAIN operations', Unfinished(q)',
               operations'[q].req.kind = "purge_instance",
               NEW j, j = operations'[q].inst
        PROVE  Retained(j)' /\ instances'[j].deadline = "passed"
    <3>1. Unfinished(q)
      BY <1>2, <1>4, <2>4 DEF Unfinished
    <3>2. /\ j = operations[q].inst /\ operations[q].req.kind = "purge_instance"
          /\ j \in DOMAIN instances
      BY <1>2, <1>5, <1>6, <2>4
    <3>3. Retained(j) /\ instances[j].deadline = "passed"
      BY <1>2, <2>4, <3>1, <3>2 DEF AInv, RetainedBefore
    <3>4. QED  BY <1>2, <1>3, <2>1, <3>2, <3>3
  <2>5. \A q \in DOMAIN operations' :
          Unfinished(q)' /\ operations'[q].req.kind = "purge_instance" =>
            Retained(operations[q].inst)' /\ instances'[operations'[q].inst].deadline = "passed"
    BY <2>4 DEF Retained
  <2>6. QED  BY <2>3, <2>5 DEF RetainedBefore
<1>10. SnapshotsSettle'
  <2>1. SUFFICES ASSUME NEW s \in DOMAIN snapshots', snapshots'[s].state \in Transitional
                 PROVE  \E q \in DOMAIN operations' : operations'[q].snap = s
                                                      /\ operations'[q].state # "succeeded"
    BY DEF SnapshotsSettle
  <2>2. CASE s = operations[o].snap
    <3>1. state # "succeeded"
      BY <1>2, <2>1, <2>2 DEF Transitional
    <3>2. QED  BY <1>2, <1>3, <2>2, <3>1
  <2>3. CASE s # operations[o].snap
    <3>1. PICK q \in DOMAIN operations :
                 operations[q].snap = s /\ operations[q].state # "succeeded"
      BY <1>2, <2>1, <2>3 DEF AInv, SnapshotsSettle
    <3>2. q # o
      BY <2>3, <3>1
    <3>3. QED  BY <1>2, <3>1, <3>2
  <2>4. QED  BY <2>2, <2>3
<1>11. QED  BY <1>7, <1>8, <1>9, <1>10 DEF TablesAgree

-----------------------------------------------------------------------------
(* The invariant is preserved, by an event when its operation was not over.*)
LEMMA KindsPreserve ==
  ASSUME AInv,
         \/ AcceptKinds
         \/ \E o \in DOMAIN operations : Unfinished(o) /\ EventKind(o)
         \/ UNCHANGED acceptVars
  PROVE  AInv'
<1>1. TablesAgree /\ LInv
  BY DEF AInv, TablesAgree
<1>2. ASSUME UNCHANGED tableVars  PROVE TablesAgree'
  BY <1>1, <1>2, UnwrittenAgree
<1>3. ASSUME NEW h \in Handlers, NEW r \in OpenCommands, Opens(h, r)
      PROVE  TablesAgree'
  BY <1>2, <1>3 DEF Opens
<1>4. ASSUME NEW h \in Handlers, ReserveIpv4Address(h)
      PROVE  TablesAgree'
  BY <1>2, <1>4 DEF ReserveIpv4Address, tableVars
<1>5. ASSUME NEW h \in Handlers, WriteAcceptanceRecords(h)
      PROVE  TablesAgree'
  BY <1>5, CreationAgrees
<1>6. ASSUME NEW r, NEW i, NEW s, NEW row, Mutates(r, i, s, row)
      PROVE  TablesAgree'
  BY <1>6, MutationAgrees
<1>7. ASSUME NEW i \in DOMAIN instances, DeadlinePasses(i)
      PROVE  TablesAgree'
  BY <1>7, DeadlineAgrees
<1>8. ASSUME NEW o \in DOMAIN operations, Unfinished(o), EventKind(o)
      PROVE  TablesAgree'
  BY <1>8, CarriedAgrees DEF EventKind
<1>9. ASSUME UNCHANGED acceptVars  PROVE TablesAgree'
  BY <1>2, <1>9 DEF acceptVars, tableVars
<1>10. TablesAgree'
  BY <1>2, <1>3, <1>4, <1>5, <1>6, <1>7, <1>8, <1>9, Zenon DEF AcceptKinds
<1>11. LInv'
  BY <1>1, LocksPreserved DEF StepKinds
<1>12. QED  BY <1>10, <1>11 DEF AInv, TablesAgree

(* The empty tables satisfy it.                                            *)
LEMMA InitAInv == Init => AInv /\ LInv
<1> SUFFICES ASSUME Init PROVE AInv /\ LInv
  OBVIOUS
<1>1. /\ instances = << >> /\ docs = << >> /\ operations = << >>
      /\ leases = << >> /\ snapshots = << >> /\ idem = {}
      /\ tx = [h \in Handlers |-> IdleTx]
  BY DEF Init
<1>2. TablesOK
  BY <1>1 DEF TablesOK
<1>3. \A h \in Handlers : tx[h] = IdleTx /\ ~Open(h) /\ ~HoldsNetwork(h) /\ ~HoldsRow(h)
  BY <1>1 DEF Open, HoldsNetwork, HoldsRow, IdleTx
<1>4. TransactionsOK
  BY <1>1, <1>3 DEF TransactionsOK
<1>5. /\ ScopesHeldOnce /\ NetworksHeldOnce /\ RowsHeldOnce /\ RowsHeldAreFree
      /\ InsertsDoNotConflict
  BY <1>3 DEF ScopesHeldOnce, NetworksHeldOnce, RowsHeldOnce, RowsHeldAreFree,
              InsertsDoNotConflict, Open
<1>6. /\ UnfinishedIsActive /\ OperationsRecorded /\ LeasesUnique /\ LeasesAssignable
      /\ LeasesKept /\ RetainedBefore /\ SnapshotsSettle
  BY <1>1 DEF UnfinishedIsActive, OperationsRecorded, LeasesUnique, LeasesAssignable,
              LeasesKept, RetainedBefore, SnapshotsSettle
<1>7. QED  BY <1>2, <1>4, <1>5, <1>6 DEF AInv, LInv

(* The inductive invariant holds of every reachable state, whatever the    *)
(* catalog, the calls and the number of handlers.                          *)
THEOREM Invariance == Spec => []AInv
<1>1. AInv /\ [Next]_acceptVars => AInv'
  BY AcceptIsKind, CarryOutIsKind, KindsPreserve DEF Next, AInv
<1>2. QED  BY <1>1, InitAInv, PTL DEF Spec

(* Every table keeps its type: no operation has a command of another       *)
(* capability's shape, whatever a transport let through.                   *)
THEOREM TypeCorrect == Spec => []ATypeOK
<1>1. AInv => ATypeOK
  <2> SUFFICES ASSUME AInv PROVE ATypeOK
    OBVIOUS
  <2>1. \A i \in DOMAIN docs : docs[i].life \in Lifecycles
    BY Columns, TablePositions DEF AInv, LInv, DocTable
  <2>2. ASSUME NEW h \in Handlers
        PROVE  /\ tx[h].phase \in {"idle", "checked", "reserved"}
               /\ tx[h] = IdleTx <=> tx[h].phase = "idle"
    <3>1. tx[h] \in {IdleTx} \cup OpenTransactions
      BY DEF AInv, LInv, TransactionsOK
    <3>2. QED  BY <3>1 DEF IdleTx, OpenTransactions
  <2>3. QED  BY <2>1, <2>2 DEF AInv, LInv, TablesOK, ATypeOK
<1>2. QED  BY <1>1, Invariance, PTL

(* SRS-FR-016: a request that comes back, over either transport, finds the *)
(* operation it started and no other.                                      *)
THEOREM Idempotent == Spec => []RetryFindsItsOperation
<1>1. AInv => RetryFindsItsOperation
  <2> SUFFICES ASSUME AInv, NEW o \in DOMAIN operations, NEW r \in Requests,
                      SameRequest(r, operations[o].req)
               PROVE  {e \in idem : e.scope = Scope(r)} =
                        {IdempotencyRecord(r, requestHash(r), o)}
    BY DEF RetryFindsItsOperation
  <2>1. operations[o].req \in AcceptedCommands
    BY Columns DEF AInv, LInv, OperationTable
  <2>2. /\ Scope(r) = Scope(operations[o].req)
        /\ requestHash(r) = requestHash(operations[o].req)
    BY <2>1, SameRequestSameRecord
  <2>3. QED  BY <2>2 DEF AInv, LInv, OperationsRecorded, IdempotencyRecord
<1>2. QED  BY <1>1, Invariance, PTL

(* The advisory locks of scopes and networks suffice: no insert of an open *)
(* transaction will meet a unique index.                                   *)
THEOREM NoConflict == Spec => []InsertsDoNotConflict
<1>1. AInv => InsertsDoNotConflict
  BY DEF AInv, LInv
<1>2. QED  BY <1>1, Invariance, PTL

(* SAFE-023, SAFE-024: under the policy that quarantines the addresses of  *)
(* retained instances, two machines that may answer on a network have two  *)
(* addresses, all of them the network's to assign.                         *)
THEOREM DistinctAddresses == ~ReleaseOnRetain => (Spec => []AddressesDistinct)
<1> SUFFICES ASSUME ~ReleaseOnRetain  PROVE Spec => []AddressesDistinct
  OBVIOUS
<1>1. AInv => AddressesDistinct
  <2> SUFFICES ASSUME AInv, NEW i \in DOMAIN leases, NEW j \in DOMAIN leases
               PROVE  /\ i # j /\ leases[i].net = leases[j].net
                           /\ leases[i].addr = leases[j].addr
                           => instances[i].life = "purged" \/ instances[j].life = "purged"
                      /\ leases[i].addr \notin {0, Pools[leases[i].net].hosts - 1}
                      /\ leases[i].addr \notin Pools[leases[i].net].reserved
    BY DEF AddressesDistinct
  <2>1. leases[i].state # "released" /\ leases[j].state # "released"
    BY DEF AInv, LeasesKept
  <2>2. ~(i # j /\ leases[i].net = leases[j].net /\ leases[i].addr = leases[j].addr)
    BY <2>1 DEF AInv, LeasesUnique
  <2>3. leases[i].addr \in Assignable(leases[i].net)
    BY DEF AInv, LeasesAssignable
  <2>4. Pools[leases[i].net].hosts \in Nat
    <3>1. leases[i] \in Ipv4LeaseTable
      BY Columns, TablePositions DEF AInv, LInv
    <3>2. QED  BY <3>1, AcceptanceAssumption DEF Ipv4LeaseTable, NetworkTable
  <2>5. QED  BY <2>2, <2>3, <2>4 DEF Assignable
<1>2. QED  BY <1>1, Invariance, PTL

(* No instance is purged, nor on its way there, unless a retention of it   *)
(* succeeded and its deadline has passed.                                  *)
THEOREM RetentionFirst == Spec => []PurgedAfterRetention
<1>1. AInv => PurgedAfterRetention
  BY DEF AInv, RetainedBefore, Retained, PurgedAfterRetention
<1>2. QED  BY <1>1, Invariance, PTL

(* No snapshot stays in transition behind an operation that succeeded.     *)
THEOREM Settled == Spec => []SnapshotsSettle
<1>1. AInv => SnapshotsSettle
  BY DEF AInv
<1>2. QED  BY <1>1, Invariance, PTL
=============================================================================
