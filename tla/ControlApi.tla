----------------------------- MODULE ControlApi -----------------------------
(***************************************************************************)
(* The two public transports of the Control API (apps/control-api): what a *)
(* call over REST or over gRPC becomes before the application service sees *)
(* it.  A call names its route, the bearer token, the path and the body; a *)
(* field the client leaves out is None.  Every route gives the set of      *)
(* inputs it passes on, empty when it refuses the call: a refusal changes  *)
(* nothing.  Trace and correlation headers are left out.                   *)
(*                                                                         *)
(* Snapshots, retention and purges have no gRPC route.                     *)
(***************************************************************************)
EXTENDS Naturals, Sequences, Functions

CONSTANTS
  Calls,      \* [via, token, route, project, inst, snap, event, key, body]
  Tokens,     \* the bearer tokens that verify, with their claims
  Names,      \* admissible hostnames and snapshot names
  SshKeys,    \* well-formed public keys
  Reasons,    \* justifications of an admissible length
  DiskSizes,  \* what the REST contract lets a resize ask for, in GiB
  None

-----------------------------------------------------------------------------
(* OidcAuthService.  A token of another issuer, audience or algorithm, or  *)
(* one that has expired, is not among Tokens.                              *)

Authenticated(token) ==
  /\ token \in DOMAIN Tokens
  /\ None \notin {Tokens[token].subject, Tokens[token].roles, Tokens[token].projects}

authenticate(token) ==
  IF Authenticated(token)
  THEN {[subject |-> Tokens[token].subject, roles |-> Tokens[token].roles,
         projects |-> Tokens[token].projects]}
  ELSE {}

-----------------------------------------------------------------------------
(* The inputs of ControlPlaneApplication.  The correlation and the trace,  *)
(* which every one carries, and a snapshot's description are left out.     *)

CreateInstanceInput(actor, c, keys) ==
  [kind |-> "create_instance", actor |-> actor, project |-> c.project, key |-> c.key,
   image |-> c.body.image, flavor |-> c.body.flavor, net |-> c.body.net,
   name |-> c.body.name, keys |-> keys]

PowerInstanceInput(actor, c, action) ==
  [kind |-> "power_instance", actor |-> actor, project |-> c.project,
   inst |-> c.inst, key |-> c.key, action |-> action]

ResizeInstanceInput(actor, c, flavor, disk) ==
  [kind |-> "resize_instance", actor |-> actor, project |-> c.project,
   inst |-> c.inst, key |-> c.key, flavor |-> flavor, disk |-> disk]

CreateSnapshotInput(actor, c) ==
  [kind |-> "create_snapshot", actor |-> actor, project |-> c.project,
   inst |-> c.inst, key |-> c.key, name |-> c.body.name]

SnapshotActionInput(actor, c, kind) ==
  [kind |-> kind, actor |-> actor, project |-> c.project,
   inst |-> c.inst, key |-> c.key, snap |-> c.snap]

RetainInstanceInput(actor, c) ==
  [kind |-> "retain_instance", actor |-> actor, project |-> c.project,
   inst |-> c.inst, key |-> c.key]

PurgeInstanceInput(actor, c) ==
  [kind |-> "purge_instance", actor |-> actor, inst |-> c.inst, key |-> c.key,
   reason |-> c.body.reason, confirm |-> c.body.confirm]

ReplayDeadLetterInput(actor, c) ==
  [kind |-> "replay_dead_letter", actor |-> actor, event |-> c.event, key |-> c.key,
   reason |-> c.body.reason]

-----------------------------------------------------------------------------
(* The request bodies class-validator lets through.                        *)

CreateInstanceDto(body) ==
  /\ None \notin {body.image, body.flavor, body.net}
  /\ body.name \in Names
  /\ body.keys # None => Len(body.keys) <= 5 /\ IsInjective(body.keys)

InstanceActionDto(body) ==
  /\ body.action \in {"start", "shutdown", "stop", "reboot", "resize"}
  /\ body.disk \in DiskSizes \cup {None}

CreateSnapshotDto(body) == body.name # None
PurgeRequestDto(body) == body.reason \in Reasons /\ body.confirm # None
ReplayRequestDto(body) == body.reason \in Reasons

-----------------------------------------------------------------------------
(* The REST routes that change something; there is no other.               *)

When(admitted, input) == IF admitted THEN {input} ELSE {}

Create(actor, c) ==
  When(CreateInstanceDto(c.body), CreateInstanceInput(actor, c, c.body.keys))

Act(actor, c) ==
  When(InstanceActionDto(c.body),
       IF c.body.action = "resize"
       THEN ResizeInstanceInput(actor, c, c.body.flavor, c.body.disk)
       ELSE PowerInstanceInput(actor, c, c.body.action))

Retain(actor, c) == {RetainInstanceInput(actor, c)}

CreateSnapshot(actor, c) ==
  When(CreateSnapshotDto(c.body), CreateSnapshotInput(actor, c))

RollbackSnapshot(actor, c) ==
  When(c.body.action = "rollback", SnapshotActionInput(actor, c, "rollback_snapshot"))

DeleteSnapshot(actor, c) == {SnapshotActionInput(actor, c, "delete_snapshot")}

Purge(actor, c) == When(PurgeRequestDto(c.body), PurgeInstanceInput(actor, c))

Replay(actor, c) == When(ReplayRequestDto(c.body), ReplayDeadLetterInput(actor, c))

RestRoute(actor, c) ==
  CASE c.route = "create"          -> Create(actor, c)
    [] c.route = "act"             -> Act(actor, c)
    [] c.route = "retain"          -> Retain(actor, c)
    [] c.route = "createSnapshot"  -> CreateSnapshot(actor, c)
    [] c.route = "rollbackSnapshot"-> RollbackSnapshot(actor, c)
    [] c.route = "deleteSnapshot"  -> DeleteSnapshot(actor, c)
    [] c.route = "purge"           -> Purge(actor, c)
    [] c.route = "replay"          -> Replay(actor, c)
    [] OTHER                       -> {}

(* The guard attaches the actor, or the call goes no further.              *)
canActivate(c) == UNION {RestRoute(actor, c) : actor \in authenticate(c.token)}

-----------------------------------------------------------------------------
(* The gRPC methods that change something.  Nothing but the presence of    *)
(* the required fields is checked: there is no class-validator here.       *)

requireField(value) == value # None

GrpcCreateInstance(actor, c) ==
  When(/\ requireField(c.project) /\ requireField(c.key)
       /\ requireField(c.body.image) /\ requireField(c.body.flavor)
       /\ requireField(c.body.net) /\ requireField(c.body.name),
       CreateInstanceInput(actor, c, IF c.body.keys = None THEN << >> ELSE c.body.keys))

(* An action outside the enum keeps its number, which no rule admits.      *)
powerActionName(value) ==
  CASE value = "POWER_ACTION_START"    -> "start"
    [] value = "POWER_ACTION_SHUTDOWN" -> "shutdown"
    [] value = "POWER_ACTION_STOP"     -> "stop"
    [] value = "POWER_ACTION_REBOOT"   -> "reboot"
    [] OTHER                           -> value

(* Resize wins when both branches are set.                                 *)
GrpcMutateInstance(actor, c) ==
  When(requireField(c.project) /\ requireField(c.inst),
       IF c.body.resize # None
       THEN ResizeInstanceInput(actor, c, c.body.resize.flavor, c.body.resize.disk)
       ELSE PowerInstanceInput(actor, c, powerActionName(c.body.power)))

GrpcReplayDeadLetter(actor, c) ==
  When(requireField(c.event) /\ requireField(c.body.reason),
       ReplayDeadLetterInput(actor, c))

GrpcMethod(actor, c) ==
  CASE c.route = "CreateInstance"   -> GrpcCreateInstance(actor, c)
    [] c.route = "MutateInstance"   -> GrpcMutateInstance(actor, c)
    [] c.route = "ReplayDeadLetter" -> GrpcReplayDeadLetter(actor, c)
    [] OTHER                        -> {}

handleAuthenticated(c) ==
  UNION {GrpcMethod(actor, c) : actor \in authenticate(c.token)}

-----------------------------------------------------------------------------
(* What reaches the application, any of it any number of times.            *)
Received ==
  UNION {IF c.via = "rest" THEN canActivate(c) ELSE handleAuthenticated(c) : c \in Calls}

Requests == {r \in Received : r.kind # "replay_dead_letter"}
ReplayRequests == Received \ Requests
=============================================================================
