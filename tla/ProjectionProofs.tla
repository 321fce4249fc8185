-------------------------- MODULE ProjectionProofs --------------------------
(***************************************************************************)
(* What holds of the event pipeline for any requests, any catalog, any     *)
(* number of operations and any replays: the tables as Acceptance leaves   *)
(* them, with events delivered late, again and in an order of their own    *)
(* per topic and instance.                                                 *)
(***************************************************************************)
EXTENDS Projection, AcceptanceProofs, FiniteSetTheorems

FactKinds == {"progress", "completed", "failed", "manual_review"}
OpsOf(i) == {o \in DOMAIN operations : operations[o].inst = i}
Lane(o) == log["events"][operations[o].inst]
(* Record k of a log is a fact of operation o.                             *)
IsFact(l, k, o) == l[k].op = o /\ l[k].kind # "resolved"
(* Nothing of the instance has been replayed.                              *)
Unreplayed(i) == \A o \in OpsOf(i) : generation[o] = 0

-----------------------------------------------------------------------------
(* The inductive invariant, part by part.                                  *)

(* What either topic carries about the operations of an instance.          *)
Facts(i) == [kind : FactKinds, op : OpsOf(i)]
Resolutions(i) ==
  [kind : {"resolved"}, op : OpsOf(i), key : ReplayKeys, outcome : {"completed", "rejected"}]
DeadLetters(i) == [op : OpsOf(i), replayable : BOOLEAN]
Records(t, i) == IF t = "events" THEN Facts(i) \cup Resolutions(i) ELSE DeadLetters(i)

LogsOK ==
  /\ log = [t \in Topics |-> [i \in InstIds |-> log[t][i]]]
  /\ handled \in [Topics -> [InstIds -> Nat]]
  /\ \A t \in Topics, i \in InstIds :
       log[t][i] \in Seq(Records(t, i)) /\ handled[t][i] <= Len(log[t][i])

(* Workflows, dead letters and replays are of operations that exist.       *)
OrchestratorOK ==
  /\ status \in [OpIds -> {"none", "running"} \cup Ended]
  /\ generation \in [OpIds -> Nat]
  /\ letters \in [OpIds -> {"none", "replayable", "closed"}]
  /\ replays \in [ReplayKeys -> [op : OpIds \cup {0},
                                 status : {"none", "accepted", "completed", "rejected"}]]
  /\ requested \subseteq ReplayKeys
  /\ \A o \in OpIds : status[o] # "none" \/ letters[o] # "none" => o \in DOMAIN operations
  /\ \A q \in requested : replays[q].op \in DOMAIN operations

(* Every instance was made by a create.                                    *)
InstancesCreated ==
  \A i \in DOMAIN instances : \E o \in OpsOf(i) : operations[o].req.kind = "create_instance"

(* The first n records of a log, as far as they are facts of o, end with   *)
(* one that says the operation is in this state.                           *)
Saying(kind) ==
  CASE kind = "progress" -> "running" [] kind = "completed" -> "succeeded" [] OTHER -> kind
SaysLast(state, l, n, o) ==
  \/ state = "accepted" /\ \A j \in 1 .. n : ~IsFact(l, j, o)
  \/ \E k \in 1 .. n :
       /\ IsFact(l, k, o) /\ state = Saying(l[k].kind)
       /\ \A j \in 1 .. n : IsFact(l, j, o) => j <= k

OperationSaysItsLast ==
  \A o \in DOMAIN operations :
    SaysLast(operations[o].state, Lane(o), handled["events"][operations[o].inst], o)

(* What was published of an operation of generation 0 follows its workflow:*)
(* one progress, and one outcome when it has ended.                        *)
Follows(l, state, o) ==
  /\ \A k \in 1 .. Len(l) : IsFact(l, k, o) =>
       /\ state # "none"
       /\ state = "running" => l[k].kind = "progress"
  /\ \A j, k \in 1 .. Len(l) :
       j < k /\ IsFact(l, j, o) /\ IsFact(l, k, o) =>
         l[j].kind = "progress" /\ l[k].kind # "progress"

FactsFollowStatus ==
  \A o \in DOMAIN operations : generation[o] = 0 => Follows(Lane(o), status[o], o)

(* Until something of it is replayed, an instance names its one unfinished *)
(* operation.                                                              *)
UnfinishedIsActiveUnlessReplayed ==
  \A i \in DOMAIN instances : Unreplayed(i) =>
    \A o \in OpsOf(i) : Unfinished(o) => instances[i].active = o

(* A document that differs from its row waits for the operation the row    *)
(* names.                                                                  *)
DocumentsWait ==
  \A i \in DOMAIN instances :
    /\ docs[i].active = instances[i].active
    /\ docs[i].life # instances[i].life =>
         /\ instances[i].life \in {"deleting", "purge_pending"}
         /\ instances[i].active \in OpsOf(i)
         /\ operations[instances[i].active].state = "accepted"

PInv ==
  /\ LInv /\ InstancesCreated /\ OrchestratorOK /\ LogsOK
  /\ OperationSaysItsLast /\ FactsFollowStatus
  /\ UnfinishedIsActiveUnlessReplayed /\ DocumentsWait

-----------------------------------------------------------------------------
(* There are no more operations than scopes, and no more instances than    *)
(* scopes of creates: the logs and the orchestrator have room for them.    *)

CreateScopes == {Scope(r) : r \in {q \in Requests : q.kind = "create_instance"}}

(* The image of a finite set of requests is finite.                        *)
LEMMA ScopesFinite == IsFiniteSet(Scopes) /\ IsFiniteSet(CreateScopes)
<1> DEFINE scope == [r \in Requests |-> Scope(r)]
<1>1. scope \in Surjection(Requests, Scopes)
  BY DEF Surjection, Scopes
<1>2. IsFiniteSet(Scopes)
  BY <1>1, ProjectionAssumption, FS_Surjection
<1>3. CreateScopes \in SUBSET Scopes
  BY DEF CreateScopes, Scopes
<1>4. QED  BY <1>2, <1>3, FS_Subset

(* A table whose positions have distinct scopes is no longer than there    *)
(* are scopes.                                                             *)
LEMMA Fits ==
  ASSUME NEW n \in Nat, NEW T, IsFiniteSet(T), NEW f \in Injection(1 .. n, T)
  PROVE  1 .. n \subseteq 1 .. Cardinality(T)
<1>1. Cardinality(1 .. n) <= Cardinality(T) /\ Cardinality(T) \in Nat
  BY FS_Injection, FS_CardinalityType
<1>2. Cardinality(1 .. n) = n
  BY FS_Interval
<1>3. QED  BY <1>1, <1>2

(* Two operations have two scopes.                                         *)
LEMMA ScopesDistinct ==
  ASSUME LInv, NEW o \in DOMAIN operations, NEW q \in DOMAIN operations,
         Scope(operations[o].req) = Scope(operations[q].req)
  PROVE  o = q
<1>1. /\ {e \in idem : e.scope = Scope(operations[o].req)} =
           {IdempotencyRecord(operations[o].req, requestHash(operations[o].req), o)}
      /\ {e \in idem : e.scope = Scope(operations[q].req)} =
           {IdempotencyRecord(operations[q].req, requestHash(operations[q].req), q)}
  BY DEF LInv, OperationsRecorded
<1>2. IdempotencyRecord(operations[o].req, requestHash(operations[o].req), o)
        = IdempotencyRecord(operations[q].req, requestHash(operations[q].req), q)
  BY <1>1
<1>3. QED  BY <1>2 DEF IdempotencyRecord

(* The scope an operation is recorded under is that of a request.          *)
LEMMA ScopeOfRequest ==
  ASSUME LInv, NEW o \in DOMAIN operations
  PROVE  Scope(operations[o].req) \in Scopes
<1> DEFINE r == operations[o].req
           e == IdempotencyRecord(r, requestHash(r), o)
<1>1. e \in idem
  BY DEF LInv, OperationsRecorded
<1>2. e \in IdempotencyTable
  BY <1>1 DEF LInv, TablesOK
<1>3. e.scope = Scope(r)
  BY DEF IdempotencyRecord
<1> HIDE DEF e
<1>4. QED  BY <1>2, <1>3 DEF IdempotencyTable, Scopes

LEMMA WithinIds ==
  ASSUME LInv, InstancesCreated
  PROVE  DOMAIN operations \subseteq OpIds /\ DOMAIN instances \subseteq InstIds
<1>1. /\ Len(instances) \in Nat /\ Len(operations) \in Nat
      /\ DOMAIN instances = 1 .. Len(instances)
      /\ DOMAIN operations = 1 .. Len(operations)
  BY TablePositions DEF LInv
<1>2. DOMAIN operations \subseteq OpIds
  <2> DEFINE f == [o \in DOMAIN operations |-> Scope(operations[o].req)]
  <2>1. f \in [DOMAIN operations -> Scopes]
    BY ScopeOfRequest
  <2>2. IsInjective(f)
    BY ScopesDistinct DEF IsInjective
  <2>3. f \in Injection(1 .. Len(operations), Scopes)
    BY <1>1, <2>1, <2>2 DEF Injection
  <2> HIDE DEF f
  <2>4. 1 .. Len(operations) \subseteq 1 .. Cardinality(Scopes)
    BY <1>1, <2>3, ScopesFinite, Fits
  <2>5. QED  BY <1>1, <2>4 DEF OpIds, Scopes
<1>3. DOMAIN instances \subseteq InstIds
  <2> DEFINE created(i) == CHOOSE o \in OpsOf(i) : operations[o].req.kind = "create_instance"
             f == [i \in DOMAIN instances |-> Scope(operations[created(i)].req)]
  <2>1. ASSUME NEW i \in DOMAIN instances
        PROVE  created(i) \in OpsOf(i) /\ operations[created(i)].req.kind = "create_instance"
    BY DEF InstancesCreated
  <2> HIDE DEF created
  <2>2. ASSUME NEW i \in DOMAIN instances
        PROVE  Scope(operations[created(i)].req) \in CreateScopes
    <3>1. /\ created(i) \in DOMAIN operations
          /\ operations[created(i)].req.kind = "create_instance"
      BY <2>1 DEF OpsOf
    <3>2. PICK r \in Requests : Scope(r) = Scope(operations[created(i)].req)
      BY <3>1, ScopeOfRequest DEF Scopes
    <3>3. r.kind = "create_instance"
      BY <3>1, <3>2 DEF Scope
    <3>4. QED  BY <3>2, <3>3 DEF CreateScopes
  <2>3. ASSUME NEW i \in DOMAIN instances, NEW j \in DOMAIN instances, f[i] = f[j]
        PROVE  i = j
    <3>1. /\ created(i) \in DOMAIN operations /\ operations[created(i)].inst = i
          /\ created(j) \in DOMAIN operations /\ operations[created(j)].inst = j
      BY <2>1 DEF OpsOf
    <3>2. Scope(operations[created(i)].req) = Scope(operations[created(j)].req)
      BY <2>3
    <3>3. QED  BY <3>1, <3>2, ScopesDistinct
  <2>4. f \in [DOMAIN instances -> CreateScopes]
    BY <2>2
  <2>5. f \in Injection(1 .. Len(instances), CreateScopes)
    BY <1>1, <2>3, <2>4 DEF Injection, IsInjective
  <2> HIDE DEF f
  <2>6. 1 .. Len(instances) \subseteq 1 .. Cardinality(CreateScopes)
    BY <1>1, <2>5, ScopesFinite, Fits
  <2>7. QED  BY <1>1, <2>6 DEF InstIds, CreateScopes
<1>4. QED  BY <1>2, <1>3

-----------------------------------------------------------------------------
(* The logs.                                                               *)

TypedLog(l) ==
  /\ l = [t \in Topics |-> [i \in InstIds |-> l[t][i]]]
  /\ \A t \in Topics, i \in InstIds : l[t][i] \in Seq(Records(t, i))

(* A record is published to the lane of its operation's instance.          *)
LEMMA PublishTyped ==
  ASSUME NEW l, TypedLog(l), NEW t \in Topics, NEW o \in DOMAIN operations,
         NEW i \in InstIds, i = operations[o].inst, NEW e \in Records(t, i)
  PROVE  /\ TypedLog(Publish(l, t, o, e))
         /\ Publish(l, t, o, e)[t][i] = Append(l[t][i], e)
         /\ \A s \in Topics, j \in InstIds :
              s # t \/ j # i => Publish(l, t, o, e)[s][j] = l[s][j]
<1> DEFINE m == Publish(l, t, o, e)
           lanes == [l[t] EXCEPT ![i] = Append(l[t][i], e)]
<1>1. l = [s \in Topics |-> [j \in InstIds |-> l[s][j]]]
  BY DEF TypedLog
<1>2. m = [l EXCEPT ![t][i] = Append(@, e)]
  BY DEF Publish
<1>3. DOMAIN l = Topics /\ \A s \in Topics : l[s] = [j \in InstIds |-> l[s][j]]
  BY <1>1
<1>4. lanes = [j \in InstIds |-> IF j = i THEN Append(l[t][i], e) ELSE l[t][j]]
  BY <1>3
<1>5. m = [s \in Topics |-> IF s = t THEN lanes ELSE l[s]]
  BY <1>2, <1>3
<1> HIDE DEF m, lanes
<1>6. /\ m[t][i] = Append(l[t][i], e)
      /\ \A s \in Topics, j \in InstIds : s # t \/ j # i => m[s][j] = l[s][j]
  BY <1>4, <1>5
<1>7. m = [s \in Topics |-> [j \in InstIds |-> m[s][j]]]
  <2>1. \A s \in Topics : m[s] = [j \in InstIds |-> m[s][j]]
    BY <1>3, <1>4, <1>5
  <2>2. QED  BY <1>5, <2>1
<1>8. Append(l[t][i], e) \in Seq(Records(t, i))
  BY DEF TypedLog
<1>9. \A s \in Topics, j \in InstIds : m[s][j] \in Seq(Records(s, j))
  BY <1>6, <1>8 DEF TypedLog
<1>10. QED  BY <1>6, <1>7, <1>9 DEF m, TypedLog

(* A log that only grew.                                                   *)
Extends(l, m) ==
  \A t \in Topics, i \in InstIds :
    /\ Len(l[t][i]) <= Len(m[t][i])
    /\ \A k \in 1 .. Len(l[t][i]) : m[t][i][k] = l[t][i][k]

(* Everything new in it is about operation o.                              *)
NewAbout(l, m, o) ==
  \A t \in Topics, i \in InstIds : \A k \in 1 .. Len(m[t][i]) :
    k > Len(l[t][i]) => m[t][i][k].op = o

(* One record more.                                                        *)
LEMMA PublishExtends ==
  ASSUME NEW l, TypedLog(l), NEW t \in Topics, NEW o \in DOMAIN operations,
         NEW i \in InstIds, i = operations[o].inst, NEW e \in Records(t, i), e.op = o
  PROVE  /\ Extends(l, Publish(l, t, o, e))
         /\ NewAbout(l, Publish(l, t, o, e), o)
         /\ Len(Publish(l, t, o, e)[t][i]) = Len(l[t][i]) + 1
<1> DEFINE m == Publish(l, t, o, e)
<1>1. /\ m[t][i] = Append(l[t][i], e)
      /\ \A s \in Topics, j \in InstIds : s # t \/ j # i => m[s][j] = l[s][j]
  BY PublishTyped
<1>2. \A s \in Topics, j \in InstIds : l[s][j] \in Seq(Records(s, j))
  BY DEF TypedLog
<1> HIDE DEF m
<1>3. /\ Len(m[t][i]) = Len(l[t][i]) + 1
      /\ m[t][i][Len(l[t][i]) + 1] = e
      /\ \A k \in 1 .. Len(l[t][i]) : m[t][i][k] = l[t][i][k]
      /\ Len(l[t][i]) \in Nat
  BY <1>1, <1>2
<1>4. \A s \in Topics, j \in InstIds : Len(l[s][j]) \in Nat
  BY <1>2
<1>5. ASSUME NEW s \in Topics, NEW j \in InstIds
      PROVE  /\ Len(l[s][j]) <= Len(m[s][j])
             /\ \A k \in 1 .. Len(l[s][j]) : m[s][j][k] = l[s][j][k]
             /\ \A k \in 1 .. Len(m[s][j]) : k > Len(l[s][j]) => m[s][j][k].op = o
  <2>1. CASE s = t /\ j = i
    <3>1. \A k \in 1 .. Len(l[t][i]) + 1 : k > Len(l[t][i]) => k = Len(l[t][i]) + 1
      BY <1>3
    <3>2. QED  BY <1>3, <2>1, <3>1
  <2>2. CASE s # t \/ j # i
    <3>1. m[s][j] = l[s][j] /\ Len(l[s][j]) \in Nat
      BY <1>1, <1>4, <2>2
    <3>2. QED  BY <3>1
  <2>3. QED  BY <2>1, <2>2
<1>6. Extends(l, m) /\ NewAbout(l, m, o)
  BY <1>5 DEF Extends, NewAbout
<1>7. QED  BY <1>3, <1>6 DEF m

(* Two after each other.                                                   *)
LEMMA ExtendsTwice ==
  ASSUME NEW l, NEW m, NEW n, NEW o, TypedLog(l), TypedLog(m), TypedLog(n),
         Extends(l, m), Extends(m, n), NewAbout(l, m, o), NewAbout(m, n, o)
  PROVE  Extends(l, n) /\ NewAbout(l, n, o)
<1>1. \A t \in Topics, i \in InstIds :
        Len(l[t][i]) \in Nat /\ Len(m[t][i]) \in Nat /\ Len(n[t][i]) \in Nat
  BY DEF TypedLog
<1>2. Extends(l, n)
  BY <1>1 DEF Extends
<1>3. ASSUME NEW t \in Topics, NEW i \in InstIds, NEW k \in 1 .. Len(n[t][i]),
             k > Len(l[t][i])
      PROVE  n[t][i][k].op = o
  <2>1. CASE k > Len(m[t][i])
    BY <1>3, <2>1 DEF NewAbout
  <2>2. CASE k <= Len(m[t][i])
    <3>1. k \in 1 .. Len(m[t][i])
      BY <1>1, <1>3, <2>2
    <3>2. n[t][i][k] = m[t][i][k] /\ m[t][i][k].op = o
      BY <1>3, <3>1 DEF Extends, NewAbout
    <3>3. QED  BY <3>2
  <2>3. QED  BY <1>1, <1>3, <2>1, <2>2
<1>4. QED  BY <1>2, <1>3 DEF NewAbout

-----------------------------------------------------------------------------
(* The kinds of step of the pipeline.                                      *)

(* What the orchestrator does with an operation: it starts it, ends it,    *)
(* starts it again as a later generation, or leaves its workflow alone.    *)
Starts(o) ==
  LET i == operations[o].inst IN
  /\ status[o] = "none" /\ status' = [status EXCEPT ![o] = "running"]
  /\ generation' = generation
  /\ log'["events"][i] = Append(log["events"][i], Fact("progress", o))
Ends(o, outcome, kind) ==
  LET i == operations[o].inst IN
  /\ status[o] = "running" /\ status' = [status EXCEPT ![o] = outcome]
  /\ generation' = generation
  /\ kind # "progress" /\ log'["events"][i] = Append(log["events"][i], Fact(kind, o))
Regenerates(o, n) ==
  /\ status' = [status EXCEPT ![o] = "running"]
  /\ generation' = [generation EXCEPT ![o] = n]
LeavesWorkflow(o) ==
  LET i == operations[o].inst IN
  /\ status' = status /\ generation' = generation
  /\ \/ log'["events"][i] = log["events"][i]
     \/ \E q \in ReplayKeys :
          log'["events"][i] = Append(log["events"][i], Resolution(o, q, "rejected"))

Orchestrates(o) ==
  /\ UNCHANGED <<acceptVars, handled, letters, replays>>
  /\ requested' \subseteq requested
  /\ TypedLog(log') /\ Extends(log, log') /\ NewAbout(log, log', o)
  /\ \/ Starts(o)
     \/ \E outcome \in Ended, kind \in FactKinds : Ends(o, outcome, kind)
     \/ \E n \in Nat \ {0} : Regenerates(o, n)
     \/ LeavesWorkflow(o)

(* The log has its shape, and every operation a lane in it.                *)
LEMMA Lanes ==
  ASSUME LInv, InstancesCreated, LogsOK, NEW o \in DOMAIN operations
  PROVE  /\ TypedLog(log) /\ o \in OpIds
         /\ operations[o].inst \in InstIds /\ operations[o].inst \in DOMAIN instances
         /\ o \in OpsOf(operations[o].inst)
<1>1. operations[o] \in OperationTable
  BY Columns DEF LInv
<1>2. operations[o].inst \in DOMAIN instances
  BY <1>1 DEF OperationTable
<1>3. QED  BY <1>2, WithinIds DEF LogsOK, TypedLog, OpsOf

(* A fact and a resolution are records of the events' topic.               *)
LEMMA EventTypes ==
  ASSUME NEW i, NEW o \in OpsOf(i)
  PROVE  /\ \A kind \in FactKinds : Fact(kind, o) \in Records("events", i)
                                    /\ Fact(kind, o).op = o
         /\ \A q \in ReplayKeys, outcome \in {"completed", "rejected"} :
              /\ Resolution(o, q, outcome) \in Records("events", i)
              /\ Resolution(o, q, outcome).op = o
         /\ \A b \in BOOLEAN : /\ [op |-> o, replayable |-> b] \in Records("dlq", i)
                               /\ [op |-> o, replayable |-> b].op = o
  BY DEF Records, Facts, Resolutions, DeadLetters, Fact, Resolution

(* What publishing one event does to the log.                              *)
LEMMA EventPublished ==
  ASSUME LInv, InstancesCreated, LogsOK, NEW o \in DOMAIN operations,
         NEW e \in Records("events", operations[o].inst), e.op = o,
         log' = Publish(log, "events", o, e)
  PROVE  /\ TypedLog(log') /\ Extends(log, log') /\ NewAbout(log, log', o)
         /\ log'["events"][operations[o].inst]
              = Append(log["events"][operations[o].inst], e)
<1>1. TypedLog(log) /\ operations[o].inst \in InstIds
  BY Lanes
<1>2. "events" \in Topics
  BY DEF Topics
<1>3. QED  BY <1>1, <1>2, PublishTyped, PublishExtends

(* Work on an operation is of one of the kinds.                            *)
LEMMA WorkIsKind ==
  ASSUME LInv, InstancesCreated, OrchestratorOK, LogsOK, NEW o \in OpIds, Work(o)
  PROVE  o \in DOMAIN operations /\ Orchestrates(o)
<1> DEFINE i == operations[o].inst
<1> USE DEF consumerVars
<1>1. o \in DOMAIN operations
  <2>1. CASE Admit(o) \/ RefuseCommand(o)
    BY <2>1 DEF Admit, RefuseCommand
  <2>2. CASE status[o] = "running"
    BY <2>2 DEF OrchestratorOK
  <2>3. QED
    BY <2>1, <2>2 DEF Work, Succeed, Exhaust, Fail, Orchestrator!End
<1>2. /\ TypedLog(log) /\ i \in InstIds /\ o \in OpsOf(i)
      /\ \A kind \in FactKinds : Fact(kind, o) \in Records("events", i)
                                 /\ Fact(kind, o).op = o
      /\ \A b \in BOOLEAN : /\ [op |-> o, replayable |-> b] \in Records("dlq", i)
                            /\ [op |-> o, replayable |-> b].op = o
  BY <1>1, Lanes, EventTypes
<1>3. CASE Admit(o)
  <2>1. log' = Publish(log, "events", o, Fact("progress", o)) /\ "progress" \in FactKinds
    BY <1>3 DEF Admit, FactKinds
  <2>2. /\ TypedLog(log') /\ Extends(log, log') /\ NewAbout(log, log', o)
        /\ log'["events"][i] = Append(log["events"][i], Fact("progress", o))
    BY <1>1, <1>2, <2>1, EventPublished
  <2>3. QED
    BY <1>1, <1>3, <2>2 DEF Admit, Orchestrates, Starts, Orchestrator!Start
<1>4. CASE RefuseCommand(o)
  <2>1. PICK b \in BOOLEAN : log' = Publish(log, "dlq", o, [op |-> o, replayable |-> b])
    BY <1>4 DEF RefuseCommand
  <2>2. "dlq" \in Topics /\ "events" \in Topics
    BY DEF Topics
  <2>3. /\ TypedLog(log') /\ Extends(log, log') /\ NewAbout(log, log', o)
        /\ log'["events"][i] = log["events"][i]
    BY <1>1, <1>2, <2>1, <2>2, PublishTyped, PublishExtends
  <2>4. QED
    BY <1>1, <1>4, <2>3 DEF RefuseCommand, Orchestrates, LeavesWorkflow
<1>5. ASSUME NEW outcome \in Ended, NEW kind \in FactKinds, kind # "progress",
             Orchestrator!End(o, outcome),
             log' = Publish(log, "events", o, Fact(kind, o)),
             UNCHANGED <<acceptVars, handled, letters, replays, requested>>
      PROVE  Orchestrates(o)
  <2>1. /\ TypedLog(log') /\ Extends(log, log') /\ NewAbout(log, log', o)
        /\ log'["events"][i] = Append(log["events"][i], Fact(kind, o))
    BY <1>1, <1>2, <1>5, EventPublished
  <2>2. Ends(o, outcome, kind)
    BY <1>5, <2>1 DEF Ends, Orchestrator!End
  <2>3. QED  BY <1>5, <2>1, <2>2 DEF Orchestrates
<1>6. CASE Succeed(o)
  BY <1>1, <1>5, <1>6 DEF Succeed, Ended, FactKinds
<1>7. ASSUME NEW outcome \in {"failed", "manual_review"}, Fail(o, outcome)
      PROVE  Orchestrates(o)
  BY <1>5, <1>7 DEF Fail, Ended, FactKinds
<1>8. CASE Exhaust(o)
  <2> DEFINE fact == Fact("failed", o)
             letter == [op |-> o, replayable |-> TRUE]
             mid == Publish(log, "events", o, fact)
  <2>1. "failed" \in FactKinds /\ "events" \in Topics /\ "dlq" \in Topics
    BY DEF FactKinds, Topics
  <2>2. /\ fact \in Records("events", i) /\ fact.op = o
        /\ letter \in Records("dlq", i) /\ letter.op = o
    BY <1>2, <2>1
  <2>3. log' = Publish(mid, "dlq", o, letter)
    BY <1>8 DEF Exhaust
  <2> HIDE DEF fact, letter
  <2>4. /\ TypedLog(mid) /\ Extends(log, mid) /\ NewAbout(log, mid, o)
        /\ mid["events"][i] = Append(log["events"][i], fact)
    BY <1>1, <1>2, <2>1, <2>2, PublishTyped, PublishExtends
  <2> HIDE DEF mid
  <2>5. /\ TypedLog(log') /\ Extends(mid, log') /\ NewAbout(mid, log', o)
        /\ log'["events"][i] = mid["events"][i]
    <3>1. /\ TypedLog(Publish(mid, "dlq", o, letter))
          /\ \A s \in Topics, j \in InstIds :
               s # "dlq" \/ j # i => Publish(mid, "dlq", o, letter)[s][j] = mid[s][j]
      BY <1>1, <1>2, <2>1, <2>2, <2>4, PublishTyped
    <3>2. /\ Extends(mid, Publish(mid, "dlq", o, letter))
          /\ NewAbout(mid, Publish(mid, "dlq", o, letter), o)
      BY <1>1, <1>2, <2>1, <2>2, <2>4, PublishExtends
    <3>3. QED  BY <1>2, <2>1, <2>3, <3>1, <3>2
  <2>6. Extends(log, log') /\ NewAbout(log, log', o)
    BY <1>2, <2>4, <2>5, ExtendsTwice
  <2>7. Ends(o, "failed", "failed")
    BY <1>8, <2>4, <2>5 DEF Exhaust, Ends, Orchestrator!End, fact
  <2>8. UNCHANGED <<acceptVars, handled, letters, replays, requested>>
    BY <1>8 DEF Exhaust
  <2>9. \E outcome \in Ended, kind \in FactKinds : Ends(o, outcome, kind)
    BY <2>1, <2>7 DEF Ended
  <2>10. Orchestrates(o)
    BY <2>5, <2>6, <2>8, <2>9 DEF Orchestrates
  <2>11. QED  BY <1>1, <2>10
<1>9. QED  BY <1>1, <1>3, <1>4, <1>6, <1>7, <1>8 DEF Work

(* So is the decision on a replay request.                                 *)
LEMMA ResolveIsKind ==
  ASSUME LInv, InstancesCreated, OrchestratorOK, LogsOK,
         NEW q \in ReplayKeys, ResolveReplay(q)
  PROVE  \E o \in DOMAIN operations : Orchestrates(o)
<1> DEFINE o == replays[q].op
           i == operations[o].inst
<1> USE DEF consumerVars
<1>1. q \in requested /\ requested' = requested \ {q}
  BY DEF ResolveReplay
<1>2. o \in DOMAIN operations
  BY <1>1 DEF OrchestratorOK
<1> HIDE DEF o
<1>3. /\ TypedLog(log) /\ i \in InstIds /\ o \in OpsOf(i) /\ o \in OpIds
      /\ \A kind \in FactKinds : Fact(kind, o) \in Records("events", i)
                                 /\ Fact(kind, o).op = o
      /\ \A p \in ReplayKeys, outcome \in {"completed", "rejected"} :
           /\ Resolution(o, p, outcome) \in Records("events", i)
           /\ Resolution(o, p, outcome).op = o
  BY <1>2, Lanes, EventTypes
<1>4. UNCHANGED <<acceptVars, handled, letters, replays>> /\ requested' \subseteq requested
  BY <1>1 DEF ResolveReplay
<1>5. CASE RefuseReplay(o, q) /\ UNCHANGED <<status, generation>>
  <2>1. log' = Publish(log, "events", o, Resolution(o, q, "rejected"))
    BY <1>5 DEF RefuseReplay
  <2>2. /\ TypedLog(log') /\ Extends(log, log') /\ NewAbout(log, log', o)
        /\ log'["events"][i] = Append(log["events"][i], Resolution(o, q, "rejected"))
    BY <1>2, <1>3, <2>1, EventPublished
  <2>3. LeavesWorkflow(o)
    BY <1>5, <2>2 DEF LeavesWorkflow
  <2>4. QED  BY <1>2, <1>4, <2>2, <2>3 DEF Orchestrates
<1>6. CASE /\ \/ Orchestrator!Reopen(o)
              \/ /\ generation' = [generation EXCEPT ![o] = 1]
                 /\ Orchestrator!Start(o)
           /\ log' = Publish(Publish(log, "events", o, Resolution(o, q, "completed")),
                             "events", o, Fact("progress", o))
  <2> DEFINE fact == Fact("progress", o)
             answer == Resolution(o, q, "completed")
             mid == Publish(log, "events", o, answer)
  <2>1. "progress" \in FactKinds /\ "events" \in Topics
    BY DEF FactKinds, Topics
  <2>2. /\ fact \in Records("events", i) /\ fact.op = o
        /\ answer \in Records("events", i) /\ answer.op = o
    BY <1>3, <2>1
  <2>3. log' = Publish(mid, "events", o, fact)
    BY <1>6
  <2> HIDE DEF fact, answer
  <2>4. TypedLog(mid) /\ Extends(log, mid) /\ NewAbout(log, mid, o)
    BY <1>2, <1>3, <2>1, <2>2, PublishTyped, PublishExtends
  <2> HIDE DEF mid
  <2>5. TypedLog(log') /\ Extends(mid, log') /\ NewAbout(mid, log', o)
    BY <1>2, <1>3, <2>1, <2>2, <2>3, <2>4, PublishTyped, PublishExtends
  <2>6. Extends(log, log') /\ NewAbout(log, log', o)
    BY <1>3, <2>4, <2>5, ExtendsTwice
  <2>7. \E n \in Nat \ {0} : Regenerates(o, n)
    <3>1. generation[o] \in Nat
      BY <1>3 DEF OrchestratorOK
    <3>2. CASE Orchestrator!Reopen(o)
      <4>1. Regenerates(o, generation[o] + 1)
        BY <3>2 DEF Orchestrator!Reopen, Regenerates
      <4>2. generation[o] + 1 \in Nat \ {0}
        BY <3>1
      <4>3. QED  BY <4>1, <4>2
    <3>3. CASE /\ generation' = [generation EXCEPT ![o] = 1]
               /\ Orchestrator!Start(o)
      <4>1. Regenerates(o, 1)
        BY <3>3 DEF Orchestrator!Start, Regenerates
      <4>2. QED  BY <4>1
    <3>4. QED  BY <1>6, <3>2, <3>3
  <2>8. Orchestrates(o)
    BY <1>4, <2>5, <2>6, <2>7 DEF Orchestrates
  <2>9. QED  BY <1>2, <2>8
<1>7. QED  BY <1>5, <1>6 DEF ResolveReplay, o

-----------------------------------------------------------------------------
(* The orchestrator's steps.                                               *)

(* Records that were delivered stay what they were.                        *)
LEMMA SaysLastKept ==
  ASSUME NEW state, NEW l, NEW m, NEW n, NEW o, SaysLast(state, l, n, o),
         \A k \in 1 .. n : m[k] = l[k]
  PROVE  SaysLast(state, m, n, o)
  BY DEF SaysLast, IsFact

(* Records about something else do not matter.                             *)
LEMMA FollowsKept ==
  ASSUME NEW R, NEW l \in Seq(R), NEW m \in Seq(R), NEW state, NEW o,
         Follows(l, state, o), Len(l) <= Len(m),
         \A k \in 1 .. Len(l) : m[k] = l[k],
         \A k \in 1 .. Len(m) : k > Len(l) => ~IsFact(m, k, o)
  PROVE  Follows(m, state, o)
<1>1. Len(l) \in Nat /\ Len(m) \in Nat
  OBVIOUS
<1>2. \A k \in 1 .. Len(m) : IsFact(m, k, o) => k \in 1 .. Len(l) /\ IsFact(l, k, o)
  BY <1>1 DEF IsFact
<1>3. QED  BY <1>2 DEF Follows

(* The first progress, and an outcome after it.                            *)
LEMMA FollowsAppended ==
  ASSUME NEW R, NEW l \in Seq(R), NEW e \in R, NEW o, NEW before, NEW after,
         Follows(l, before, o), after # "none",
         \/ before = "none" /\ e.kind = "progress"
         \/ before = "running" /\ e.kind # "progress" /\ after # "running"
  PROVE  Follows(Append(l, e), after, o)
<1> DEFINE m == Append(l, e)
<1>1. /\ Len(l) \in Nat /\ Len(m) = Len(l) + 1 /\ m[Len(l) + 1] = e
      /\ \A k \in 1 .. Len(l) : m[k] = l[k]
  BY AppendProperties
<1> HIDE DEF m
<1>2. \A k \in 1 .. Len(m) : k \in 1 .. Len(l) \/ k = Len(l) + 1
  BY <1>1
<1>3. \A k \in 1 .. Len(l) : IsFact(m, k, o) => IsFact(l, k, o)
  BY <1>1 DEF IsFact
<1>4. ASSUME before = "none", e.kind = "progress"
      PROVE  Follows(m, after, o)
  <2>1. \A k \in 1 .. Len(l) : ~IsFact(m, k, o)
    BY <1>3, <1>4 DEF Follows
  <2>2. QED  BY <1>1, <1>2, <1>4, <2>1 DEF Follows
<1>5. ASSUME before = "running", e.kind # "progress", after # "running"
      PROVE  Follows(m, after, o)
  <2>1. \A k \in 1 .. Len(l) : IsFact(m, k, o) => m[k].kind = "progress"
    BY <1>1, <1>3, <1>5 DEF Follows
  <2>2. ASSUME NEW j \in 1 .. Len(m), NEW k \in 1 .. Len(m), j < k,
               IsFact(m, j, o), IsFact(m, k, o)
        PROVE  m[j].kind = "progress" /\ m[k].kind # "progress"
    <3>1. j \in 1 .. Len(l)
      BY <1>1, <2>2
    <3>2. CASE k \in 1 .. Len(l)
      BY <1>1, <1>3, <2>2, <3>1, <3>2 DEF Follows
    <3>3. CASE k = Len(l) + 1
      BY <1>1, <1>5, <2>1, <2>2, <3>1, <3>3
    <3>4. QED  BY <1>2, <3>2, <3>3
  <2>3. QED  BY <1>5, <2>2 DEF Follows
<1>6. QED  BY <1>4, <1>5 DEF m

(* The tables as they were, and everything that is said of them alone.     *)
LEMMA TablesUntouched ==
  ASSUME PInv, UNCHANGED acceptVars
  PROVE  /\ instances' = instances /\ operations' = operations /\ docs' = docs
         /\ LInv' /\ InstancesCreated' /\ DocumentsWait'
         /\ \A i : OpsOf(i)' = OpsOf(i)
         /\ \A t, i : Records(t, i)' = Records(t, i)
         /\ \A o : Unfinished(o)' = Unfinished(o)
<1>1. instances' = instances /\ operations' = operations /\ docs' = docs
  BY DEF acceptVars
<1>2. LInv'
  BY LocksPreserved DEF PInv
<1>3. \A i : OpsOf(i)' = OpsOf(i)
  BY <1>1 DEF OpsOf
<1>4. \A t, i : Records(t, i)' = Records(t, i)
  BY <1>3 DEF Records, Facts, Resolutions, DeadLetters, ReplayKeys
<1>5. InstancesCreated'
  BY <1>1, <1>3 DEF PInv, InstancesCreated
<1>6. DocumentsWait'
  BY <1>1, <1>3 DEF PInv, DocumentsWait
<1>7. \A o : Unfinished(o)' = Unfinished(o)
  BY <1>1 DEF Unfinished
<1>8. QED  BY <1>1, <1>2, <1>3, <1>4, <1>5, <1>6, <1>7

(* Every lane is a sequence of its records, delivered up to a point.       *)
LEMMA LaneOf ==
  ASSUME PInv, NEW o \in DOMAIN operations
  PROVE  LET i == operations[o].inst IN
         /\ i \in InstIds /\ o \in OpsOf(i) /\ o \in OpIds /\ i \in DOMAIN instances
         /\ Lane(o) = log["events"][i] /\ Lane(o) \in Seq(Records("events", i))
         /\ Len(Lane(o)) \in Nat
         /\ handled["events"][i] \in Nat /\ handled["events"][i] <= Len(Lane(o))
<1> DEFINE i == operations[o].inst
<1>1. i \in InstIds /\ o \in OpsOf(i) /\ o \in OpIds /\ i \in DOMAIN instances
  BY Lanes DEF PInv
<1>2. "events" \in Topics
  BY DEF Topics
<1>3. /\ log["events"][i] \in Seq(Records("events", i))
      /\ handled["events"][i] \in Nat
      /\ handled["events"][i] <= Len(log["events"][i])
  BY <1>1, <1>2 DEF PInv, LogsOK
<1>4. QED  BY <1>1, <1>3 DEF Lane

LEMMA OrchestratesPreserves ==
  ASSUME PInv, NEW o \in DOMAIN operations, Orchestrates(o)
  PROVE  PInv'
<1> DEFINE i == operations[o].inst
<1>1. /\ UNCHANGED <<acceptVars, handled, letters, replays>> /\ requested' \subseteq requested
      /\ TypedLog(log') /\ Extends(log, log') /\ NewAbout(log, log', o)
  BY DEF Orchestrates
<1>2. /\ instances' = instances /\ operations' = operations /\ docs' = docs
      /\ LInv' /\ InstancesCreated' /\ DocumentsWait'
      /\ \A j : OpsOf(j)' = OpsOf(j)
      /\ \A t, j : Records(t, j)' = Records(t, j)
      /\ \A q : Unfinished(q)' = Unfinished(q)
  BY <1>1, TablesUntouched
<1>3. o \in OpIds /\ i \in InstIds
  BY LaneOf
<1>4. /\ status' \in [OpIds -> {"none", "running"} \cup Ended]
      /\ generation' \in [OpIds -> Nat]
      /\ \A q \in OpIds : q # o => status'[q] = status[q] /\ generation'[q] = generation[q]
      /\ \A q \in OpIds : generation'[q] = 0 => generation[q] = 0
  <2>1. status \in [OpIds -> {"none", "running"} \cup Ended] /\ generation \in [OpIds -> Nat]
    BY DEF PInv, OrchestratorOK
  <2>2. CASE Starts(o) \/ LeavesWorkflow(o)
    BY <1>3, <2>1, <2>2 DEF Starts, LeavesWorkflow
  <2>3. ASSUME NEW outcome \in Ended, NEW kind, Ends(o, outcome, kind)
        PROVE  <1>4!1 /\ <1>4!2 /\ <1>4!3 /\ <1>4!4
    BY <1>3, <2>1, <2>3 DEF Ends
  <2>4. ASSUME NEW n \in Nat \ {0}, Regenerates(o, n)
        PROVE  <1>4!1 /\ <1>4!2 /\ <1>4!3 /\ <1>4!4
    BY <1>3, <2>1, <2>4 DEF Regenerates
  <2>5. QED  BY <2>2, <2>3, <2>4 DEF Orchestrates
<1>5. OrchestratorOK'
  <2>1. \A q \in OpIds : status'[q] # "none" \/ letters[q] # "none" => q \in DOMAIN operations
    BY <1>4 DEF PInv, OrchestratorOK
  <2>2. QED
    BY <1>1, <1>2, <1>4, <2>1 DEF PInv, OrchestratorOK, ReplayKeys
<1>6. LogsOK'
  <2>1. /\ log' = [t \in Topics |-> [j \in InstIds |-> log'[t][j]]]
        /\ \A t \in Topics, j \in InstIds : log'[t][j] \in Seq(Records(t, j))
    BY <1>1 DEF TypedLog
  <2>2. \A t \in Topics, j \in InstIds : handled[t][j] <= Len(log'[t][j])
    <3> TAKE t \in Topics, j \in InstIds
    <3>1. handled[t][j] \in Nat /\ handled[t][j] <= Len(log[t][j]) /\ Len(log[t][j]) \in Nat
      BY DEF PInv, LogsOK
    <3>2. Len(log[t][j]) <= Len(log'[t][j]) /\ Len(log'[t][j]) \in Nat
      BY <1>1, <2>1 DEF Extends
    <3>3. QED  BY <3>1, <3>2
  <2>3. handled' \in [Topics -> [InstIds -> Nat]] /\ handled' = handled
    BY <1>1 DEF PInv, LogsOK
  <2>4. QED  BY <1>2, <2>1, <2>2, <2>3 DEF LogsOK, Topics, InstIds
<1>7. ASSUME NEW q \in DOMAIN operations
      PROVE  /\ Lane(q)' \in Seq(Records("events", operations[q].inst))
             /\ Len(Lane(q)) <= Len(Lane(q)')
             /\ \A k \in 1 .. Len(Lane(q)) : Lane(q)'[k] = Lane(q)[k]
             /\ \A k \in 1 .. Len(Lane(q)') : k > Len(Lane(q)) => Lane(q)'[k].op = o
  <2>1. operations[q].inst \in InstIds /\ "events" \in Topics
    BY LaneOf DEF Topics
  <2>2. Lane(q)' = log'["events"][operations[q].inst]
    BY <1>2 DEF Lane
  <2>3. QED  BY <1>1, <2>1, <2>2 DEF Lane, TypedLog, Extends, NewAbout
<1>8. OperationSaysItsLast'
  <2>1. ASSUME NEW q \in DOMAIN operations
        PROVE  SaysLast(operations[q].state, Lane(q)', handled["events"][operations[q].inst], q)
    <3> DEFINE n == handled["events"][operations[q].inst]
    <3>1. SaysLast(operations[q].state, Lane(q), n, q)
      BY DEF PInv, OperationSaysItsLast
    <3>2. \A k \in 1 .. n : k \in 1 .. Len(Lane(q))
      BY LaneOf
    <3>3. \A k \in 1 .. n : Lane(q)'[k] = Lane(q)[k]
      BY <1>7, <3>2
    <3>4. QED  BY <3>1, <3>3, SaysLastKept
  <2>2. QED  BY <1>1, <1>2, <2>1 DEF OperationSaysItsLast
<1>9. FactsFollowStatus'
  <2>1. ASSUME NEW q \in DOMAIN operations, generation'[q] = 0
        PROVE  Follows(Lane(q)', status'[q], q)
    <3> DEFINE R == Records("events", operations[q].inst)
    <3>1. q \in OpIds /\ Lane(q) \in Seq(R) /\ Lane(q)' \in Seq(R)
      BY <1>7, LaneOf
    <3>2. Follows(Lane(q), status[q], q)
      BY <1>4, <2>1, <3>1 DEF PInv, FactsFollowStatus
    <3>3. ASSUME status'[q] = status[q],
                 \A k \in 1 .. Len(Lane(q)') : k > Len(Lane(q)) => ~IsFact(Lane(q)', k, q)
          PROVE  Follows(Lane(q)', status'[q], q)
      BY <1>7, <3>1, <3>2, <3>3, FollowsKept
    <3>4. CASE q # o
      <4>1. \A k \in 1 .. Len(Lane(q)') : k > Len(Lane(q)) => ~IsFact(Lane(q)', k, q)
        BY <1>7, <3>4 DEF IsFact
      <4>2. QED  BY <1>4, <3>1, <3>3, <3>4, <4>1
    <3>5. CASE q = o
      <4>1. /\ Lane(q) = log["events"][i] /\ Lane(q)' = log'["events"][i]
            /\ \A kind \in FactKinds : Fact(kind, o) \in R /\ Fact(kind, o).kind = kind
        <5>1. o \in OpsOf(i)
          BY LaneOf
        <5>2. QED  BY <1>2, <3>5, <5>1, EventTypes DEF Lane, Fact
      <4>2. CASE Starts(o)
        <5>1. /\ Lane(q)' = Append(Lane(q), Fact("progress", o))
              /\ status[q] = "none" /\ status'[q] = "running"
          BY <3>1, <3>5, <4>1, <4>2 DEF Starts, PInv, OrchestratorOK
        <5>2. "progress" \in FactKinds
          BY DEF FactKinds
        <5>3. /\ Fact("progress", o) \in R /\ Fact("progress", o).kind = "progress"
              /\ Follows(Lane(q), "none", q)
          BY <3>2, <4>1, <5>1, <5>2
        <5>4. Follows(Append(Lane(q), Fact("progress", o)), "running", q)
          BY <3>1, <5>3, FollowsAppended
        <5>5. QED  BY <5>1, <5>4
      <4>3. ASSUME NEW outcome \in Ended, NEW kind \in FactKinds, Ends(o, outcome, kind)
            PROVE  Follows(Lane(q)', status'[q], q)
        <5>1. /\ Lane(q)' = Append(Lane(q), Fact(kind, o)) /\ kind # "progress"
              /\ status[q] = "running" /\ status'[q] = outcome
          BY <3>1, <3>5, <4>1, <4>3 DEF Ends, PInv, OrchestratorOK
        <5>2. outcome # "none" /\ outcome # "running"
          BY <4>3 DEF Ended
        <5>3. /\ Fact(kind, o) \in R /\ Fact(kind, o).kind # "progress"
              /\ Follows(Lane(q), "running", q)
          BY <3>2, <4>1, <4>3, <5>1
        <5>4. Follows(Append(Lane(q), Fact(kind, o)), outcome, q)
          BY <3>1, <5>2, <5>3, FollowsAppended
        <5>5. QED  BY <5>1, <5>4
      <4>4. ASSUME NEW n \in Nat \ {0}, Regenerates(o, n)
            PROVE  FALSE
        BY <1>3, <2>1, <3>5, <4>4 DEF Regenerates, PInv, OrchestratorOK
      <4>5. CASE LeavesWorkflow(o)
        <5>1. status' = status
          BY <4>5 DEF LeavesWorkflow
        <5>2. CASE Lane(q)' = Lane(q)
          BY <3>2, <5>1, <5>2
        <5>3. ASSUME NEW p \in ReplayKeys,
                     Lane(q)' = Append(Lane(q), Resolution(o, p, "rejected"))
              PROVE  Follows(Lane(q)', status'[q], q)
          <6>1. Len(Lane(q)') = Len(Lane(q)) + 1 /\ Len(Lane(q)) \in Nat
                /\ Lane(q)'[Len(Lane(q)) + 1] = Resolution(o, p, "rejected")
            BY <3>1, <5>3, AppendProperties
          <6>2. ~IsFact(Lane(q)', Len(Lane(q)) + 1, q)
            BY <6>1 DEF IsFact, Resolution
          <6>3. \A k \in 1 .. Len(Lane(q)') : k > Len(Lane(q)) => k = Len(Lane(q)) + 1
            BY <6>1
          <6>4. QED  BY <3>3, <5>1, <6>2, <6>3
        <5>4. QED  BY <4>1, <4>5, <5>2, <5>3 DEF LeavesWorkflow
      <4>6. QED  BY <4>2, <4>3, <4>4, <4>5 DEF Orchestrates
    <3>6. QED  BY <3>4, <3>5
  <2>2. QED  BY <1>2, <2>1 DEF FactsFollowStatus
<1>10. UnfinishedIsActiveUnlessReplayed'
  <2>1. ASSUME NEW j \in DOMAIN instances, Unreplayed(j)'
        PROVE  Unreplayed(j)
    <3>1. OpsOf(j) \subseteq OpIds
      BY LaneOf DEF OpsOf
    <3>2. QED  BY <1>2, <1>4, <2>1, <3>1 DEF Unreplayed
  <2>2. QED
    BY <1>2, <2>1 DEF PInv, UnfinishedIsActiveUnlessReplayed
<1>11. QED
  BY <1>2, <1>5, <1>6, <1>8, <1>9, <1>10 DEF PInv

-----------------------------------------------------------------------------
(* The Control API's steps.                                                *)

LEMMA WithinIdsStill ==
  LInv' /\ InstancesCreated' =>
    (/\ DOMAIN operations \subseteq OpIds /\ DOMAIN instances \subseteq InstIds
     /\ \A o \in DOMAIN operations : operations[o].inst \in InstIds)'
<1>1. LInv /\ InstancesCreated =>
        /\ DOMAIN operations \subseteq OpIds /\ DOMAIN instances \subseteq InstIds
        /\ \A o \in DOMAIN operations : operations[o].inst \in InstIds
  <2> SUFFICES ASSUME LInv, InstancesCreated
               PROVE  <1>1!2
    OBVIOUS
  <2>1. \A o \in DOMAIN operations : operations[o].inst \in DOMAIN instances
    BY Columns DEF LInv, OperationTable
  <2>2. QED  BY <2>1, WithinIds
<1>2. QED  BY <1>1, PTL

(* What the pipeline has no part in: the Control API adds operations and   *)
(* leaves those there are.                                                 *)
OperationsAdded ==
  /\ UNCHANGED <<status, generation, letters, replays, requested, log, handled>>
  /\ DOMAIN operations \subseteq DOMAIN operations'
  /\ \A o \in DOMAIN operations : operations'[o] = operations[o]
  /\ \A o \in DOMAIN operations' : o \notin DOMAIN operations =>
       operations'[o].state = "accepted"

(* Nothing was published yet of an operation that is new.                  *)
LEMMA AddedOperations ==
  ASSUME PInv, LInv', InstancesCreated', OperationsAdded
  PROVE  OrchestratorOK' /\ LogsOK' /\ OperationSaysItsLast' /\ FactsFollowStatus'
<1>1. /\ status' = status /\ generation' = generation /\ letters' = letters
      /\ replays' = replays /\ requested' = requested /\ log' = log /\ handled' = handled
  BY DEF OperationsAdded
<1>2. /\ DOMAIN operations \subseteq DOMAIN operations'
      /\ \A o \in DOMAIN operations : operations'[o] = operations[o]
      /\ \A o \in DOMAIN operations' : o \notin DOMAIN operations =>
           operations'[o].state = "accepted"
  BY DEF OperationsAdded
<1>3. /\ DOMAIN operations' \subseteq OpIds
      /\ \A o \in DOMAIN operations' : operations'[o].inst \in InstIds
  BY WithinIdsStill DEF OpIds, InstIds
<1>4. OrchestratorOK'
  BY <1>1, <1>2 DEF PInv, OrchestratorOK, ReplayKeys, OpIds
<1>5. \A t, i : Records(t, i) \subseteq Records(t, i)'
  <2>1. \A i : OpsOf(i) \subseteq OpsOf(i)'
    BY <1>2 DEF OpsOf
  <2>2. QED  BY <2>1 DEF Records, Facts, Resolutions, DeadLetters, ReplayKeys
<1>6. LogsOK'
  <2>1. ASSUME NEW t \in Topics, NEW i \in InstIds
        PROVE  log[t][i] \in Seq(Records(t, i)') /\ handled[t][i] <= Len(log[t][i])
    BY <1>5, WidenedSeq DEF PInv, LogsOK
  <2>2. QED  BY <1>1, <2>1 DEF PInv, LogsOK, Topics, InstIds
<1>7. ASSUME NEW o \in DOMAIN operations', o \notin DOMAIN operations
      PROVE  /\ status[o] = "none"
             /\ handled["events"][operations'[o].inst] \in Nat
             /\ handled["events"][operations'[o].inst] <= Len(Lane(o)')
             /\ Len(Lane(o)') \in Nat
             /\ \A k \in 1 .. Len(Lane(o)') : ~IsFact(Lane(o)', k, o)
  <2> DEFINE i == operations'[o].inst
  <2>1. o \in OpIds /\ i \in InstIds /\ "events" \in Topics
    BY <1>3, <1>7 DEF Topics
  <2>2. Lane(o)' = log["events"][i]
    BY <1>1 DEF Lane
  <2>3. log["events"][i] \in Seq(Records("events", i)) /\ handled["events"][i] \in Nat
        /\ handled["events"][i] <= Len(log["events"][i])
    BY <2>1 DEF PInv, LogsOK
  <2>4. \A k \in 1 .. Len(log["events"][i]) : log["events"][i][k] \in Records("events", i)
    BY <2>3
  <2>5. \A e \in Records("events", i) : e.op \in DOMAIN operations
    BY DEF Records, Facts, Resolutions, OpsOf
  <2>6. status[o] = "none"
    BY <1>7, <2>1 DEF PInv, OrchestratorOK
  <2>7. \A k \in 1 .. Len(log["events"][i]) : log["events"][i][k].op # o
    BY <1>7, <2>4, <2>5
  <2>8. QED  BY <2>2, <2>3, <2>6, <2>7 DEF IsFact
<1>8. OperationSaysItsLast'
  <2>1. ASSUME NEW o \in DOMAIN operations'
        PROVE  SaysLast(operations'[o].state, Lane(o)', handled["events"][operations'[o].inst], o)
    <3>1. CASE o \in DOMAIN operations
      <4>1. operations'[o] = operations[o] /\ Lane(o)' = Lane(o)
        BY <1>1, <1>2, <3>1 DEF Lane
      <4>2. QED  BY <3>1, <4>1 DEF PInv, OperationSaysItsLast
    <3>2. CASE o \notin DOMAIN operations
      <4> DEFINE n == handled["events"][operations'[o].inst]
      <4>1. \A k \in 1 .. n : ~IsFact(Lane(o)', k, o)
        BY <1>7, <2>1, <3>2
      <4>2. operations'[o].state = "accepted"
        BY <1>2, <2>1, <3>2
      <4>3. QED  BY <4>1, <4>2 DEF SaysLast
    <3>3. QED  BY <3>1, <3>2
  <2>2. QED  BY <1>1, <2>1 DEF OperationSaysItsLast
<1>9. FactsFollowStatus'
  <2>1. ASSUME NEW o \in DOMAIN operations', generation[o] = 0
        PROVE  Follows(Lane(o)', status[o], o)
    <3>1. CASE o \in DOMAIN operations
      <4>1. Lane(o)' = Lane(o)
        BY <1>1, <1>2, <3>1 DEF Lane
      <4>2. QED  BY <2>1, <3>1, <4>1 DEF PInv, FactsFollowStatus
    <3>2. CASE o \notin DOMAIN operations
      BY <1>7, <2>1, <3>2 DEF Follows
    <3>3. QED  BY <3>1, <3>2
  <2>2. QED  BY <1>1, <2>1 DEF FactsFollowStatus
<1>10. QED  BY <1>4, <1>6, <1>8, <1>9

(* A create adds an instance, with a document that agrees with it.         *)
LEMMA CreationPreserves ==
  ASSUME PInv, NEW h \in Handlers, WriteAcceptanceRecords(h),
         UNCHANGED <<status, generation, letters, replays, requested, log, handled>>
  PROVE  PInv'
<1> DEFINE r == tx[h].req
<1>0. PICK i : i = Len(instances) + 1
  OBVIOUS
<1>1. LInv /\ LInv' /\ TablesOK
  BY LocksPreserved DEF PInv, LInv, StepKinds, AcceptKinds
<1>2. /\ r.kind = "create_instance"
      /\ DOMAIN instances' = DOMAIN instances \cup {i} /\ i \notin DOMAIN instances
      /\ instances'[i].active = ThisOp /\ instances'[i].life = "pending"
      /\ \A j \in DOMAIN instances : instances'[j] = instances[j]
      /\ DOMAIN operations' = DOMAIN operations \cup {ThisOp}
      /\ operations'[ThisOp] = NewOp(r, i, 0)
      /\ \A o \in DOMAIN operations : operations'[o] = operations[o]
  BY <1>0, <1>1, CreationRows
<1>3. /\ operations'[ThisOp].req = r /\ operations'[ThisOp].inst = i
      /\ operations'[ThisOp].state = "accepted" /\ ThisOp \notin DOMAIN operations
  BY <1>1, <1>2, TablePositions DEF NewOp
<1>4. \A o \in DOMAIN operations : operations[o].inst \in DOMAIN instances
  BY <1>1, Columns DEF OperationTable
<1>5. /\ \A j \in DOMAIN instances : OpsOf(j)' = OpsOf(j)
      /\ OpsOf(i)' = {ThisOp}
  BY <1>2, <1>3, <1>4 DEF OpsOf
<1>6. InstancesCreated'
  BY <1>2, <1>3, <1>5 DEF PInv, InstancesCreated, OpsOf
<1>7. OrchestratorOK' /\ LogsOK' /\ OperationSaysItsLast' /\ FactsFollowStatus'
  <2>1. OperationsAdded
    BY <1>2, <1>3 DEF OperationsAdded
  <2>2. QED  BY <1>1, <1>6, <2>1, AddedOperations
<1>8. UnfinishedIsActiveUnlessReplayed'
  <2>1. ASSUME NEW j \in DOMAIN instances, Unreplayed(j)', NEW o \in OpsOf(j)', Unfinished(o)'
        PROVE  instances'[j].active = o
    <3>1. Unreplayed(j) /\ o \in OpsOf(j) /\ o \in DOMAIN operations
      BY <1>5, <2>1 DEF Unreplayed, OpsOf
    <3>2. Unfinished(o)
      BY <1>2, <2>1, <3>1 DEF Unfinished
    <3>3. instances[j].active = o
      BY <2>1, <3>1, <3>2 DEF PInv, UnfinishedIsActiveUnlessReplayed
    <3>4. QED  BY <1>2, <2>1, <3>3
  <2>2. \A o \in OpsOf(i)' : instances'[i].active = o
    BY <1>2, <1>5
  <2>3. QED  BY <1>2, <2>1, <2>2 DEF UnfinishedIsActiveUnlessReplayed
<1>9. DocumentsWait'
  <2> DEFINE doc == [life |-> "pending", active |-> ThisOp, drift |-> "none"]
  <2>1. docs' = Append(docs, doc) /\ docs \in Seq(DocTable) /\ Len(docs) = Len(instances)
    BY <1>1 DEF WriteAcceptanceRecords, TablesOK
  <2>2. docs'[i] = doc /\ \A j \in DOMAIN instances : docs'[j] = docs[j]
    BY <1>0, <1>1, <2>1, TablePositions, AppendProperties
  <2>3. docs'[i].active = instances'[i].active /\ docs'[i].life = instances'[i].life
    BY <1>2, <2>2
  <2> HIDE DEF doc
  <2>4. ASSUME NEW j \in DOMAIN instances
        PROVE  /\ docs'[j].active = instances'[j].active
               /\ docs'[j].life # instances'[j].life =>
                    /\ instances'[j].life \in {"deleting", "purge_pending"}
                    /\ instances'[j].active \in OpsOf(j)'
                    /\ operations'[instances'[j].active].state = "accepted"
    <3>1. docs'[j] = docs[j] /\ instances'[j] = instances[j] /\ OpsOf(j)' = OpsOf(j)
      BY <1>2, <1>5, <2>2, <2>4
    <3>2. \A o \in OpsOf(j) : operations'[o] = operations[o]
      BY <1>2 DEF OpsOf
    <3>3. QED  BY <2>4, <3>1, <3>2 DEF PInv, DocumentsWait
  <2>5. QED  BY <1>2, <2>3, <2>4 DEF DocumentsWait
<1>10. QED  BY <1>1, <1>6, <1>7, <1>8, <1>9 DEF PInv

(* A mutation is accepted on an idle instance, whose document agrees with  *)
(* it; only a retention and a purge change the lifecycle.                  *)
LEMMA MutationPreserves ==
  ASSUME PInv, NEW r, NEW i, NEW s, NEW row, Mutates(r, i, s, row),
         UNCHANGED <<status, generation, letters, replays, requested, log, handled>>
  PROVE  PInv'
<1>1. LInv /\ LInv' /\ TablesOK
  BY LocksPreserved DEF PInv, LInv, StepKinds, AcceptKinds
<1>2. /\ i \in DOMAIN instances /\ DOMAIN instances' = DOMAIN instances
      /\ instances'[i] = row /\ row.active = ThisOp
      /\ \A j \in DOMAIN instances : j # i => instances'[j] = instances[j]
  BY <1>1, MutationRows
<1>3. /\ DOMAIN operations' = DOMAIN operations \cup {ThisOp}
      /\ ThisOp \notin DOMAIN operations
      /\ operations'[ThisOp] = NewOp(r, i, s)
      /\ \A o \in DOMAIN operations : operations'[o] = operations[o]
  BY <1>1, MutationOperations
<1>4. operations'[ThisOp].inst = i /\ operations'[ThisOp].state = "accepted"
  BY <1>3 DEF NewOp
<1>5. /\ \A j \in DOMAIN instances : j # i => OpsOf(j)' = OpsOf(j)
      /\ OpsOf(i)' = OpsOf(i) \cup {ThisOp}
  BY <1>2, <1>3, <1>4 DEF OpsOf
<1>6. InstancesCreated'
  <2>1. ASSUME NEW j \in DOMAIN instances
        PROVE  \E o \in OpsOf(j)' : operations'[o].req.kind = "create_instance"
    <3>1. PICK o \in OpsOf(j) : operations[o].req.kind = "create_instance"
      BY DEF PInv, InstancesCreated
    <3>2. o \in OpsOf(j)' /\ operations'[o] = operations[o]
      BY <1>3, <1>5, <3>1 DEF OpsOf
    <3>3. QED  BY <3>1, <3>2
  <2>2. QED  BY <1>2, <2>1 DEF InstancesCreated
<1>7. OrchestratorOK' /\ LogsOK' /\ OperationSaysItsLast' /\ FactsFollowStatus'
  <2>1. OperationsAdded
    BY <1>3, <1>4 DEF OperationsAdded
  <2>2. QED  BY <1>1, <1>6, <2>1, AddedOperations
<1>8. instances[i].active = 0 /\ 0 \notin OpsOf(i)
  BY <1>1, TablePositions DEF Mutates, OpsOf
<1>9. UnfinishedIsActiveUnlessReplayed'
  <2>1. ASSUME NEW j \in DOMAIN instances, Unreplayed(j)', NEW o \in OpsOf(j)', Unfinished(o)'
        PROVE  instances'[j].active = o
    <3>1. ASSUME o \in OpsOf(j)
          PROVE  instances[j].active = o
      <4>1. Unreplayed(j)
        BY <1>5, <2>1 DEF Unreplayed
      <4>2. Unfinished(o)
        BY <1>3, <2>1, <3>1 DEF Unfinished, OpsOf
      <4>3. QED  BY <2>1, <3>1, <4>1, <4>2 DEF PInv, UnfinishedIsActiveUnlessReplayed
    <3>2. CASE j # i
      BY <1>2, <1>5, <2>1, <3>1, <3>2
    <3>3. CASE j = i
      BY <1>2, <1>5, <1>8, <2>1, <3>1, <3>3
    <3>4. QED  BY <3>2, <3>3
  <2>2. QED  BY <1>2, <2>1 DEF UnfinishedIsActiveUnlessReplayed
<1>10. DocumentsWait'
  <2>1. docs' = [docs EXCEPT ![i].active = ThisOp] /\ docs \in Seq(DocTable)
        /\ i \in DOMAIN docs /\ DOMAIN docs = DOMAIN instances
        /\ docs[i] \in DocTable
    BY <1>1, <1>2, TablePositions, Columns DEF Mutates, MarkInstanceBusy, TablesOK
  <2>2. /\ docs'[i].active = ThisOp /\ docs'[i].life = docs[i].life
        /\ \A j \in DOMAIN instances : j # i => docs'[j] = docs[j]
    BY <2>1 DEF DocTable
  <2>3. docs[i].life = instances[i].life
    BY <1>2, <1>8 DEF PInv, DocumentsWait
  <2>4. row.life # instances[i].life => row.life \in {"deleting", "purge_pending"}
    BY DEF Mutates, RowAccepted
  <2>5. ASSUME NEW j \in DOMAIN instances
        PROVE  /\ docs'[j].active = instances'[j].active
               /\ docs'[j].life # instances'[j].life =>
                    /\ instances'[j].life \in {"deleting", "purge_pending"}
                    /\ instances'[j].active \in OpsOf(j)'
                    /\ operations'[instances'[j].active].state = "accepted"
    <3>1. CASE j # i
      <4>1. docs'[j] = docs[j] /\ instances'[j] = instances[j] /\ OpsOf(j)' = OpsOf(j)
        BY <1>2, <1>5, <2>2, <2>5, <3>1
      <4>2. \A o \in OpsOf(j) : operations'[o] = operations[o]
        BY <1>3 DEF OpsOf
      <4>3. QED  BY <2>5, <4>1, <4>2 DEF PInv, DocumentsWait
    <3>2. CASE j = i
      BY <1>2, <1>4, <1>5, <2>2, <2>3, <2>4, <3>2
    <3>3. QED  BY <3>1, <3>2
  <2>6. QED  BY <1>2, <2>5 DEF DocumentsWait
<1>11. QED  BY <1>1, <1>6, <1>7, <1>9, <1>10 DEF PInv

(* Any other step of the Control API leaves lifecycles, active operations, *)
(* documents and operations alone.                                         *)
LEMMA OtherwisePreserves ==
  ASSUME PInv, LInv', operations' = operations, docs' = docs,
         DOMAIN instances' = DOMAIN instances,
         \A j \in DOMAIN instances : /\ instances'[j].life = instances[j].life
                                     /\ instances'[j].active = instances[j].active,
         UNCHANGED <<status, generation, letters, replays, requested, log, handled>>
  PROVE  PInv'
<1>1. \A i : OpsOf(i)' = OpsOf(i)
  BY DEF OpsOf
<1>2. InstancesCreated' /\ DocumentsWait'
  BY <1>1 DEF PInv, InstancesCreated, DocumentsWait
<1>3. UnfinishedIsActiveUnlessReplayed'
  BY <1>1 DEF PInv, UnfinishedIsActiveUnlessReplayed, Unreplayed, Unfinished
<1>4. OperationsAdded
  BY DEF OperationsAdded
<1>5. QED  BY <1>2, <1>3, <1>4, AddedOperations DEF PInv

LEMMA AcceptPreserves ==
  ASSUME PInv, Accept, UNCHANGED <<orchestratorVars, consumerVars, log>>
  PROVE  PInv'
<1>1. UNCHANGED <<status, generation, letters, replays, requested, log, handled>>
  BY DEF orchestratorVars, consumerVars
<1>2. LInv /\ AcceptKinds /\ TablesOK
  BY AcceptIsKind DEF PInv, LInv
<1>3. LInv'
  BY <1>2, LocksPreserved DEF StepKinds
<1>4. ASSUME UNCHANGED tableVars
      PROVE  PInv'
  BY <1>1, <1>3, <1>4, OtherwisePreserves DEF tableVars
<1>5. ASSUME NEW h \in Handlers, NEW r \in OpenCommands, Opens(h, r)
      PROVE  PInv'
  BY <1>4, <1>5 DEF Opens
<1>6. ASSUME NEW h \in Handlers, ReserveIpv4Address(h)
      PROVE  PInv'
  BY <1>4, <1>6 DEF ReserveIpv4Address, tableVars
<1>7. ASSUME NEW i \in DOMAIN instances, DeadlinePasses(i)
      PROVE  PInv'
  <2>1. operations' = operations /\ docs' = docs
    BY <1>7 DEF DeadlinePasses
  <2>2. QED  BY <1>1, <1>2, <1>3, <1>7, <2>1, DeadlineRows, OtherwisePreserves
<1>8. ASSUME NEW h \in Handlers, WriteAcceptanceRecords(h)
      PROVE  PInv'
  BY <1>1, <1>8, CreationPreserves
<1>9. ASSUME NEW r, NEW i, NEW s, NEW row, Mutates(r, i, s, row)
      PROVE  PInv'
  BY <1>1, <1>9, MutationPreserves
<1>10. QED
  BY <1>2, <1>4, <1>5, <1>6, <1>7, <1>8, <1>9, Zenon DEF AcceptKinds

(* A replay is asked for of a dead letter that was projected, so of an     *)
(* operation that exists.                                                  *)
LEMMA RequestPreserves ==
  ASSUME PInv, NEW r \in ReplayRequests, RequestDeadLetterReplay(r)
  PROVE  PInv'
<1> DEFINE q == r.key
           o == r.event
<1>1. /\ UNCHANGED <<acceptVars, status, generation, letters, log, handled>>
      /\ q \in ReplayKeys /\ o \in OpIds /\ letters[o] = "replayable"
      /\ replays' = [replays EXCEPT ![q] = [op |-> o, status |-> "accepted"]]
      /\ requested' = requested \cup {q}
  BY DEF RequestDeadLetterReplay, Replayable, ReplayKeys
<1>2. /\ instances' = instances /\ operations' = operations /\ docs' = docs
      /\ LInv' /\ InstancesCreated' /\ DocumentsWait'
      /\ \A i : OpsOf(i)' = OpsOf(i)
      /\ \A t, i : Records(t, i)' = Records(t, i)
      /\ \A p : Unfinished(p)' = Unfinished(p)
  BY <1>1, TablesUntouched
<1> HIDE DEF q, o
<1>3. OrchestratorOK'
  <2>1. o \in DOMAIN operations
    BY <1>1 DEF PInv, OrchestratorOK
  <2>2. replays' \in [ReplayKeys -> [op : OpIds \cup {0},
                        status : {"none", "accepted", "completed", "rejected"}]]
    BY <1>1 DEF PInv, OrchestratorOK
  <2>3. \A p \in requested' : replays'[p].op \in DOMAIN operations
    BY <1>1, <2>1 DEF PInv, OrchestratorOK
  <2>4. QED
    BY <1>1, <1>2, <2>2, <2>3 DEF PInv, OrchestratorOK, ReplayKeys, OpIds
<1>4. LogsOK'
  BY <1>1, <1>2 DEF PInv, LogsOK, Topics, InstIds
<1>5. OperationSaysItsLast' /\ FactsFollowStatus'
  BY <1>1, <1>2 DEF PInv, OperationSaysItsLast, FactsFollowStatus, Lane
<1>6. UnfinishedIsActiveUnlessReplayed'
  BY <1>1, <1>2 DEF PInv, UnfinishedIsActiveUnlessReplayed, Unreplayed
<1>7. QED  BY <1>2, <1>3, <1>4, <1>5, <1>6 DEF PInv

-----------------------------------------------------------------------------
(* The consumers' steps.                                                   *)

(* A record that is no fact of the operation says nothing of it.           *)
LEMMA SaysLastSkips ==
  ASSUME NEW state, NEW l, NEW n \in Nat, NEW o, SaysLast(state, l, n, o),
         ~IsFact(l, n + 1, o)
  PROVE  SaysLast(state, l, n + 1, o)
<1>1. \A j \in 1 .. n + 1 : j \in 1 .. n \/ j = n + 1
  OBVIOUS
<1>2. \A j \in 1 .. n : j \in 1 .. n + 1
  OBVIOUS
<1>3. \A j \in 1 .. n + 1 : IsFact(l, j, o) => j \in 1 .. n
  BY <1>1
<1>4. QED  BY <1>2, <1>3 DEF SaysLast

(* The next fact is the last one.                                          *)
LEMMA SaysLastNew ==
  ASSUME NEW l, NEW n \in Nat, NEW o, IsFact(l, n + 1, o)
  PROVE  SaysLast(Saying(l[n + 1].kind), l, n + 1, o)
<1>1. n + 1 \in 1 .. n + 1 /\ \A j \in 1 .. n + 1 : j <= n + 1
  OBVIOUS
<1>2. QED  BY <1>1 DEF SaysLast

(* An operation of generation 0 that has a fact to come has not ended.     *)
LEMMA NotEndedYet ==
  ASSUME NEW R, NEW l \in Seq(R), NEW n \in Nat, n + 1 <= Len(l), NEW o, NEW state, NEW st,
         Follows(l, st, o), SaysLast(state, l, n, o), IsFact(l, n + 1, o)
  PROVE  state \in {"accepted", "running"}
<1>1. Len(l) \in Nat /\ n + 1 \in 1 .. Len(l)
  OBVIOUS
<1>2. CASE state = "accepted"
  BY <1>2
<1>3. ASSUME NEW k \in 1 .. n, IsFact(l, k, o), state = Saying(l[k].kind)
      PROVE  state = "running"
  <2>1. k \in 1 .. Len(l) /\ k < n + 1
    BY <1>1
  <2>2. l[k].kind = "progress"
    BY <1>1, <1>3, <2>1 DEF Follows
  <2>3. QED  BY <1>3, <2>2 DEF Saying
<1>4. QED  BY <1>2, <1>3 DEF SaysLast

(* Receipts are for the records up to a point, so the one delivered is the *)
(* next.                                                                   *)
LEMMA NextRecord ==
  ASSUME PInv, NEW t \in Topics, NEW i \in InstIds, Consume(t, i)
  PROVE  LET n == handled[t][i] e == log[t][i][n + 1] IN
         /\ n \in Nat /\ n + 1 <= Len(log[t][i])
         /\ e \in Records(t, i) /\ Apply(t, e)
         /\ handled' = [handled EXCEPT ![t][i] = n + 1]
         /\ UNCHANGED <<orchestratorVars, log>>
<1> DEFINE n == handled[t][i]
<1>1. n \in Nat /\ log[t][i] \in Seq(Records(t, i)) /\ Len(log[t][i]) \in Nat
  BY DEF PInv, LogsOK
<1>2. PICK k \in 1 .. n + 1 : Deliver(t, i, k)
  BY DEF Consume
<1>3. k = n + 1
  BY <1>1, <1>2 DEF Deliver, HasReceipt
<1>4. n + 1 \in 1 .. Len(log[t][i]) /\ n + 1 > n
  BY <1>1, <1>2, <1>3 DEF Deliver
<1>5. handled' = [handled EXCEPT ![t][i] = n + 1]
  BY <1>2, <1>3, <1>4 DEF Deliver
<1>6. Apply(t, log[t][i][n + 1]) /\ UNCHANGED <<orchestratorVars, log>>
  BY <1>2, <1>3 DEF Deliver
<1>7. log[t][i][n + 1] \in Records(t, i) /\ n + 1 <= Len(log[t][i])
  BY <1>1, <1>4
<1>8. QED  BY <1>1, <1>5, <1>6, <1>7

(* One record more is handled in one lane, and the lanes are as they were. *)
LEMMA HandledAdvances ==
  ASSUME PInv, NEW t \in Topics, NEW i \in InstIds,
         handled[t][i] + 1 <= Len(log[t][i]),
         handled' = [handled EXCEPT ![t][i] = handled[t][i] + 1], log' = log,
         \A s, j : Records(s, j)' = Records(s, j)
  PROVE  /\ LogsOK'
         /\ handled'[t][i] = handled[t][i] + 1
         /\ \A s \in Topics, j \in InstIds :
              s # t \/ j # i => handled'[s][j] = handled[s][j]
<1>1. handled \in [Topics -> [InstIds -> Nat]]
  BY DEF PInv, LogsOK
<1>2. /\ handled' \in [Topics -> [InstIds -> Nat]]
      /\ handled'[t][i] = handled[t][i] + 1
      /\ \A s \in Topics, j \in InstIds :
           s # t \/ j # i => handled'[s][j] = handled[s][j]
  BY <1>1
<1>3. LogsOK'
  BY <1>2 DEF PInv, LogsOK, Topics, InstIds
<1>4. QED  BY <1>2, <1>3

(* A dead letter and an answer to a replay request change no operation.    *)
LEMMA QuietRecord ==
  ASSUME PInv, NEW t \in Topics, NEW i \in InstIds, Consume(t, i),
         UNCHANGED acceptVars,
         t = "events" => log[t][i][handled[t][i] + 1].kind = "resolved"
  PROVE  PInv'
<1> DEFINE n == handled[t][i]
           e == log[t][i][n + 1]
<1>1. /\ n \in Nat /\ n + 1 <= Len(log[t][i])
      /\ e \in Records(t, i) /\ Apply(t, e)
      /\ handled' = [handled EXCEPT ![t][i] = n + 1]
      /\ status' = status /\ generation' = generation /\ requested' = requested
      /\ log' = log
  BY NextRecord DEF orchestratorVars
<1>2. /\ instances' = instances /\ operations' = operations /\ docs' = docs
      /\ LInv' /\ InstancesCreated' /\ DocumentsWait'
      /\ \A j : OpsOf(j)' = OpsOf(j)
      /\ \A s, j : Records(s, j)' = Records(s, j)
      /\ \A p : Unfinished(p)' = Unfinished(p)
  BY TablesUntouched
<1>3. /\ LogsOK' /\ handled'[t][i] = n + 1
      /\ \A s \in Topics, j \in InstIds :
           s # t \/ j # i => handled'[s][j] = handled[s][j]
  BY <1>1, <1>2, HandledAdvances
<1>4. e.op \in DOMAIN operations /\ e.op \in OpIds
  <2>1. e.op \in OpsOf(i)
    BY <1>1 DEF Records, Facts, Resolutions, DeadLetters
  <2>2. QED  BY <2>1, WithinIds DEF PInv, OpsOf
<1>5. t = "events" => e \in Resolutions(i)
  BY <1>1 DEF Records, Facts, FactKinds
<1> HIDE DEF e
<1>6. OrchestratorOK'
  <2>1. CASE t = "dlq"
    <3>1. ApplyDeadLetterEvent(e)
      BY <1>1, <2>1 DEF Apply
    <3>2. /\ replays' = replays /\ letters' \in [OpIds -> {"none", "replayable", "closed"}]
          /\ \A o \in OpIds : o # e.op => letters'[o] = letters[o]
      BY <1>4, <3>1 DEF ApplyDeadLetterEvent, PInv, OrchestratorOK
    <3>3. QED
      BY <1>1, <1>2, <1>4, <3>2 DEF PInv, OrchestratorOK, ReplayKeys, OpIds
  <2>2. CASE t = "events"
    <3>1. e.kind = "resolved" /\ e.key \in ReplayKeys /\ e.outcome \in {"completed", "rejected"}
      BY <1>5, <2>2 DEF Resolutions
    <3>2. ApplyReplayResolved(e)
      BY <1>1, <2>2, <3>1 DEF Apply, ApplyWorkflowEvent
    <3>3. /\ letters' \in [OpIds -> {"none", "replayable", "closed"}]
          /\ \A o \in OpIds : o # e.op => letters'[o] = letters[o]
      BY <1>4, <3>2 DEF ApplyReplayResolved, PInv, OrchestratorOK
    <3>4. /\ replays' \in [ReplayKeys -> [op : OpIds \cup {0},
                             status : {"none", "accepted", "completed", "rejected"}]]
          /\ \A q \in ReplayKeys : replays'[q].op = replays[q].op
      BY <3>1, <3>2 DEF ApplyReplayResolved, PInv, OrchestratorOK
    <3>5. QED
      BY <1>1, <1>2, <1>4, <3>3, <3>4 DEF PInv, OrchestratorOK, ReplayKeys, OpIds
  <2>3. QED  BY <2>1, <2>2 DEF Topics
<1>7. OperationSaysItsLast'
  <2>1. ASSUME NEW o \in DOMAIN operations
        PROVE  SaysLast(operations[o].state, Lane(o), handled'["events"][operations[o].inst], o)
    <3>1. /\ operations[o].inst \in InstIds /\ "events" \in Topics
          /\ Lane(o) = log["events"][operations[o].inst]
      BY LaneOf DEF Topics
    <3>2. SaysLast(operations[o].state, Lane(o), handled["events"][operations[o].inst], o)
      BY DEF PInv, OperationSaysItsLast
    <3>3. CASE t # "events" \/ operations[o].inst # i
      BY <1>3, <3>1, <3>2, <3>3
    <3>4. CASE t = "events" /\ operations[o].inst = i
      <4>1. ~IsFact(Lane(o), n + 1, o)
        BY <3>1, <3>4 DEF IsFact
      <4>2. SaysLast(operations[o].state, Lane(o), n + 1, o)
        BY <1>1, <3>2, <3>4, <4>1, SaysLastSkips
      <4>3. QED  BY <1>3, <3>4, <4>2
    <3>5. QED  BY <3>3, <3>4
  <2>2. QED  BY <1>1, <1>2, <2>1 DEF OperationSaysItsLast, Lane
<1>8. FactsFollowStatus' /\ UnfinishedIsActiveUnlessReplayed'
  BY <1>1, <1>2 DEF PInv, FactsFollowStatus, Lane, UnfinishedIsActiveUnlessReplayed, Unreplayed
<1>9. QED  BY <1>2, <1>3, <1>6, <1>7, <1>8 DEF PInv

(* A fact carries its operation into the state it says.                    *)
LEMMA FactCarries ==
  ASSUME LInv, NEW i, NEW e \in Facts(i), ApplyWorkflowEvent(e)
  PROVE  /\ e.op \in OpsOf(i) /\ e.op \in DOMAIN operations
         /\ UNCHANGED <<letters, replays>>
         /\ EventKind(e.op) /\ LInv'
         /\ \E life \in Lifecycles, active \in 0 .. Len(operations) :
              Carries(e.op, Saying(e.kind), life, active)
         /\ Saying(e.kind) \in OperationStates
<1> DEFINE o == e.op
<1>1. e.kind \in FactKinds /\ o \in OpsOf(i) /\ o \in DOMAIN operations
  BY DEF Facts, OpsOf
<1>2. /\ UNCHANGED <<letters, replays>>
      /\ \/ e.kind = "progress" /\ ApplyProgress(o)
         \/ e.kind = "completed" /\ ApplyCompleted(o)
         \/ e.kind \in {"failed", "manual_review"} /\ ApplyFailed(o, e.kind)
  BY <1>1 DEF ApplyWorkflowEvent, FactKinds
<1> HIDE DEF o
<1>3. EventKind(o)
  BY <1>1, <1>2, EventCarries
<1>4. LInv'
  BY <1>1, <1>3, LocksPreserved DEF StepKinds
<1>5. PICK state \in OperationStates, life \in Lifecycles, active \in 0 .. Len(operations) :
        Carries(o, state, life, active)
  BY <1>3 DEF EventKind
<1>6. operations'[o].state = state
  BY <1>1, <1>5, CarriedRows DEF LInv
<1>7. \E l, a : Carries(o, Saying(e.kind), l, a)
  <2>1. CASE e.kind = "progress" /\ ApplyProgress(o)
    BY <1>1, <2>1, EventCarries DEF Saying
  <2>2. CASE e.kind = "completed" /\ ApplyCompleted(o)
    BY <1>1, <2>2, EventCarries DEF Saying
  <2>3. CASE e.kind \in {"failed", "manual_review"} /\ ApplyFailed(o, e.kind)
    <3>1. Saying(e.kind) = e.kind
      BY <2>3 DEF Saying
    <3>2. QED  BY <1>1, <2>3, <3>1, EventCarries
  <2>4. QED  BY <1>2, <2>1, <2>2, <2>3
<1>8. operations' = [operations EXCEPT ![o].state = Saying(e.kind)]
  BY <1>7 DEF Carries
<1>9. operations[o] \in OperationTable /\ operations \in Seq(OperationTable)
  BY <1>1, Columns DEF LInv, TablesOK
<1>10. state = Saying(e.kind)
  BY <1>1, <1>6, <1>8, <1>9 DEF OperationTable
<1>11. QED  BY <1>1, <1>2, <1>3, <1>4, <1>5, <1>10 DEF o

(* What the operation's instance and its document are then.                *)
LEMMA CarriedDocument ==
  ASSUME TablesOK, NEW o \in DOMAIN operations, NEW state, NEW life, NEW active,
         Carries(o, state, life, active)
  PROVE  LET i == operations[o].inst IN
         /\ docs'[i].life = life
         /\ docs'[i].active = IF state = "running" THEN docs[i].active ELSE 0
         /\ active = IF state = "running" THEN instances[i].active ELSE 0
         /\ \A j \in DOMAIN instances : j # i => docs'[j] = docs[j]
<1> DEFINE i == operations[o].inst
<1>1. i \in DOMAIN docs /\ DOMAIN docs = DOMAIN instances
  BY Columns, TablePositions DEF OperationTable
<1>2. PICK doc \in DocTable :
        /\ docs' = [docs EXCEPT ![i] = doc] /\ doc.life = life
        /\ doc.active = IF state = "running" THEN docs[i].active ELSE 0
  BY DEF Carries
<1>3. active = IF state = "running" THEN instances[i].active ELSE 0
  BY DEF Carries
<1>4. docs \in Seq(DocTable)
  BY DEF TablesOK
<1>5. docs'[i] = doc /\ \A j \in DOMAIN docs : j # i => docs'[j] = docs[j]
  BY <1>1, <1>2, <1>4, UpdatedSeq
<1>6. QED  BY <1>1, <1>2, <1>3, <1>5

(* A fact is applied: the operation says it, an outcome releases the       *)
(* instance, and the document is as the row.                               *)
LEMMA FactPreserves ==
  ASSUME PInv, NEW i \in InstIds, Consume("events", i),
         log["events"][i][handled["events"][i] + 1] \in Facts(i)
  PROVE  PInv'
<1> DEFINE n == handled["events"][i]
<1>1. PICK e : e = log["events"][i][n + 1]
  OBVIOUS
<1>2. PICK o : o = e.op
  OBVIOUS
<1>3. "events" \in Topics
  BY DEF Topics
<1>4. /\ n \in Nat /\ n + 1 <= Len(log["events"][i])
      /\ e \in Facts(i) /\ ApplyWorkflowEvent(e)
      /\ handled' = [handled EXCEPT !["events"][i] = n + 1]
      /\ status' = status /\ generation' = generation /\ requested' = requested
      /\ log' = log
  <2>1. Apply("events", e)
    BY <1>1, <1>3, NextRecord
  <2>2. QED  BY <1>1, <1>3, <2>1, NextRecord DEF orchestratorVars, Apply
<1>5. /\ o \in OpsOf(i) /\ o \in DOMAIN operations /\ operations[o].inst = i
      /\ letters' = letters /\ replays' = replays /\ LInv /\ LInv' /\ TablesOK
      /\ Saying(e.kind) \in OperationStates
  BY <1>2, <1>4, FactCarries DEF PInv, LInv, OpsOf
<1>6. PICK life \in Lifecycles, active \in 0 .. Len(operations) :
        Carries(o, Saying(e.kind), life, active)
  BY <1>2, <1>4, <1>5, FactCarries
<1>7. PICK state \in OperationStates : state = Saying(e.kind)
  BY <1>5
<1>8. /\ i \in DOMAIN instances
      /\ DOMAIN instances' = DOMAIN instances
      /\ instances'[i].life = life /\ instances'[i].active = active
      /\ \A j \in DOMAIN instances : j # i => instances'[j] = instances[j]
      /\ DOMAIN operations' = DOMAIN operations
      /\ operations'[o].state = state /\ operations'[o].inst = i
      /\ operations'[o].req = operations[o].req
      /\ \A q \in DOMAIN operations : q # o => operations'[q] = operations[q]
  BY <1>5, <1>6, <1>7, CarriedRows
<1>9. \A q \in DOMAIN operations : /\ operations'[q].inst = operations[q].inst
                                   /\ operations'[q].req = operations[q].req
  BY <1>5, <1>8
<1>10. /\ \A j : OpsOf(j)' = OpsOf(j)
       /\ \A q \in DOMAIN operations : Lane(q)' = Lane(q)
  BY <1>4, <1>8, <1>9 DEF OpsOf, Lane
<1>11. \A s, j : Records(s, j)' = Records(s, j)
  BY <1>10 DEF Records, Facts, Resolutions, DeadLetters, ReplayKeys
<1>12. /\ LogsOK' /\ handled'["events"][i] = n + 1
       /\ \A j \in InstIds : j # i => handled'["events"][j] = handled["events"][j]
  <2>1. /\ LogsOK' /\ handled'["events"][i] = handled["events"][i] + 1
        /\ \A t \in Topics, j \in InstIds :
             t # "events" \/ j # i => handled'[t][j] = handled[t][j]
    BY <1>3, <1>4, <1>11, HandledAdvances
  <2>2. QED  BY <1>3, <2>1
<1>13. InstancesCreated'
  <2>1. ASSUME NEW j \in DOMAIN instances
        PROVE  \E q \in OpsOf(j)' : operations'[q].req.kind = "create_instance"
    <3>1. PICK q \in OpsOf(j) : operations[q].req.kind = "create_instance"
      BY DEF PInv, InstancesCreated
    <3>2. QED  BY <1>9, <1>10, <3>1 DEF OpsOf
  <2>2. QED  BY <1>8, <2>1 DEF InstancesCreated
<1>14. OrchestratorOK'
  BY <1>4, <1>5, <1>8 DEF PInv, OrchestratorOK, ReplayKeys, OpIds
<1>15. /\ Lane(o) = log["events"][i] /\ Lane(o) \in Seq(Records("events", i))
       /\ IsFact(Lane(o), n + 1, o) /\ Lane(o)[n + 1] = e
  <2>1. Lane(o) = log["events"][i] /\ Lane(o) \in Seq(Records("events", i))
    BY <1>5, LaneOf
  <2>2. e.kind # "resolved"
    BY <1>4 DEF Facts, FactKinds
  <2>3. QED  BY <1>1, <1>2, <2>1, <2>2 DEF IsFact
<1>16. OperationSaysItsLast'
  <2>1. ASSUME NEW q \in DOMAIN operations
        PROVE  SaysLast(operations'[q].state, Lane(q), handled'["events"][operations[q].inst], q)
    <3>1. /\ operations[q].inst \in InstIds
          /\ Lane(q) = log["events"][operations[q].inst]
      BY LaneOf
    <3>2. SaysLast(operations[q].state, Lane(q), handled["events"][operations[q].inst], q)
      BY DEF PInv, OperationSaysItsLast
    <3>3. CASE q = o
      BY <1>4, <1>5, <1>7, <1>8, <1>12, <1>15, <3>3, SaysLastNew
    <3>4. CASE q # o /\ operations[q].inst = i
      <4>1. ~IsFact(Lane(q), n + 1, q)
        BY <1>1, <1>2, <3>1, <3>4 DEF IsFact
      <4>2. SaysLast(operations[q].state, Lane(q), n + 1, q)
        BY <1>4, <3>2, <3>4, <4>1, SaysLastSkips
      <4>3. QED  BY <1>8, <1>12, <3>4, <4>2
    <3>5. CASE operations[q].inst # i
      BY <1>5, <1>8, <1>12, <3>1, <3>2, <3>5
    <3>6. QED  BY <3>3, <3>4, <3>5
  <2>2. QED  BY <1>8, <1>9, <1>10, <2>1 DEF OperationSaysItsLast
<1>17. FactsFollowStatus'
  BY <1>4, <1>8, <1>10 DEF PInv, FactsFollowStatus
<1>18. active = IF state = "running" THEN instances[i].active ELSE 0
  BY <1>5, <1>6, <1>7, CarriedDocument
<1>19. UnfinishedIsActiveUnlessReplayed'
  <2>1. ASSUME NEW j \in DOMAIN instances, Unreplayed(j)', NEW q \in OpsOf(j)', Unfinished(q)'
        PROVE  instances'[j].active = q
    <3>1. Unreplayed(j) /\ q \in OpsOf(j) /\ q \in DOMAIN operations /\ operations[q].inst = j
      BY <1>4, <1>10, <2>1 DEF Unreplayed, OpsOf
    <3>2. \A p \in OpsOf(j) : Unfinished(p) => instances[j].active = p
      BY <2>1, <3>1 DEF PInv, UnfinishedIsActiveUnlessReplayed
    <3>3. q # o => Unfinished(q)
      BY <1>8, <2>1, <3>1 DEF Unfinished
    <3>4. CASE j # i
      BY <1>5, <1>8, <2>1, <3>1, <3>2, <3>3, <3>4
    <3>5. CASE j = i
      <4>1. Follows(Lane(o), status[o], o)
        BY <1>5, <3>1, <3>5 DEF Unreplayed, PInv, FactsFollowStatus
      <4>2. SaysLast(operations[o].state, Lane(o), n, o)
        BY <1>5 DEF PInv, OperationSaysItsLast
      <4>3. operations[o].state \in {"accepted", "running"}
        BY <1>4, <1>15, <4>1, <4>2, NotEndedYet
      <4>4. instances[i].active = o
        BY <1>5, <3>2, <3>5, <4>3 DEF Unfinished
      <4>5. q = o
        BY <3>1, <3>2, <3>3, <3>5, <4>4
      <4>6. state \in {"accepted", "running"}
        BY <1>8, <2>1, <4>5 DEF Unfinished
      <4>7. state # "accepted"
        <5>1. e.kind \in FactKinds
          BY <1>4 DEF Facts
        <5>2. QED  BY <1>7, <5>1 DEF Saying, FactKinds
      <4>8. QED  BY <1>8, <1>18, <3>5, <4>4, <4>5, <4>6, <4>7
    <3>6. QED  BY <3>4, <3>5
  <2>2. QED  BY <1>8, <2>1 DEF UnfinishedIsActiveUnlessReplayed
<1>20. DocumentsWait'
  <2>1. /\ docs'[i].life = life
        /\ docs'[i].active = IF state = "running" THEN docs[i].active ELSE 0
        /\ \A j \in DOMAIN instances : j # i => docs'[j] = docs[j]
    BY <1>5, <1>6, <1>7, CarriedDocument
  <2>2. docs[i].active = instances[i].active
    BY <1>8 DEF PInv, DocumentsWait
  <2>3. ASSUME NEW j \in DOMAIN instances
        PROVE  /\ docs'[j].active = instances'[j].active
               /\ docs'[j].life # instances'[j].life =>
                    /\ instances'[j].life \in {"deleting", "purge_pending"}
                    /\ instances'[j].active \in OpsOf(j)'
                    /\ operations'[instances'[j].active].state = "accepted"
    <3>1. CASE j = i
      BY <1>8, <1>18, <2>1, <2>2, <3>1
    <3>2. CASE j # i
      <4>1. docs'[j] = docs[j] /\ instances'[j] = instances[j] /\ OpsOf(j)' = OpsOf(j)
        BY <1>8, <1>10, <2>1, <2>3, <3>2
      <4>2. \A q \in OpsOf(j) : operations'[q] = operations[q]
        BY <1>5, <1>8, <3>2 DEF OpsOf
      <4>3. QED  BY <2>3, <4>1, <4>2 DEF PInv, DocumentsWait
    <3>3. QED  BY <3>1, <3>2
  <2>4. QED  BY <1>8, <2>3 DEF DocumentsWait
<1>21. QED
  BY <1>5, <1>12, <1>13, <1>14, <1>16, <1>17, <1>19, <1>20 DEF PInv

LEMMA ConsumePreserves ==
  ASSUME PInv, NEW t \in Topics, NEW i \in InstIds, Consume(t, i)
  PROVE  PInv'
<1> DEFINE e == log[t][i][handled[t][i] + 1]
<1>1. e \in Records(t, i) /\ Apply(t, e)
  BY NextRecord
<1>2. CASE t = "dlq"
  BY <1>1, <1>2, QuietRecord DEF Apply, ApplyDeadLetterEvent
<1>3. CASE t = "events" /\ e \in Resolutions(i)
  <2>1. e.kind = "resolved"
    BY <1>3 DEF Resolutions
  <2>2. UNCHANGED acceptVars
    BY <1>1, <1>3, <2>1 DEF Apply, ApplyWorkflowEvent, ApplyReplayResolved
  <2>3. QED  BY <2>1, <2>2, QuietRecord
<1>4. CASE t = "events" /\ e \in Facts(i)
  BY <1>4, FactPreserves
<1>5. QED  BY <1>1, <1>2, <1>3, <1>4 DEF Topics, Records

-----------------------------------------------------------------------------
(* The invariant, and what it implies.                                     *)

(* Nothing has been accepted or published at first.                        *)
LEMMA InitPInv ==
  ASSUME ProjectionInit
  PROVE  PInv
<1>1. LInv /\ instances = << >> /\ operations = << >>
  BY InitAInv DEF ProjectionInit, Init
<1>2. DOMAIN instances = {} /\ DOMAIN operations = {}
  BY <1>1
<1>3. /\ InstancesCreated /\ OperationSaysItsLast /\ FactsFollowStatus
      /\ UnfinishedIsActiveUnlessReplayed /\ DocumentsWait
  BY <1>2 DEF InstancesCreated, OperationSaysItsLast, FactsFollowStatus,
              UnfinishedIsActiveUnlessReplayed, DocumentsWait
<1>4. OrchestratorOK
  BY DEF ProjectionInit, Orchestrator!LifecycleInit, OrchestratorOK
<1>5. LogsOK
  <2>1. /\ log = [t \in Topics |-> [i \in InstIds |-> << >>]]
        /\ handled = [t \in Topics |-> [i \in InstIds |-> 0]]
    BY DEF ProjectionInit
  <2>2. \A t \in Topics, i \in InstIds : log[t][i] = << >> /\ handled[t][i] = 0
    BY <2>1
  <2>3. log = [t \in Topics |-> [i \in InstIds |-> log[t][i]]]
    BY <2>1, <2>2
  <2>4. QED  BY <2>1, <2>2, <2>3 DEF LogsOK
<1>6. QED  BY <1>1, <1>3, <1>4, <1>5 DEF PInv

(* However events are delivered, and whatever is replayed, each part of    *)
(* the invariant holds of every reachable state.                           *)
THEOREM PipelineInvariance == ProjectionSpec => []PInv
<1>1. PInv /\ [ProjectionNext]_projectionVars => PInv'
  <2> SUFFICES ASSUME PInv, [ProjectionNext]_projectionVars  PROVE PInv'
    OBVIOUS
  <2> USE DEF PInv
  <2>1. CASE Accept /\ UNCHANGED <<orchestratorVars, consumerVars, observedVars, log>>
    BY <2>1, AcceptPreserves
  <2>2. ASSUME NEW o \in OpIds, Work(o)  PROVE PInv'
    BY <2>2, WorkIsKind, OrchestratesPreserves
  <2>3. ASSUME NEW q \in ReplayKeys, ResolveReplay(q)  PROVE PInv'
    BY <2>3, ResolveIsKind, OrchestratesPreserves
  <2>4. ASSUME NEW r \in ReplayRequests, RequestDeadLetterReplay(r)  PROVE PInv'
    BY <2>4, RequestPreserves
  <2>5. ASSUME NEW t \in Topics, NEW i \in InstIds, Consume(t, i)  PROVE PInv'
    BY <2>5, ConsumePreserves
  <2>6. CASE UNCHANGED projectionVars
    <3>1. LInv'
      BY <2>6, LocksPreserved DEF projectionVars
    <3>2. QED
      BY <2>6, <3>1, OtherwisePreserves
         DEF projectionVars, acceptVars, orchestratorVars, consumerVars
  <2>7. QED
    BY <2>1, <2>2, <2>3, <2>4, <2>5, <2>6 DEF ProjectionNext
<1>2. QED  BY <1>1, InitPInv, PTL DEF ProjectionSpec

(* An operation reads as the last of its events that was delivered says,   *)
(* for any requests, any number of deliveries and any replays.             *)
THEOREM LastEventDecides == ProjectionSpec => []OperationIsItsLastEvent
<1>1. PInv => OperationIsItsLastEvent
  <2> SUFFICES ASSUME PInv, NEW o \in DOMAIN operations
               PROVE  operations[o].state = LastEventSays(o)
    BY DEF OperationIsItsLastEvent
  <2> DEFINE l == Lane(o)
             n == handled["events"][operations[o].inst]
             mine == {k \in 1 .. n : IsFact(l, k, o)}
  <2>1. LastEventSays(o) = IF mine = {} THEN "accepted" ELSE Saying(l[Max(mine)].kind)
    BY DEF LastEventSays, Saying, Lane, IsFact
  <2>2. SaysLast(operations[o].state, l, n, o)
    BY DEF PInv, OperationSaysItsLast
  <2>3. n \in Nat
    BY LaneOf
  <2> HIDE DEF l, n
  <2>4. CASE operations[o].state = "accepted" /\ \A j \in 1 .. n : ~IsFact(l, j, o)
    BY <2>1, <2>4
  <2>5. ASSUME NEW k \in 1 .. n, IsFact(l, k, o), operations[o].state = Saying(l[k].kind),
               \A j \in 1 .. n : IsFact(l, j, o) => j <= k
        PROVE  operations[o].state = LastEventSays(o)
    <3>1. k \in mine /\ mine \subseteq Int /\ \A j \in mine : k >= j
      BY <2>3, <2>5
    <3> HIDE DEF mine
    <3>2. \A x \in mine : (\A j \in mine : x >= j) => x = k
      BY <3>1
    <3>3. Max(mine) = k
      BY <3>1, <3>2 DEF Max
    <3>4. QED  BY <2>1, <2>5, <3>1, <3>3
  <2>6. QED  BY <2>2, <2>4, <2>5 DEF SaysLast
<1>2. QED  BY <1>1, PipelineInvariance, PTL

(* An instance none of whose operations was replayed has at most one       *)
(* running workflow: acceptance waits for the event that ends the last one.*)
THEOREM OneWorkflow == ProjectionSpec => []OneWorkflowUnlessReplayed
<1>1. PInv => OneWorkflowUnlessReplayed
  <2> SUFFICES ASSUME PInv, NEW i \in DOMAIN instances,
                      \A o \in OpsOf(i) : generation[o] = 0
               PROVE  Cardinality({o \in OpsOf(i) : status[o] = "running"}) <= 1
    BY DEF OneWorkflowUnlessReplayed, OpsOf
  <2> DEFINE Running == {o \in OpsOf(i) : status[o] = "running"}
  <2>1. ASSUME NEW o \in OpsOf(i), status[o] = "running"
        PROVE  instances[i].active = o
    <3> DEFINE l == Lane(o)
               n == handled["events"][operations[o].inst]
    <3>1. o \in DOMAIN operations
      BY DEF OpsOf
    <3>2. Follows(l, "running", o)
      BY <2>1, <3>1 DEF PInv, FactsFollowStatus
    <3>3. SaysLast(operations[o].state, l, n, o)
      BY <3>1 DEF PInv, OperationSaysItsLast
    <3>4. n \in Nat /\ Len(l) \in Nat /\ n <= Len(l)
      BY <3>1, LaneOf
    <3> HIDE DEF l, n
    <3>5. \A k \in 1 .. n : IsFact(l, k, o) => l[k].kind = "progress"
      BY <3>2, <3>4 DEF Follows
    <3>6. operations[o].state \in {"accepted", "running"}
      BY <3>3, <3>5 DEF SaysLast, Saying
    <3>7. QED
      BY <3>6 DEF PInv, UnfinishedIsActiveUnlessReplayed, Unreplayed, Unfinished
  <2>2. CASE Running = {}
    BY <2>2, FS_EmptySet
  <2>3. CASE Running # {}
    <3>1. Running = {instances[i].active}
      BY <2>1, <2>3
    <3>2. Cardinality({instances[i].active}) = 1
      BY FS_Singleton
    <3>3. QED  BY <3>1, <3>2
  <2>4. QED  BY <2>2, <2>3
<1>2. QED  BY <1>1, PipelineInvariance, PTL

(* The document of an instance is its row, but for the lifecycle of a      *)
(* retention or a purge whose first event is still to come.                *)
THEOREM DocumentsAgree == ProjectionSpec => []DocumentsFollowRows
<1>1. PInv => DocumentsFollowRows
  BY DEF PInv, DocumentsWait, DocumentsFollowRows
<1>2. QED  BY <1>1, PipelineInvariance, PTL
=============================================================================
