------------------------- MODULE OperationLifecycle -------------------------
(***************************************************************************)
(* What the provisioning orchestrator promises of an operation, whatever   *)
(* leases, workers, retries and redeliveries lie behind it: it is started  *)
(* once, it ends once in each replay generation, success and manual review *)
(* are final, and a failure is reopened only as the next generation.       *)
(* WorkflowStore implements it and Projection builds on it.                *)
(***************************************************************************)
EXTENDS Naturals

CONSTANT Ops

VARIABLES
  status,     \* of each operation's workflow; "none" before it is admitted
  generation  \* its replay generation

lifecycleVars == <<status, generation>>

Outcomes == {"succeeded", "failed", "manual_review"}

LifecycleInit ==
  /\ status = [o \in Ops |-> "none"]
  /\ generation = [o \in Ops |-> 0]

(* A first admission is of generation 0, unless the command itself was     *)
(* dead-lettered and then replayed.                                        *)
Start(o) ==
  /\ status[o] = "none"
  /\ status' = [status EXCEPT ![o] = "running"]
  /\ generation'[o] \in Nat
  /\ generation' = [generation EXCEPT ![o] = generation'[o]]

End(o, outcome) ==
  /\ status[o] = "running"
  /\ status' = [status EXCEPT ![o] = outcome]
  /\ UNCHANGED generation

Reopen(o) ==
  /\ status[o] = "failed"
  /\ status' = [status EXCEPT ![o] = "running"]
  /\ generation' = [generation EXCEPT ![o] = @ + 1]

LifecycleNext ==
  \E o \in Ops :
    \/ Start(o)
    \/ \E outcome \in Outcomes : End(o, outcome)
    \/ Reopen(o)

LifecycleSpec == LifecycleInit /\ [][LifecycleNext]_lifecycleVars
=============================================================================
