--------------------------- MODULE ProvisioningMC ---------------------------
(***************************************************************************)
(* Finite instances of Provisioning for TLC: one instance, its create and  *)
(* later mutations of it, two workers.                                     *)
(***************************************************************************)
EXTENDS Provisioning, TLC

CONSTANTS create, stop, resize, snapshot, rollback, unsnapshot, retain, purge,
          inst, p1, p2

MCKindOf == [o \in Ops |-> CASE o = create     -> "create"
                             [] o = stop       -> "stop"
                             [] o = resize     -> "resize"
                             [] o = snapshot   -> "snapshot"
                             [] o = rollback   -> "rollback"
                             [] o = unsnapshot -> "unsnapshot"
                             [] o = retain     -> "retain"
                             [] o = purge      -> "purge"]
MCInstanceOf == [o \in Ops |-> inst]
MCWorkerIdOf == [p \in Procs |-> p]
MCStages == MutationStages \cup PollStages \cup ObserveStages
MCStageAttempts == 0..MaxAttempts
MCTasks == Keys

(* The two workers, whose ids are their own names, are interchangeable.   *)
MCSymmetry == Permutations(Procs)
=============================================================================
