-------------------------- MODULE WorkflowStoreMC --------------------------
(***************************************************************************)
(* Finite instances of WorkflowStore for TLC.                              *)
(***************************************************************************)
EXTENDS WorkflowStore, TLC

CONSTANTS create, power, vm, p1, p2, p3, pod1, pod2, r1, r2

(* A create and a later mutation of the same instance.                     *)
MCInstanceOf == [o \in Ops |-> vm]

(* p1 has its own pod name; p2 and p3 were started with the same one (a    *)
(* restarted pod, or two processes sharing WORKER_ID).                     *)
MCWorkerIdOf == [p \in Procs |-> IF p = p1 THEN pod1 ELSE pod2]

(* p2 and p3 share a pod name and the replay requests differ in nothing.   *)
MCSymmetry == Permutations({p2, p3}) \cup Permutations({r1, r2})
=============================================================================
