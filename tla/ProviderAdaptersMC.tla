------------------------- MODULE ProviderAdaptersMC -------------------------
(***************************************************************************)
(* Two instances whose ids hash to the same VMID of a range of two.        *)
(***************************************************************************)
EXTENDS ProviderAdapters, TLC

CONSTANTS web, db, s1, s2

MCSeedOf == [i \in Instances |-> 7]
MCSymmetry == Permutations({web, db}) \cup Permutations({s1, s2})

(***************************************************************************)
(* Every variable but workspace: the drift column is written and never     *)
(* read, by an adapter or by a property, so states that differ only there  *)
(* behave alike.                                                           *)
(***************************************************************************)
MCView == <<adapter, vm, call, resource, waiting, lease, made, abandoned, tfstate,
            refreshing, run, job, task, stranded, faults>>
=============================================================================
