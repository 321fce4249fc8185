----------------------------- MODULE ListingMC -----------------------------
(***************************************************************************)
(* A finite instance of Listing, and of Intake under it, for TLC.          *)
(***************************************************************************)
EXTENDS Listing

Accepted(op, i, snapshot, schema, size) ==
  [op |-> op, instance |-> i, snapshot |-> snapshot, schema |-> schema, size |-> size]

MCCommands ==
  {Accepted(3, 3, 0, "instance.create.requested", "ok"),
   Accepted(4, 1, 0, "instance.power.requested", "ok"),
   Accepted(5, 1, 0, "instance.resize.requested", "ok"),
   Accepted(6, 1, 3, "snapshot.create.requested", "ok"),
   Accepted(7, 1, 2, "snapshot.rollback.requested", "ok"),
   Accepted(8, 1, 1, "snapshot.delete.requested", "ok"),
   Accepted(9, 1, 0, "instance.retention.requested", "ok"),
   Accepted(10, 1, 0, "instance.purge.requested", "ok"),
   Accepted(11, 1, 0, "instance.resize.requested", "bad")}

MCPartitionOf == [i \in Instances |-> IF i = 3 THEN 2 ELSE 1]

(* Where a list starts with two rows, they share their time. *)
MCStored ==
  [t \in Tables |-> IF t \in {"instances", "snapshots", "images"}
                   THEN (1 :> 0) @@ (2 :> 0) ELSE (1 :> 0)]
=============================================================================
