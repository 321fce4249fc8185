-------------------------- MODULE ReconciliationMC --------------------------
(* Two creates in the world of AcceptanceMC, and three answers of a provider. *)
EXTENDS Reconciliation, AcceptanceMC

TwoCreates == {CreateCall("k1"), CreateCall("k2")}
RoomForTwo == [A |-> [instances |-> 2, cpu |-> 3, disk |-> 5, ipv4 |-> 3, snapshots |-> 1]]

Healthy == [exists |-> TRUE, match |-> TRUE, power |-> "running", cpu |-> 1, disk |-> 2,
            otherMemory |-> FALSE]
MCObservations ==
  {Healthy, [Healthy EXCEPT !.power = "stopped"], [Healthy EXCEPT !.otherMemory = TRUE]}
=============================================================================
