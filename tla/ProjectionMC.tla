---------------------------- MODULE ProjectionMC ----------------------------
(* The world of AcceptanceMC with the requests of an instance's life that   *)
(* meet the event pipeline.                                                 *)
EXTENDS Projection, AcceptanceMC

(* A create, a power action and the retention of the instance, and the     *)
(* replay of any of them.                                                  *)
PipelineCalls ==
  {CreateCall("k1"),
   Grpc(Rest("act", 1, "k1", None), "MutateInstance",
        [resize |-> None, power |-> "POWER_ACTION_STOP"]),
   Rest("retain", 1, "k1", None)}
  \cup {[ByAdmin(Rest("replay", None, "k2", [reason |-> "why"])) EXCEPT !.event = o] :
           o \in 1 .. 3}
=============================================================================
