---------------------------- MODULE AcceptanceMC ----------------------------
(* Small worlds for Acceptance: one project and its network "lan", whose    *)
(* block of eight has three assignable addresses.                           *)
EXTENDS Acceptance, TLC

MCTokens == [ann |-> [subject |-> "ann", roles |-> {"tenant_developer"},
                      projects |-> {"A"}],
             root |-> [subject |-> "root", roles |-> {"platform_administrator"},
                       projects |-> {}]]

Rest(route, i, key, body) ==
  [via |-> "rest", token |-> "ann", route |-> route, project |-> "A", inst |-> i,
   snap |-> None, event |-> None, key |-> key, body |-> body]
Grpc(c, route, body) == [c EXCEPT !.via = "grpc", !.route = route, !.body = body]
ByAdmin(c) == [c EXCEPT !.token = "root", !.project = None]

CreateBody(keys) == [image |-> "img", flavor |-> "small", net |-> "lan",
                     name |-> "vm", keys |-> keys]
CreateCall(k) == Rest("create", None, k, CreateBody(None))
Action(i, k, action) ==
  Rest("act", i, k, [action |-> action, flavor |-> None, disk |-> None])

HandlerSymmetry == Permutations(Handlers)

MCImages == [img |-> [enabled |-> TRUE, active |-> TRUE, net |-> "lan"]]
MCFlavors == [small |-> [enabled |-> TRUE, cpu |-> 1, disk |-> 2],
              large |-> [enabled |-> TRUE, cpu |-> 2, disk |-> 1]]
MCPools == [lan |-> [hosts |-> 8, reserved |-> {1, 4, 5}]]
MCQuotas == [A |-> [instances |-> 1, cpu |-> 3, disk |-> 5, ipv4 |-> 3, snapshots |-> 1]]

(* Three creates of a project that may have one instance, two of them over *)
(* both transports, the life of the first, with a resize that comes by     *)
(* gRPC, and a power action on the third, where there is room for it.      *)
LifeCalls ==
  {Rest("create", None, "k1", CreateBody(<<"ka", "kb">>)),
   Grpc(CreateCall("k1"), "CreateInstance", CreateBody(<<"kb", "ka">>)),
   CreateCall("k2"), Grpc(CreateCall("k2"), "CreateInstance", CreateBody(None)),
   CreateCall("k3"),
   Grpc(Rest("act", 1, "k1", None), "MutateInstance",
        [resize |-> [flavor |-> "large", disk |-> None], power |-> None]),
   Action(3, "k1", "stop"),
   Rest("createSnapshot", 1, "k1", [name |-> "s"]),
   [Rest("deleteSnapshot", 1, "k1", None) EXCEPT !.snap = 1],
   Rest("retain", 1, "k1", None),
   ByAdmin(Rest("purge", 1, "k1", [reason |-> "why", confirm |-> 1]))}
=============================================================================
