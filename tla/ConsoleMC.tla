----------------------------- MODULE ConsoleMC -----------------------------
(* A user who creates a server and works its power button.                  *)
EXTENDS Console, AcceptanceMC

PowerUserCalls ==
  {mutate(CreateCall("k1")), mutate(Action(1, "k1", "shutdown")),
   mutate(Action(1, "k1", "start"))}
MCAccounts == [ann |-> "ann"]
ConsoleKeys == {c.key : c \in PowerUserCalls}
=============================================================================
