------------------------------ MODULE Console ------------------------------
(***************************************************************************)
(* The web console (apps/console-web/src/app/data and the power tab of     *)
(* routes/servers/detail.tsx) and its server (apps/console-bff) in front   *)
(* of Acceptance: a user who waits for the answer to each click before the *)
(* next one.  The key of a request is derived from its content and not     *)
(* drawn for each attempt.  The server keeps the sessions in memory; it    *)
(* adds the session's token to a request and passes the rest, and the      *)
(* answer, on unchanged.                                                   *)
(***************************************************************************)
EXTENDS Acceptance, TLC

CONSTANTS
  Accounts,   \* by username, the token the issuer gives for the right password
  SessionIds

VARIABLES
  sessions,  \* SessionStore: by identifier, the token and its project
  cookie,    \* the identifier the browser holds, or None
  session,   \* the project of the user the browser was last told of, or None
  call,      \* the submission awaiting its answer, None between two
  view,      \* by project, the instance list last fetched
  said       \* by instance: the power state of the last action reported accepted

sessionVars == <<sessions, cookie, session>>
consoleVars == <<acceptVars, sessionVars, call, view, said>>

InstIds == 1 .. Cardinality({c \in Calls : c.route = "create"})

-----------------------------------------------------------------------------
(* Sessions.  A wrong password, an issuer that does not answer and a token *)
(* without a project leave everything as it is.                            *)

claims(token) == Tokens[token].projects

identities(u) ==
  IF u \in DOMAIN Accounts
  THEN {[token |-> Accounts[u], project |-> p] : p \in claims(Accounts[u])}
  ELSE {}

read(id) == IF id \in DOMAIN sessions THEN {sessions[id]} ELSE {}

Without(ids) == Restrict(sessions, DOMAIN sessions \ ids)

(* The sign-in page shows nothing but a redirect to a signed-in user.      *)
SignIn(u) ==
  /\ call = None /\ session = None
  /\ \E s \in identities(u), id \in SessionIds \ (DOMAIN sessions \cup {cookie}) :
       /\ sessions' = sessions @@ (id :> s)
       /\ cookie' = id
       /\ session' = s.project
  /\ UNCHANGED <<acceptVars, call, view, said>>

(* signOut does not look at its result: the browser forgets whether or not *)
(* the server was reached, and the cookie goes only with the answer.       *)
SignOut ==
  /\ call = None /\ session # None
  /\ \/ sessions' = Without({cookie}) /\ cookie' \in {None, cookie}
     \/ UNCHANGED <<sessions, cookie>>
  /\ session' = None
  /\ view' = [p \in Projects |-> << >>]
  /\ UNCHANGED <<acceptVars, call, said>>

(* GET /auth/session: no answer counts as no session.                      *)
CheckSession ==
  /\ session' \in {s.project : s \in read(cookie)} \cup {None}
  /\ UNCHANGED <<acceptVars, sessions, cookie, call, view, said>>

(* Expiry, and a restart of the server, which ends them all.               *)
EndSessions ==
  /\ sessions # << >>
  /\ \E ids \in {{id} : id \in DOMAIN sessions} \cup {DOMAIN sessions} :
       sessions' = Without(ids)
  /\ UNCHANGED <<acceptVars, cookie, session, call, view, said>>

-----------------------------------------------------------------------------
(* The requests of api.ts: the action and the target a key is derived from.*)

KeyParts(c) ==
  CASE c.route = "create"           -> [action |-> "create-instance", target |-> None]
    [] c.route = "act"              -> [action |-> c.body.action, target |-> c.inst]
    [] c.route = "createSnapshot"   -> [action |-> c.route, target |-> c.inst]
    [] c.route = "rollbackSnapshot" -> [action |-> c.route, target |-> c.snap]
    [] c.route = "deleteSnapshot"   -> [action |-> c.route, target |-> c.snap]
    [] c.route = "retain"           -> [action |-> c.route, target |-> c.inst]

(* The digest of the canonical JSON, up to collisions.                     *)
idempotencyKey(c) == <<KeyParts(c).action, c.project, KeyParts(c).target, c.body>>

mutate(c) == [c EXCEPT !.key = idempotencyKey(c)]

-----------------------------------------------------------------------------
(* What the console shows.                                                 *)

PowerAfter(r) ==
  IF r.kind = "create_instance" \/ r.action \in {"start", "reboot"}
  THEN "running" ELSE "stopped"

(* The power state the last completed operation observed.                  *)
ObservedPower(i) ==
  LET done == {o \in DOMAIN operations :
                 /\ operations[o].inst = i /\ operations[o].state = "succeeded"
                 /\ operations[o].req.kind \in {"create_instance", "power_instance"}}
  IN IF done = {} THEN "unknown" ELSE PowerAfter(operations[Max(done)].req)

toStatus(i) ==
  CASE docs[i].life \in {"pending", "provisioning", "purge_pending"} -> "provisioning"
    [] docs[i].life \in {"failed", "manual_review"} -> "error"
    [] docs[i].life \in {"retained", "purged"} -> "off"
    [] OTHER -> IF ObservedPower(i) = "running" THEN "running" ELSE "off"

toInstance(i) == [status |-> toStatus(i), active |-> docs[i].active]
listInstances(p) ==
  [i \in {j \in DOMAIN docs : instances[j].project = p} |-> toInstance(i)]

(* The power tab's buttons.                                                *)
ServerPower(i) ==
  IF view[session][i].status = "running" THEN {"shutdown", "reboot", "stop"} ELSE {"start"}

Offered(c) ==
  \/ c.route = "create"
  \/ /\ c.inst \in DOMAIN view[session]
     /\ c.route = "act" /\ c.body.action # "resize" => c.body.action \in ServerPower(c.inst)

-----------------------------------------------------------------------------
Click(c) ==
  /\ call = None
  /\ c.project = session
  /\ Offered(c)
  /\ call' = [mutate(c) EXCEPT !.token = None]
  /\ UNCHANGED <<acceptVars, sessionVars, view, said>>

(* The proxy: the session's token, or a 401.                               *)
Forward ==
  /\ call # None /\ call.token = None
  /\ call' = IF read(cookie) = {} THEN None
             ELSE [call EXCEPT !.token = sessions[cookie].token]
  /\ UNCHANGED <<acceptVars, sessionVars, view, said>>

(* The API works on the submission, in one transaction or in two parts.    *)
Serve ==
  /\ call # None
  /\ \/ \E r \in canActivate(call) :
          \/ AcceptPowerAction(r) \/ AcceptSnapshotAction(r) \/ AcceptRetention(r)
          \/ \E h \in Handlers :
               BeginCreate(h, r) \/ BeginResize(h, r) \/ BeginSnapshotCreate(h, r)
     \/ \E h \in Handlers :
          \/ ReserveIpv4Address(h) \/ WriteAcceptanceRecords(h)
          \/ AcceptResize(h) \/ AcceptSnapshotCreate(h)
  /\ UNCHANGED <<sessionVars, call, view, said>>

(* The list fetched over the same proxy; what is on screen stays when the  *)
(* session has gone.                                                       *)
Fetched ==
  IF session = None \/ read(cookie) = {} THEN view
  ELSE [view EXCEPT ![session] = listInstances(session)]

(* submit, when the answer is an operation: the toast, then a refetch.     *)
Reported ==
  /\ call # None
  /\ \E r \in canActivate(call), e \in idem :
       /\ e.scope = Scope(r) /\ e.hash = requestHash(r)
       /\ said' = IF r.kind = "power_instance"
                  THEN [said EXCEPT ![operations[e.op].inst] = PowerAfter(r)]
                  ELSE said
  /\ view' = Fetched
  /\ call' = None
  /\ UNCHANGED <<acceptVars, sessionVars>>

(* submit, when it is a problem or there is none: the user does not know   *)
(* what became of the request.                                             *)
Failed ==
  /\ call # None /\ \A h \in Handlers : tx[h].phase = "idle"
  /\ said' = IF call.route = "act" THEN [said EXCEPT ![call.inst] = "unknown"] ELSE said
  /\ call' = None
  /\ UNCHANGED <<acceptVars, sessionVars, view>>

(* A poll while something is moving, or the window regaining the focus.    *)
Refetch ==
  /\ view' = Fetched
  /\ UNCHANGED <<acceptVars, sessionVars, call, said>>

ConsoleInit ==
  /\ Init
  /\ sessions = << >> /\ cookie = None /\ session = None
  /\ call = None /\ view = [p \in Projects |-> << >>]
  /\ said = [i \in InstIds |-> "unknown"]

ConsoleNext ==
  \/ \E u \in DOMAIN Accounts : SignIn(u)
  \/ SignOut \/ CheckSession \/ EndSessions
  \/ \E c \in Calls : Click(c)
  \/ Forward \/ Serve
  \/ Reported \/ Failed \/ Refetch
  \/ /\ \/ \E h \in Handlers : Rollback(h)
        \/ \E o \in DOMAIN operations : CarryOut(o)
     /\ UNCHANGED <<sessionVars, call, view, said>>

ConsoleSpec == ConsoleInit /\ [][ConsoleNext]_consoleVars

-----------------------------------------------------------------------------
(* The power action the console last reported accepted is the one the      *)
(* control plane is asked for: the acceptance is of the request that the   *)
(* user has just made.                                                     *)
LastAcceptedActionStands ==
  call = None => \A i \in DOMAIN instances :
                   said[i] \in {"unknown", instances[i].power}
=============================================================================
