----------------------------- MODULE StreamedCalls -----------------------------
(***************************************************************************)
(* Tool calls over HTTP, answered at once or streamed (app/api/routes.py,  *)
(* call_tool and call_tool_stream; app/api/dependencies.py,                *)
(* get_principal), while reloads replace the authorizer.                   *)
(*                                                                         *)
(* A request identifies its agent with app.state.authorizer, suspends in   *)
(* the validation of the token, and calls Orchestrator.call_tool, which    *)
(* authorizes with orchestrator.authorizer.  A stream runs the call in a   *)
(* task of its own, shielded, sends a progress event whenever five seconds *)
(* pass, and may lose its client at every suspension.  What call_tool does *)
(* besides authorizing is the subject of Orchestrator; here it returns,    *)
(* raises OrchestrationError or lets another exception out.                *)
(***************************************************************************)
EXTENDS AccessControl, Naturals, Sequences

CONSTANTS
  Requests,
  Tools,         \* records: raw and qualified name, mutable
  Policy,        \* AuthPolicy of each version of gateway.yaml
  MaxVersion,    \* bound: versions of gateway.yaml
  MaxProgress    \* bound: progress events of a stream that are recorded

Versions == 1..MaxVersion

ASSUME StreamAssumption ==
  /\ MaxVersion \in Nat \ {0}
  /\ MaxProgress \in Nat
  /\ Policy \in [Versions -> [enabled : BOOLEAN, oidc : BOOLEAN,
                              permissions : [Agents -> SUBSET ({"*"} \union
                                {t.raw : t \in Tools} \union {t.qualified : t \in Tools})],
                              mutableAllowed : SUBSET Agents]]
  /\ \A t \in Tools : t.mutable \in BOOLEAN
  /\ None \notin Agents \union {Forged} /\ Forged \notin Agents

VARIABLES
  identifier,  \* version of app.state.authorizer
  enforcer,    \* version of orchestrator.authorizer
  pc,          \* where each request is
  claim,       \* header, token, tool and route of each request
  seen,        \* version of the authorizer that identifies the agent
  principal,   \* the AgentPrincipal
  task,        \* the run of Orchestrator.call_tool
  decided,     \* history: version of the authorizer that let the call pass
  events       \* what the client was sent, its first MaxProgress heartbeats

authVars    == <<identifier, enforcer>>
requestVars == <<pc, claim, seen, principal, task, decided, events>>
vars == <<authVars, requestVars>>

Claims == [header : Agents \union {None}, token : Agents \union {Forged, None},
           tool : Tools, stream : BOOLEAN]

Principals ==
  [agent : Agents \union {Anonymous},
   permissions : SUBSET ({"*"} \union {t.raw : t \in Tools}
                               \union {t.qualified : t \in Tools})]

Finished == {"ok", "error", "crash"}

TypeOK ==
  /\ identifier \in Versions /\ enforcer \in Versions
  /\ pc \in [Requests -> {"new", "identify", "begin", "start", "wait", "progress",
                          "closed", "gone"}]
  /\ claim \in [Requests -> Claims \union {None}]
  /\ seen \in [Requests -> Versions]
  /\ principal \in [Requests -> Principals \union {None}]
  /\ task \in [Requests -> {"none", "created", "running"} \union Finished]
  /\ decided \in [Requests -> Versions \union {0}]
  /\ events \in [Requests -> Seq({"start", "progress", "result", "error"})]

Init ==
  /\ identifier = 1 /\ enforcer = 1
  /\ pc = [r \in Requests |-> "new"]
  /\ claim = [r \in Requests |-> None]
  /\ seen = [r \in Requests |-> 1]
  /\ principal = [r \in Requests |-> None]
  /\ task = [r \in Requests |-> "none"]
  /\ decided = [r \in Requests |-> 0]
  /\ events = [r \in Requests |-> <<>>]

Goto(r, l) == pc' = [pc EXCEPT ![r] = l]
Emit(r, e) == events' = [events EXCEPT ![r] = Append(@, e)]
SetTask(r, s) == task' = [task EXCEPT ![r] = s]

-------------------------------------------------------------------------------
(***************************************************************************)
(* get_authorizer takes the authorizer in force; identify suspends.        *)
(***************************************************************************)
Arrive(r, c) ==
  /\ pc[r] = "new"
  /\ claim' = [claim EXCEPT ![r] = c]
  /\ seen' = [seen EXCEPT ![r] = identifier]
  /\ Goto(r, "identify")
  /\ UNCHANGED <<authVars, principal, task, decided, events>>

(***************************************************************************)
(* identify returns, or raises: status 401.                                *)
(***************************************************************************)
Identified(r) ==
  LET who == Identify(Policy[seen[r]], claim[r].header, claim[r].token)
  IN  /\ pc[r] = "identify"
      /\ principal' = [principal EXCEPT ![r] = who]
      /\ IF who = None THEN Goto(r, "closed") /\ Emit(r, "error")
                       ELSE Goto(r, "begin") /\ UNCHANGED events
      /\ UNCHANGED <<authVars, claim, seen, task, decided>>

(***************************************************************************)
(* A plain request awaits call_tool; a stream first yields its start event *)
(* and creates the call's task when the client has taken it.               *)
(***************************************************************************)
Begin(r) ==
  /\ pc[r] = "begin"
  /\ IF claim[r].stream
     THEN Goto(r, "start") /\ Emit(r, "start") /\ UNCHANGED task
     ELSE Goto(r, "wait") /\ SetTask(r, "created") /\ UNCHANGED events
  /\ UNCHANGED <<authVars, claim, seen, principal, decided>>

CreateTask(r) ==
  /\ pc[r] = "start"
  /\ SetTask(r, "created")
  /\ Goto(r, "wait")
  /\ UNCHANGED <<authVars, claim, seen, principal, decided, events>>

-------------------------------------------------------------------------------
(***************************************************************************)
(* call_tool, up to the upstream call.  It resolves the name and           *)
(* authorizes; a check may reject the call, the cache may answer it, and   *)
(* an unexpected exception may leave it.                                   *)
(***************************************************************************)
Authorized(r) ==
  AuthorizeToolCall(Policy[enforcer], principal[r], claim[r].tool)

Rejected(r, outcome) ==
  /\ task[r] = "created"
  /\ outcome = "error" \/ Authorized(r)
  /\ SetTask(r, outcome)
  /\ UNCHANGED <<authVars, pc, claim, seen, principal, decided, events>>

\* Plausible fault: the call is authorized with the authorizer of the route.
Admitted_RouteAuthorizer(r, outcome) ==
  /\ task[r] = "created"
  /\ AuthorizeToolCall(Policy[seen[r]], principal[r], claim[r].tool)
  /\ SetTask(r, outcome)
  /\ decided' = [decided EXCEPT ![r] = enforcer]
  /\ UNCHANGED <<authVars, pc, claim, seen, principal, events>>

Admitted(r, outcome) ==
  /\ task[r] = "created"
  /\ Authorized(r)
  /\ SetTask(r, outcome)
  /\ decided' = [decided EXCEPT ![r] = enforcer]
  /\ UNCHANGED <<authVars, pc, claim, seen, principal, events>>

\* Plausible fault: a TimeoutError of the upstream call is not converted.
Return_LetsTimeoutOut(r, outcome) ==
  /\ task[r] = "running"
  /\ SetTask(r, IF outcome = "error" THEN "TimeoutError" ELSE outcome)
  /\ UNCHANGED <<authVars, pc, claim, seen, principal, decided, events>>

(***************************************************************************)
(* The upstream call is over.  Whatever it raised, a TimeoutError too, has *)
(* become an OrchestrationError; only what follows it may raise otherwise. *)
(***************************************************************************)
Return(r, outcome) ==
  /\ task[r] = "running"
  /\ SetTask(r, outcome)
  /\ UNCHANGED <<authVars, pc, claim, seen, principal, decided, events>>

-------------------------------------------------------------------------------
(***************************************************************************)
(* Heartbeats go on for as long as the call takes: nothing in the gateway  *)
(* bounds that, X-Gateway-Timeout is only told to the client.  Those       *)
(* beyond MaxProgress are sent like the others and not recorded.           *)
(***************************************************************************)
EmitProgress(r) ==
  IF Len(events[r]) <= MaxProgress THEN Emit(r, "progress") ELSE UNCHANGED events

\* Plausible fault: without the shield, wait_for cancels the call.
Heartbeat_CancelsCall(r) ==
  /\ pc[r] = "wait" /\ claim[r].stream
  /\ task[r] \notin Finished
  /\ EmitProgress(r)
  /\ SetTask(r, "none")
  /\ Goto(r, "progress")
  /\ UNCHANGED <<authVars, claim, seen, principal, decided>>

(***************************************************************************)
(* wait_for timed out; the shielded task goes on.  A TimeoutError that the *)
(* task itself raised would look the same.                                 *)
(***************************************************************************)
Heartbeat(r) ==
  /\ pc[r] = "wait" /\ claim[r].stream
  /\ task[r] \notin Finished
  /\ EmitProgress(r)
  /\ Goto(r, "progress")
  /\ UNCHANGED <<authVars, claim, seen, principal, task, decided>>

ProgressSent(r) ==
  /\ pc[r] = "progress"
  /\ Goto(r, "wait")
  /\ UNCHANGED <<authVars, claim, seen, principal, task, decided, events>>

\* Plausible fault: after an error event the generator goes on to the result.
FinalEvent_NoReturn(r) ==
  /\ pc[r] = "wait"
  /\ task[r] \in Finished
  /\ events' = [events EXCEPT ![r] = IF task[r] = "ok" THEN Append(@, "result")
                                     ELSE @ \o <<"error", "result">>]
  /\ Goto(r, "closed")
  /\ UNCHANGED <<authVars, claim, seen, principal, task, decided>>

(***************************************************************************)
(* The call's task is done: the result or the error, and the end.          *)
(***************************************************************************)
FinalEvent(r) ==
  /\ pc[r] = "wait"
  /\ task[r] \in Finished
  /\ Emit(r, IF task[r] = "ok" THEN "result" ELSE "error")
  /\ Goto(r, "closed")
  /\ UNCHANGED <<authVars, claim, seen, principal, task, decided>>

(***************************************************************************)
(* The client of a stream goes away.  Cancelling the generator runs none   *)
(* of its handlers and does not reach the call's task.                     *)
(***************************************************************************)
Disconnect(r) ==
  /\ pc[r] \in {"start", "wait", "progress"} /\ claim[r].stream
  /\ Goto(r, "gone")
  /\ UNCHANGED <<authVars, claim, seen, principal, task, decided, events>>

-------------------------------------------------------------------------------
(***************************************************************************)
(* A reload replaces the orchestrator's authorizer (reload.py, line 87)    *)
(* and, unless it fails in between, the one that identifies (line 127).    *)
(***************************************************************************)
SwapAuthorizer ==
  /\ enforcer < MaxVersion
  /\ enforcer' = enforcer + 1
  /\ UNCHANGED <<identifier, requestVars>>

EndReload ==
  /\ identifier # enforcer
  /\ identifier' = enforcer
  /\ UNCHANGED <<enforcer, requestVars>>

Starts(r) ==
  \/ \E outcome \in {"error", "crash"} : Rejected(r, outcome)
  \/ \E outcome \in {"running", "ok"} : Admitted(r, outcome)

Returns(r) == \E outcome \in Finished : Return(r, outcome)

Respond(r) == Identified(r) \/ Begin(r) \/ CreateTask(r) \/ ProgressSent(r) \/ FinalEvent(r)

Next ==
  \/ \E r \in Requests :
       \/ \E c \in Claims : Arrive(r, c)
       \/ Respond(r) \/ Starts(r) \/ Returns(r) \/ Heartbeat(r) \/ Disconnect(r)
  \/ SwapAuthorizer \/ EndReload

Spec == Init /\ [][Next]_vars

(***************************************************************************)
(* The event loop runs every task that can run.  Upstreams need not        *)
(* answer, clients need not stay, reloads need not come.                   *)
(***************************************************************************)
FairSpec == Spec /\ \A r \in Requests : WF_vars(Respond(r)) /\ WF_vars(Starts(r))

-------------------------------------------------------------------------------
(***************************************************************************)
(* "SSE variant: emits start -> progress (heartbeat) -> result | error"    *)
(* (routes.py, line 182): a stream begins with start, at most its last     *)
(* event is final, and result is sent exactly if the call succeeded.       *)
(***************************************************************************)
StreamIsWellFormed ==
  \A r \in Requests : \A i \in 1..Len(events[r]) :
    LET e == events[r][i]
    IN  /\ e = "start" => i = 1
        /\ i = 1 => e = "start" \/ ~claim[r].stream \/ principal[r] = None
        /\ e \in {"result", "error"} => i = Len(events[r]) /\ pc[r] = "closed"
        /\ e = "result" => task[r] = "ok"
        /\ e = "error" => task[r] # "ok"

(***************************************************************************)
(* A call that was let pass was allowed, whatever reloads happened since   *)
(* the request arrived.  If access control was on when it arrived, it acts *)
(* as the agent of its token, or of its header where no token counts.  If  *)
(* it was on when the call was decided, a mutable tool needs an agent that *)
(* the policy in force then lists; and the permissions applied are those   *)
(* the agent had when the request arrived, no matter what its header says. *)
(***************************************************************************)
OnlyAllowedCallsPass ==
  \A r \in Requests : decided[r] # 0 =>
    LET then  == Policy[seen[r]]
        now   == Policy[decided[r]]
        agent == principal[r].agent
        tool  == claim[r].tool
        owner == IF then.oidc /\ claim[r].token # None THEN claim[r].token
                                                       ELSE claim[r].header
    IN  /\ then.enabled => agent = owner
        /\ now.enabled /\ tool.mutable => agent \in now.mutableAllowed
        /\ now.enabled /\ then.enabled =>
             \/ then.permissions[owner] = {}
             \/ "*" \in then.permissions[owner]
             \/ {tool.raw, tool.qualified} \intersect then.permissions[owner] # {}

(***************************************************************************)
(* The upstream answers, or its connection fails: nothing in the gateway   *)
(* makes it, no call has a timeout.                                        *)
(***************************************************************************)
UpstreamAnswers(r) == WF_vars(Returns(r))

(***************************************************************************)
(* If its upstream answers, a call that was begun comes to its end, with   *)
(* its client or without: neither a heartbeat nor a disconnect stops it    *)
(* half-way (the shield of routes.py, line 201).                           *)
(***************************************************************************)
BegunCallsEnd ==
  \A r \in Requests :
    UpstreamAnswers(r) => (task[r] = "created" ~> task[r] \in Finished)

(***************************************************************************)
(* Once its call is over, a client that stays gets the final event,        *)
(* however the call ended: the loop over heartbeats (routes.py, lines      *)
(* 199-204) is left.  While the call lasts, the heartbeats do.             *)
(***************************************************************************)
FinishedCallsAreAnswered ==
  \A r \in Requests :
    task[r] \notin {"none", "created", "running"} ~> pc[r] \in {"closed", "gone"}
===============================================================================
