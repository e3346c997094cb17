----------------------------- MODULE AccessControl -----------------------------
(***************************************************************************)
(* Who is calling, and may they (app/middleware/auth.py, class             *)
(* Authorizer), as operators on an AuthPolicy.  A bearer token is the      *)
(* agent its claim names, or Forged if validation raises OIDCError; how    *)
(* tokens are validated is the subject of JwksCache.                       *)
(***************************************************************************)
CONSTANTS
  Agents,
  Anonymous,     \* the agent id "anonymous"
  Forged,        \* a token that does not validate
  None           \* no header, no token, no principal

(***************************************************************************)
(* identify: the principal, or None where AuthorizationError is raised.    *)
(* With OIDC on, a token that is present decides, and the header counts    *)
(* only without one.                                                       *)
(***************************************************************************)
Principal(policy, agent) ==
  [agent |-> agent, permissions |-> policy.permissions[agent]]

\* Plausible fault: a token that does not validate falls back to the header.
Identify_FallsBack(policy, header, token) ==
  CASE ~policy.enabled ->
         [agent |-> IF header = None THEN Anonymous ELSE header,
          permissions |-> {"*"}]
    [] policy.enabled /\ policy.oidc /\ token \in Agents -> Principal(policy, token)
    [] policy.enabled /\ ~(policy.oidc /\ token \in Agents) ->
         IF header = None THEN None ELSE Principal(policy, header)

Identify(policy, header, token) ==
  CASE ~policy.enabled ->
         [agent |-> IF header = None THEN Anonymous ELSE header,
          permissions |-> {"*"}]
    [] policy.enabled /\ policy.oidc /\ token # None ->
         IF token = Forged THEN None ELSE Principal(policy, token)
    [] policy.enabled /\ ~(policy.oidc /\ token # None) ->
         IF header = None THEN None ELSE Principal(policy, header)

(***************************************************************************)
(* AgentPrincipal.can.                                                     *)
(***************************************************************************)
Can(principal, action) == principal.permissions \intersect {"*", action} # {}

(***************************************************************************)
(* authorize_tool_call does not raise.  An agent without permissions is    *)
(* not restricted; any other needs the raw or the qualified name.          *)
(***************************************************************************)
AuthorizeToolCall(policy, principal, tool) ==
  policy.enabled =>
    /\ tool.mutable => principal.agent \in policy.mutableAllowed
    /\ principal.permissions # {} =>
         Can(principal, tool.raw) \/ Can(principal, tool.qualified)
===============================================================================
