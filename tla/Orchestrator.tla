----------------------------- MODULE Orchestrator -----------------------------
(***************************************************************************)
(* Tool calls and hot reload on one orchestrator                           *)
(* (app/orchestrator/orchestrator.py, call_tool; app/cache/tool_cache.py;  *)
(* app/admin/reload.py, _do_reload).  A call reads the policy objects of   *)
(* the orchestrator before and after it awaits the upstream; a reload      *)
(* replaces them one by one, and several reloads may run at the same time  *)
(* (SIGHUP and POST /v1/admin/reload).                                     *)
(*                                                                         *)
(* A policy object is the version of the gateway.yaml it was built from.   *)
(* What a policy says is abstracted: a check rejects a call or lets it     *)
(* pass.  The rate limiter's and the caches' locks are never held across a *)
(* suspension, so all of call_tool before the upstream call is one step.   *)
(* Of the registry there is, per id, the version of the file the           *)
(* registered record is from; clients, syncs and registrations through the *)
(* API are modelled elsewhere (Registry, UpstreamReload).  Webhook events  *)
(* are fired and forgotten, and left out.                                  *)
(***************************************************************************)
EXTENDS Naturals, Sequences

CONSTANTS
  Requests,      \* the tool calls of a behaviour
  Tools,         \* what a call may name: one (qualified name, arguments) each
  Ids,           \* server ids
  ServerOf,      \* the server that hosts each tool
  Urls,          \* base_url and transport
  Url,           \* of each upstream of each gateway.yaml; None: it names no such
  Ttl,           \* the result cache's TTL of each tool, in clock units
  Mutable,       \* the mutable tools, by version of gateway.yaml
  Bad,           \* versions whose guardrails hold an invalid regex
  Rejections,    \* audit statuses of the four checks that can reject a call
  Failures,      \* audit statuses of an upstream call that raised
  Reloaders,     \* tasks that may run _do_reload
  MaxVersion,    \* bound: versions of gateway.yaml
  None

Versions == 1..MaxVersion

ASSUME OrchestratorAssumption ==
  /\ MaxVersion \in Nat \ {0}
  /\ ServerOf \in [Tools -> Ids]
  /\ Url \in [Versions -> [Ids -> Urls \union {None}]]
  /\ Ttl \in [Tools -> Nat]
  /\ Mutable \in [Versions -> SUBSET Tools]
  /\ Bad \subseteq Versions \ {1}
  /\ None \notin Tools \union Versions

VARIABLES
  file,       \* version of gateway.yaml on disk
  ver,        \* version of each object in force
  servers,    \* version of each registered server record, None: no entry
  reload,     \* where each reload is suspended
  oldCfg,     \* old_cfg and
  newCfg,     \* new_cfg of each reload
  gone,       \* ids a reload has still to deregister
  todo,       \* upstreams of new_cfg a reload has still to go through
  alone,      \* history: the reload, if any, that no other has overlapped
  cache,      \* _result_store of orchestrator.cache
  manifest,   \* its _manifest_store: the server records it was built from
  pc,         \* where each request is
  tool,       \* the tool each request that was let through names
  mutable,    \* call_tool's local variable, while the call is upstream
  audit,      \* statuses of the audit records of each request
  served      \* what answered each request

upstreamVars == <<servers, oldCfg, gone, todo>>
policyVars  == <<file, ver, upstreamVars, reload, newCfg, alone>>
requestVars == <<pc, tool, mutable, audit, served>>
vars == <<policyVars, cache, manifest, requestVars>>

(***************************************************************************)
(* The objects built from gateway.yaml: the orchestrator's authorizer,     *)
(* redactor, guardrails (safety filter, schema validator and rate          *)
(* limiter), cache and webhook dispatcher, app.state.config and            *)
(* app.state.authorizer, and the registry's breaker thresholds and naming  *)
(* strategy.  These last two no reload replaces, although reload.py, lines *)
(* 13 and 14, lists them.                                                  *)
(***************************************************************************)
Objects == {"authorizer", "redactor", "guards", "cache", "webhooks", "config",
            "identify", "breakers", "naming"}

Records == [Ids -> Versions \union {None}]

Entry == [by : Versions, age : Nat]

TypeOK ==
  /\ file \in Versions
  /\ ver \in [Objects -> Versions]
  /\ servers \in Records
  /\ reload \in [Reloaders -> {"idle", "upstreams", "webhooks"}]
  /\ oldCfg \in [Reloaders -> Versions \union {None}]
  /\ newCfg \in [Reloaders -> Versions \union {None}]
  /\ gone \in [Reloaders -> SUBSET Ids] /\ todo \in [Reloaders -> SUBSET Ids]
  /\ alone \subseteq Reloaders
  /\ cache \in [Tools -> Entry \union {None}]
  /\ manifest \in Records \union {None}
  /\ pc \in [Requests -> {"new", "upstream", "done"}]
  /\ tool \in [Requests -> Tools \union {None}]
  /\ mutable \in [Requests -> BOOLEAN]
  /\ audit \in [Requests -> Seq(Rejections \union Failures \union {"ok"})]
  /\ served \in [Requests -> Entry \union {None}]

Named(v) == {id \in Ids : Url[v][id] # None}

EmptyCache == [t \in Tools |-> None]

Init ==
  /\ file = 1
  /\ ver = [o \in Objects |-> 1]
  /\ servers = [id \in Ids |-> IF id \in Named(1) THEN 1 ELSE None]
  /\ reload = [l \in Reloaders |-> "idle"]
  /\ oldCfg = [l \in Reloaders |-> None] /\ newCfg = [l \in Reloaders |-> None]
  /\ gone = [l \in Reloaders |-> {}] /\ todo = [l \in Reloaders |-> {}]
  /\ alone = {}
  /\ cache = EmptyCache
  /\ manifest = None
  /\ pc = [r \in Requests |-> "new"]
  /\ tool = [r \in Requests |-> None]
  /\ mutable = [r \in Requests |-> FALSE]
  /\ audit = [r \in Requests |-> <<>>]
  /\ served = [r \in Requests |-> None]

-------------------------------------------------------------------------------
(***************************************************************************)
(* TTLStore.get: an entry is valid up to and including its expiry time.    *)
(***************************************************************************)
Valid(t) == cache[t] # None /\ cache[t].age <= Ttl[t]

(***************************************************************************)
(* ToolCache: tools without a TTL are neither looked up nor stored.        *)
(***************************************************************************)
GetResult(t) == IF Ttl[t] > 0 /\ Valid(t) THEN cache[t] ELSE None

SetResult(t, value) == IF Ttl[t] > 0 THEN [cache EXCEPT ![t] = value] ELSE cache

EmitAudit(r, status) == audit' = [audit EXCEPT ![r] = Append(@, status)]

Done(r) == pc' = [pc EXCEPT ![r] = "done"]

(***************************************************************************)
(* The name resolves: its server is registered.  Whether the server is     *)
(* enabled and lists the tool is left to Registry.                         *)
(***************************************************************************)
Resolves(t) == servers[ServerOf[t]] # None

IsMutable(t) == t \in Mutable[servers[ServerOf[t]]]

(***************************************************************************)
(* 404 or 503: the name does not resolve or the server is disabled.        *)
(***************************************************************************)
Unresolved(r) ==
  /\ pc[r] = "new"
  /\ Done(r)
  /\ UNCHANGED <<policyVars, cache, manifest, tool, mutable, audit, served>>

(***************************************************************************)
(* One of the four checks raises.                                          *)
(***************************************************************************)
Rejected(r, t, status) ==
  /\ pc[r] = "new"
  /\ Resolves(t)
  /\ EmitAudit(r, status)
  /\ Done(r)
  /\ UNCHANGED <<policyVars, cache, manifest, tool, mutable, served>>

CacheHit(r, t) ==
  /\ pc[r] = "new"
  /\ Resolves(t) /\ ~IsMutable(t)
  /\ GetResult(t) # None
  /\ tool' = [tool EXCEPT ![r] = t]
  /\ served' = [served EXCEPT ![r] = GetResult(t)]
  /\ Done(r)
  /\ UNCHANGED <<policyVars, cache, manifest, mutable, audit>>

(***************************************************************************)
(* All checks pass and the cache has nothing: the call goes upstream.  A   *)
(* lookup that finds an expired entry deletes it.                          *)
(***************************************************************************)
Send(r, t) ==
  /\ pc[r] = "new"
  /\ Resolves(t)
  /\ IsMutable(t) \/ GetResult(t) = None
  /\ cache' = IF IsMutable(t) THEN cache ELSE SetResult(t, None)
  /\ tool' = [tool EXCEPT ![r] = t]
  /\ mutable' = [mutable EXCEPT ![r] = IsMutable(t)]
  /\ pc' = [pc EXCEPT ![r] = "upstream"]
  /\ UNCHANGED <<policyVars, manifest, audit, served>>

(***************************************************************************)
(* The upstream answered.  Redactor and cache are read again here, after   *)
(* the suspension: they are the ones in force now.                         *)
(***************************************************************************)
Finish(r) ==
  LET clean == [by |-> ver["redactor"], age |-> 0]
  IN  /\ pc[r] = "upstream"
      /\ served' = [served EXCEPT ![r] = clean]
      /\ cache' = IF mutable[r] THEN cache ELSE SetResult(tool[r], clean)
      /\ EmitAudit(r, "ok")
      /\ Done(r)
      /\ UNCHANGED <<policyVars, manifest, tool, mutable>>

(***************************************************************************)
(* The upstream call raised UpstreamError or another exception.            *)
(***************************************************************************)
FinishError(r, status) ==
  /\ pc[r] = "upstream"
  /\ EmitAudit(r, status)
  /\ Done(r)
  /\ UNCHANGED <<policyVars, cache, manifest, tool, mutable, served>>

(***************************************************************************)
(* Time passes; entries age until they have expired.                       *)
(***************************************************************************)
ClockTick ==
  /\ \E t \in Tools : Valid(t)
  /\ cache' = [t \in Tools |-> IF Valid(t) THEN [cache[t] EXCEPT !.age = @ + 1]
                                           ELSE cache[t]]
  /\ UNCHANGED <<policyVars, manifest, requestVars>>

-------------------------------------------------------------------------------
(***************************************************************************)
(* build_manifest without a tag, when the cache has no manifest.  Which    *)
(* servers are healthy is left to Registry.                                *)
(***************************************************************************)
BuildManifest ==
  /\ manifest = None
  /\ manifest' = servers
  /\ UNCHANGED <<policyVars, cache, requestVars>>

ManifestExpires ==
  /\ manifest # None
  /\ manifest' = None
  /\ UNCHANGED <<policyVars, cache, requestVars>>

-------------------------------------------------------------------------------
(***************************************************************************)
(* The operator writes the next version of gateway.yaml.                   *)
(***************************************************************************)
EditFile ==
  /\ file < MaxVersion
  /\ file' = file + 1
  /\ UNCHANGED <<ver, upstreamVars, reload, newCfg, alone, cache, manifest,
                 requestVars>>

(***************************************************************************)
(* The upstreams both files name with another connection.                  *)
(***************************************************************************)
Moved(v, w) == {id \in Named(v) \intersect Named(w) : Url[v][id] # Url[w][id]}

\* The upstreams both files name with the same connection.
Kept(v, w) == {id \in Named(v) \intersect Named(w) : Url[v][id] = Url[w][id]}

(***************************************************************************)
(* The file is loaded and its upstreams are compared with those of         *)
(* app.state.config, which is not what the registry holds once a reload    *)
(* has failed half-way.                                                    *)
(***************************************************************************)
LoadConfig(l) ==
  /\ reload[l] = "idle"
  /\ oldCfg' = [oldCfg EXCEPT ![l] = ver["config"]]
  /\ newCfg' = [newCfg EXCEPT ![l] = file]
  /\ gone' = [gone EXCEPT ![l] = (Named(ver["config"]) \ Named(file))
                                   \union Moved(ver["config"], file)]
  /\ todo' = [todo EXCEPT ![l] = Named(file)]
  /\ reload' = [reload EXCEPT ![l] = "upstreams"]
  /\ alone' = {k \in {l} : \A other \in Reloaders : reload[other] = "idle"}
  /\ UNCHANGED <<file, ver, servers, cache, manifest, requestVars>>

(***************************************************************************)
(* Each registry operation may suspend the reload.  The removed servers go *)
(* first, a moved one right before it is registered again; apart from that *)
(* the order is open.                                                      *)
(***************************************************************************)
Halfway(l) == (todo[l] \intersect Moved(oldCfg[l], newCfg[l])) \ gone[l]

TakesUp(l, id) ==
  /\ reload[l] = "upstreams"
  /\ Halfway(l) \subseteq {id}
  /\ id \in Named(newCfg[l]) => gone[l] \subseteq Named(newCfg[l])

Deregister(l, id) ==
  /\ TakesUp(l, id)
  /\ id \in gone[l]
  /\ servers' = [servers EXCEPT ![id] = None]
  /\ gone' = [gone EXCEPT ![l] = @ \ {id}]
  /\ UNCHANGED <<file, ver, oldCfg, todo, reload, newCfg, alone, cache, manifest,
                 requestVars>>

(***************************************************************************)
(* A new or moved server is registered; a kept one has its record replaced *)
(* in place if it is registered, and else stays away.                      *)
(***************************************************************************)
UpdateUpstream(l, id) ==
  /\ TakesUp(l, id)
  /\ id \in todo[l] \ gone[l]
  /\ servers' = IF id \in Kept(oldCfg[l], newCfg[l]) /\ servers[id] = None
                THEN servers
                ELSE [servers EXCEPT ![id] = newCfg[l]]
  /\ todo' = [todo EXCEPT ![l] = @ \ {id}]
  /\ UNCHANGED <<file, ver, oldCfg, gone, reload, newCfg, alone, cache, manifest,
                 requestVars>>

(***************************************************************************)
(* The upstreams are done: what follows, up to the next suspension, is     *)
(* SwapPolicies or SwapFails.                                              *)
(***************************************************************************)
UpstreamsDone(l) == reload[l] = "upstreams" /\ gone[l] = {} /\ todo[l] = {}

\* _do_reload returns or raises.
Ends(l) ==
  /\ reload' = [reload EXCEPT ![l] = "idle"]
  /\ oldCfg' = [oldCfg EXCEPT ![l] = None]
  /\ newCfg' = [newCfg EXCEPT ![l] = None]
  /\ alone' = alone \ {l}

\* Plausible fault: the result cache survives the reload.
SwapPolicies_KeepsCache(l) ==
  /\ UpstreamsDone(l)
  /\ newCfg[l] \notin Bad
  /\ ver' = [ver EXCEPT !["authorizer"] = newCfg[l], !["redactor"] = newCfg[l],
                        !["guards"] = newCfg[l], !["cache"] = newCfg[l]]
  /\ reload' = [reload EXCEPT ![l] = "webhooks"]
  /\ UNCHANGED <<file, upstreamVars, newCfg, alone, cache, manifest, requestVars>>

\* Plausible fault: a manifest built while the upstreams change survives.
SwapPolicies_KeepsManifest(l) ==
  /\ UpstreamsDone(l)
  /\ newCfg[l] \notin Bad
  /\ ver' = [ver EXCEPT !["authorizer"] = newCfg[l], !["redactor"] = newCfg[l],
                        !["guards"] = newCfg[l], !["cache"] = newCfg[l]]
  /\ cache' = EmptyCache
  /\ reload' = [reload EXCEPT ![l] = "webhooks"]
  /\ UNCHANGED <<file, upstreamVars, newCfg, alone, manifest, requestVars>>

(***************************************************************************)
(* New policy objects and a new, empty cache, up to the suspension in      *)
(* old_dispatcher.close().                                                 *)
(***************************************************************************)
SwapPolicies(l) ==
  /\ UpstreamsDone(l)
  /\ newCfg[l] \notin Bad
  /\ ver' = [ver EXCEPT !["authorizer"] = newCfg[l], !["redactor"] = newCfg[l],
                        !["guards"] = newCfg[l], !["cache"] = newCfg[l]]
  /\ cache' = EmptyCache
  /\ manifest' = None
  /\ reload' = [reload EXCEPT ![l] = "webhooks"]
  /\ UNCHANGED <<file, upstreamVars, newCfg, alone, requestVars>>

(***************************************************************************)
(* SafetyFilter(new_cfg.guardrails) raises re.error: the reload ends, with *)
(* the authorizer and the redactor already replaced.                       *)
(***************************************************************************)
SwapFails(l) ==
  /\ UpstreamsDone(l)
  /\ newCfg[l] \in Bad
  /\ ver' = [ver EXCEPT !["authorizer"] = newCfg[l], !["redactor"] = newCfg[l]]
  /\ Ends(l)
  /\ UNCHANGED <<file, servers, gone, todo, cache, manifest, requestVars>>

\* Plausible fault: the authorizer that identifies agents is not replaced.
EndReload_KeepsIdentify(l) ==
  /\ reload[l] = "webhooks"
  /\ ver' = [ver EXCEPT !["webhooks"] = newCfg[l], !["config"] = newCfg[l]]
  /\ Ends(l)
  /\ UNCHANGED <<file, servers, gone, todo, cache, manifest, requestVars>>

(***************************************************************************)
(* The old dispatcher is closed: the rest of the reload.                   *)
(***************************************************************************)
EndReload(l) ==
  /\ reload[l] = "webhooks"
  /\ ver' = [ver EXCEPT !["webhooks"] = newCfg[l], !["config"] = newCfg[l],
                        !["identify"] = ver["authorizer"]]
  /\ Ends(l)
  /\ UNCHANGED <<file, servers, gone, todo, cache, manifest, requestVars>>

Next ==
  \/ \E r \in Requests :
       \/ Unresolved(r)
       \/ \E t \in Tools :
            \/ \E status \in Rejections : Rejected(r, t, status)
            \/ CacheHit(r, t)
            \/ Send(r, t)
       \/ Finish(r)
       \/ \E status \in Failures : FinishError(r, status)
  \/ ClockTick
  \/ BuildManifest \/ ManifestExpires
  \/ EditFile
  \/ \E l \in Reloaders :
       \/ LoadConfig(l)
       \/ \E id \in Ids : Deregister(l, id) \/ UpdateUpstream(l, id)
       \/ SwapPolicies(l) \/ SwapFails(l) \/ EndReload(l)

Spec == Init /\ [][Next]_vars

-------------------------------------------------------------------------------
(***************************************************************************)
(* Whatever the result cache would serve was redacted by the redactor in   *)
(* force, although calls that began before a reload fill the cache after   *)
(* it, and reloads overlap.  The exception is the time after a reload that *)
(* failed half-way: the redactor is new, the guards and the cache are old. *)
(***************************************************************************)
CachedContentIsClean ==
  ver["redactor"] = ver["guards"] =>
    \A t \in Tools : cache[t] # None => cache[t].by = ver["redactor"]

(***************************************************************************)
(* "Invalidate stale manifest immediately" (reload.py, line 114): once all *)
(* reloads have ended, the cached manifest lists the servers in force,     *)
(* although manifests are built and cached while the upstreams change.     *)
(* The exception is, again, a reload that failed half-way.                 *)
(***************************************************************************)
ManifestFollowsReload ==
  (\A l \in Reloaders : reload[l] = "idle") /\ ver["redactor"] = ver["guards"]
    => manifest \in {None, servers}

(***************************************************************************)
(* An answer is no older than the TTL of the tool it was asked of, whoever *)
(* filled the cache.                                                       *)
(***************************************************************************)
FreshAnswers ==
  \A r \in Requests : served[r] # None => served[r].age <= Ttl[tool[r]]

(***************************************************************************)
(* A reload that no other overlaps and that succeeds leaves the policy     *)
(* objects it replaces all built from its own gateway.yaml, whatever       *)
(* earlier reloads left behind that failed half-way or overlapped.  For    *)
(* the servers less is true: each one its file names has its record from   *)
(* that file, or is missing because the comparison took it for unchanged;  *)
(* servers the file does not name may be left over.  (When the registry is *)
(* exactly the file's is RegistryFollowsConfig of UpstreamReload.)         *)
(***************************************************************************)
SuccessfulReloadIsComplete ==
  [][\A l \in alone :
       reload[l] = "webhooks" /\ reload'[l] = "idle" =>
         /\ \A o \in Objects \ {"breakers", "naming"} : ver'[o] = newCfg[l]
         /\ \A id \in Named(newCfg[l]) :
              \/ servers'[id] = newCfg[l]
              \/ servers'[id] = None /\ id \in Kept(oldCfg[l], newCfg[l])]_vars
===============================================================================
