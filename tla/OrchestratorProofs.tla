--------------------------- MODULE OrchestratorProofs ---------------------------
(***************************************************************************)
(* For every number of calls, tools, reloads and overlapping reload tasks, *)
(* and every set of versions whose guardrails are invalid: the caches and  *)
(* the objects in force stay consistent with each other.                   *)
(*                                                                         *)
(* The properties except a reload that failed half-way by comparing two    *)
(* objects in force; why no sequence of failing and overlapping reloads    *)
(* can make these equal again by accident is the core of the invariant: a  *)
(* version that fails is never the version of the guards (CleanInv), and   *)
(* servers change only while a reload is under way that ends by emptying   *)
(* the cache or by such a failure (ManifestInv).  What a comparison with   *)
(* app.state.config brings about is in AloneInv.                           *)
(***************************************************************************)
EXTENDS Orchestrator, TLAPS

RequestStep(r) ==
  \/ Unresolved(r)
  \/ \E t \in Tools :
       \/ \E status \in Rejections : Rejected(r, t, status)
       \/ CacheHit(r, t)
       \/ Send(r, t)
  \/ Finish(r)
  \/ \E status \in Failures : FinishError(r, status)

ReloadStep(l) ==
  \/ LoadConfig(l)
  \/ \E id \in Ids : Deregister(l, id) \/ UpdateUpstream(l, id)
  \/ SwapPolicies(l) \/ SwapFails(l) \/ EndReload(l)

LEMMA NextSplit ==
  Next <=> \/ \E r \in Requests : RequestStep(r)
           \/ ClockTick \/ BuildManifest \/ ManifestExpires \/ EditFile
           \/ \E l \in Reloaders : ReloadStep(l)
  BY DEF Next, RequestStep, ReloadStep

(***************************************************************************)
(* A call that waits for its upstream names a tool; one that has not begun *)
(* was not answered.                                                       *)
(***************************************************************************)
RequestInv ==
  \A r \in Requests :
    /\ pc[r] = "upstream" => tool[r] \in Tools
    /\ pc[r] # "done" => served[r] = None

(***************************************************************************)
(* A reload under way has its two files; which upstreams are still to be   *)
(* deregistered follows from them.                                         *)
(***************************************************************************)
ReloadInv ==
  \A l \in Reloaders :
    reload[l] # "idle" =>
      /\ oldCfg[l] \in Versions /\ newCfg[l] \in Versions
      /\ gone[l] \intersect Named(newCfg[l])
           \subseteq todo[l] \intersect Moved(oldCfg[l], newCfg[l])

TypeInv == TypeOK /\ RequestInv /\ ReloadInv

LEMMA TypeInit == Init => TypeInv
<1> SUFFICES ASSUME Init PROVE TypeInv
  OBVIOUS
<1>1. 1 \in Versions
  BY OrchestratorAssumption DEF Versions
<1>2. audit \in [Requests -> Seq(Rejections \union Failures \union {"ok"})]
  BY DEF Init
<1>3. mutable \in [Requests -> BOOLEAN]
  BY DEF Init
<1>4. servers \in Records
  BY <1>1 DEF Init, Records
<1>5. TypeOK
  BY <1>1, <1>2, <1>3, <1>4 DEF Init, TypeOK, EmptyCache
<1>6. RequestInv /\ ReloadInv
  BY DEF Init, RequestInv, ReloadInv
<1> QED
  BY <1>5, <1>6 DEF TypeInv

LEMMA AuditTypes ==
  ASSUME TypeOK, NEW r \in Requests,
         NEW status \in Rejections \union Failures \union {"ok"},
         EmitAudit(r, status)
  PROVE  audit' \in [Requests -> Seq(Rejections \union Failures \union {"ok"})]
  BY DEF TypeOK, EmitAudit

LEMMA CacheTypes ==
  ASSUME TypeOK, NEW t \in Tools, NEW value \in Entry \union {None}
  PROVE  SetResult(t, value) \in [Tools -> Entry \union {None}]
  BY DEF TypeOK, SetResult

LEMMA EntryAges ==
  ASSUME NEW e \in Entry
  PROVE  /\ [e EXCEPT !.age = @ + 1] \in Entry
         /\ [e EXCEPT !.age = @ + 1].by = e.by
<1>1. PICK by \in Versions, age \in Nat : e = [by |-> by, age |-> age]
  BY DEF Entry
<1>2. [e EXCEPT !.age = @ + 1] = [by |-> by, age |-> age + 1]
  BY <1>1
<1> QED
  BY <1>1, <1>2 DEF Entry

LEMMA TypeStep == TypeInv /\ [Next]_vars => TypeInv'
<1> SUFFICES ASSUME TypeInv, [Next]_vars PROVE TypeInv'
  OBVIOUS
<1> USE DEF TypeInv
<1>1. ASSUME NEW r \in Requests, RequestStep(r) PROVE TypeInv'
  <2>1. CASE Unresolved(r)
    BY <2>1 DEF Unresolved, Done, policyVars, upstreamVars, TypeOK, RequestInv, ReloadInv
  <2>2. ASSUME NEW t \in Tools, NEW status \in Rejections, Rejected(r, t, status)
        PROVE  TypeInv'
    <3>1. audit' \in [Requests -> Seq(Rejections \union Failures \union {"ok"})]
      BY <2>2, AuditTypes DEF Rejected
    <3> QED
      BY <2>2, <3>1 DEF Rejected, Done, policyVars, upstreamVars, TypeOK, RequestInv,
                        ReloadInv
  <2>3. ASSUME NEW t \in Tools, CacheHit(r, t) PROVE TypeInv'
    BY <2>3 DEF CacheHit, GetResult, Done, policyVars, upstreamVars, TypeOK, RequestInv,
                ReloadInv
  <2>4. ASSUME NEW t \in Tools, Send(r, t) PROVE TypeInv'
    <3>1. mutable' \in [Requests -> BOOLEAN]
      <4>1. IsMutable(t) \in BOOLEAN
        BY DEF IsMutable
      <4> QED
        BY <2>4, <4>1, Zenon DEF Send, TypeOK
    <3>2. cache' \in [Tools -> Entry \union {None}]
      BY <2>4, CacheTypes DEF Send, TypeOK
    <3> QED
      BY <2>4, <3>1, <3>2 DEF Send, policyVars, upstreamVars, TypeOK, RequestInv,
                                ReloadInv
  <2>5. CASE Finish(r)
    <3> DEFINE clean == [by |-> ver["redactor"], age |-> 0]
    <3>1. clean \in Entry
      BY DEF TypeOK, Entry, Objects
    <3>2. tool[r] \in Tools
      BY <2>5 DEF Finish, RequestInv
    <3>3. cache' \in [Tools -> Entry \union {None}]
      BY <2>5, <3>1, <3>2, CacheTypes DEF Finish, TypeOK
    <3>4. audit' \in [Requests -> Seq(Rejections \union Failures \union {"ok"})]
      BY <2>5, AuditTypes DEF Finish
    <3>5. served' \in [Requests -> Entry \union {None}]
      BY <2>5, <3>1 DEF Finish, TypeOK
    <3> QED
      BY <2>5, <3>3, <3>4, <3>5 DEF Finish, Done, policyVars, upstreamVars, TypeOK,
                                     RequestInv, ReloadInv
  <2>6. ASSUME NEW status \in Failures, FinishError(r, status)
        PROVE  TypeInv'
    <3>1. audit' \in [Requests -> Seq(Rejections \union Failures \union {"ok"})]
      BY <2>6, AuditTypes DEF FinishError
    <3> QED
      BY <2>6, <3>1 DEF FinishError, Done, policyVars, upstreamVars, TypeOK,
                        RequestInv, ReloadInv
  <2> QED
    BY <1>1, <2>1, <2>2, <2>3, <2>4, <2>5, <2>6 DEF RequestStep
<1>2. CASE ClockTick
  <2>1. \A t \in Tools : Valid(t) => [cache[t] EXCEPT !.age = @ + 1] \in Entry
    BY EntryAges DEF Valid, TypeOK
  <2>2. cache' \in [Tools -> Entry \union {None}]
    BY <1>2, <2>1 DEF ClockTick, TypeOK
  <2> QED
    BY <1>2, <2>2 DEF ClockTick, policyVars, upstreamVars, requestVars, TypeOK,
                      RequestInv, ReloadInv
<1>3. CASE BuildManifest \/ ManifestExpires
  BY <1>3 DEF BuildManifest, ManifestExpires, policyVars, upstreamVars, requestVars,
              TypeOK, RequestInv, ReloadInv
<1>4. CASE EditFile
  <2>1. file' \in Versions
    BY <1>4, OrchestratorAssumption DEF EditFile, Versions, TypeOK
  <2> QED
    BY <1>4, <2>1 DEF EditFile, upstreamVars, requestVars, TypeOK, RequestInv, ReloadInv
<1>5. ASSUME NEW l \in Reloaders, ReloadStep(l) PROVE TypeInv'
  <2>1. CASE LoadConfig(l)
    <3>1. ver["config"] \in Versions
      BY DEF TypeOK, Objects
    <3>2. TypeOK'
      BY <2>1, <3>1 DEF LoadConfig, requestVars, TypeOK, Named, Moved
    <3>3. RequestInv' /\ ReloadInv'
      BY <2>1, <3>1 DEF LoadConfig, requestVars, TypeOK, RequestInv, ReloadInv, Moved
    <3> QED
      BY <3>2, <3>3
  <2>2. ASSUME NEW id \in Ids, Deregister(l, id) PROVE TypeInv'
    BY <2>2 DEF Deregister, TakesUp, requestVars, TypeOK, Records, RequestInv, ReloadInv
  <2>3. ASSUME NEW id \in Ids, UpdateUpstream(l, id) PROVE TypeInv'
    <3>1. newCfg[l] \in Versions
      BY <2>3 DEF UpdateUpstream, TakesUp, ReloadInv
    <3> QED
      BY <2>3, <3>1 DEF UpdateUpstream, TakesUp, requestVars, TypeOK, Records, RequestInv,
                        ReloadInv
  <2>4. CASE SwapPolicies(l) \/ SwapFails(l) \/ EndReload(l)
    <3>1. newCfg[l] \in Versions
      BY <2>4 DEF SwapPolicies, SwapFails, EndReload, UpstreamsDone, ReloadInv
    <3>2. ver' \in [Objects -> Versions]
      BY <2>4, <3>1 DEF SwapPolicies, SwapFails, EndReload, TypeOK, Objects
    <3>3. TypeOK'
      BY <2>4, <3>2 DEF SwapPolicies, SwapFails, EndReload, Ends, upstreamVars,
                        requestVars, TypeOK, EmptyCache
    <3>4. RequestInv' /\ ReloadInv'
      BY <2>4 DEF SwapPolicies, SwapFails, EndReload, Ends, UpstreamsDone, upstreamVars,
                  requestVars, TypeOK, RequestInv, ReloadInv
    <3> QED
      BY <3>3, <3>4
  <2> QED
    BY <1>5, <2>1, <2>2, <2>3, <2>4 DEF ReloadStep
<1>6. CASE UNCHANGED vars
  BY <1>6 DEF vars, policyVars, upstreamVars, requestVars, TypeOK, RequestInv, ReloadInv
<1> QED
  BY <1>1, <1>2, <1>3, <1>4, <1>5, <1>6, NextSplit

LEMMA TypeInvariance == Spec => []TypeInv
  BY TypeInit, TypeStep, PTL DEF Spec

(***************************************************************************)
(* Type correctness of the orchestrator, its caches and the reloads.       *)
(***************************************************************************)
THEOREM TypeCorrect == Spec => []TypeOK
<1>1. TypeInv => TypeOK
  BY DEF TypeInv
<1> QED
  BY <1>1, TypeInvariance, PTL

-------------------------------------------------------------------------------
(***************************************************************************)
(* The version of the guards never fails, and the redactor differs from it *)
(* only after a reload that failed.  So the two are equal only when no     *)
(* such reload has happened since the cache was last emptied.              *)
(***************************************************************************)
CleanInv ==
  /\ ver["guards"] \notin Bad
  /\ ver["redactor"] \in Bad \/ ver["redactor"] = ver["guards"]
  /\ CachedContentIsClean

LEMMA CleanInit == Init => CleanInv
  BY OrchestratorAssumption DEF Init, CleanInv, CachedContentIsClean, EmptyCache, Objects

LEMMA CleanStep == TypeInv /\ CleanInv /\ [Next]_vars => CleanInv'
<1> SUFFICES ASSUME TypeInv, CleanInv, [Next]_vars PROVE CleanInv'
  OBVIOUS
<1> USE DEF CleanInv, CachedContentIsClean
<1>1. ASSUME NEW r \in Requests, RequestStep(r) PROVE CleanInv'
  <2>1. CASE ver' = ver /\ cache' = cache
    BY <2>1
  <2>2. ASSUME NEW t \in Tools, Send(r, t) PROVE CleanInv'
    <3>1. ver' = ver
      BY <2>2 DEF Send, policyVars
    <3>2. \A u \in Tools : cache'[u] # None => cache'[u] = cache[u]
      BY <2>2 DEF Send, SetResult, TypeInv, TypeOK
    <3> QED
      BY <3>1, <3>2
  <2>3. CASE Finish(r)
    <3>1. ver' = ver
      BY <2>3 DEF Finish, policyVars
    <3>2. \A u \in Tools : cache'[u] # None => \/ cache'[u] = cache[u]
                                               \/ cache'[u].by = ver["redactor"]
      BY <2>3 DEF Finish, SetResult, TypeInv, TypeOK
    <3> QED
      BY <3>1, <3>2
  <2> QED
    BY <1>1, <2>1, <2>2, <2>3
    DEF RequestStep, Unresolved, Rejected, CacheHit, FinishError, policyVars
<1>2. CASE ClockTick
  <2>1. ver' = ver
    BY <1>2 DEF ClockTick, policyVars
  <2>2. \A t \in Tools : Valid(t) => [cache[t] EXCEPT !.age = @ + 1].by = cache[t].by
    BY EntryAges DEF Valid, TypeInv, TypeOK
  <2>3. \A t \in Tools : cache'[t] # None => cache[t] # None /\ cache'[t].by = cache[t].by
    BY <1>2, <2>2 DEF ClockTick, Valid
  <2> QED
    BY <2>1, <2>3
<1>3. CASE BuildManifest \/ ManifestExpires \/ EditFile
  BY <1>3 DEF BuildManifest, ManifestExpires, EditFile, policyVars
<1>4. ASSUME NEW l \in Reloaders, ReloadStep(l) PROVE CleanInv'
  <2>1. CASE \/ LoadConfig(l) \/ EndReload(l)
             \/ \E id \in Ids : Deregister(l, id) \/ UpdateUpstream(l, id)
    <3>1. /\ ver'["guards"] = ver["guards"]
          /\ ver'["redactor"] = ver["redactor"]
          /\ cache' = cache
      BY <2>1 DEF LoadConfig, Deregister, UpdateUpstream, EndReload, TypeInv, TypeOK,
                  Objects
    <3> QED
      BY <3>1
  <2>2. CASE SwapPolicies(l)
    BY <2>2 DEF SwapPolicies, EmptyCache, TypeInv, TypeOK, Objects
  <2>3. CASE SwapFails(l)
    BY <2>3 DEF SwapFails, TypeInv, TypeOK, Objects
  <2> QED
    BY <1>4, <2>1, <2>2, <2>3 DEF ReloadStep
<1>5. CASE UNCHANGED vars
  BY <1>5 DEF vars, policyVars
<1> QED
  BY <1>1, <1>2, <1>3, <1>4, <1>5, NextSplit

LEMMA CleanInvariance == Spec => []CleanInv
  BY CleanInit, CleanStep, TypeInvariance, PTL DEF Spec

(***************************************************************************)
(* Whatever the result cache would serve was redacted by the redactor in   *)
(* force (orchestrator.py, lines 285-291; reload.py, lines 107-113), except *)
(* after a reload that failed half-way.                                    *)
(***************************************************************************)
THEOREM CacheIsClean == Spec => []CachedContentIsClean
<1>1. CleanInv => CachedContentIsClean
  BY DEF CleanInv
<1> QED
  BY <1>1, CleanInvariance, PTL

-------------------------------------------------------------------------------
(***************************************************************************)
(* A manifest of other servers than those in force is cached only while a  *)
(* reload goes through its upstreams, or after one whose version fails:    *)
(* the other end of that phase empties the cache.                          *)
(***************************************************************************)
ManifestInv ==
  \/ manifest \in {None, servers}
  \/ ver["redactor"] \in Bad
  \/ \E l \in Reloaders : reload[l] = "upstreams"

LEMMA ManifestStep == TypeInv /\ ManifestInv /\ [Next]_vars => ManifestInv'
<1> SUFFICES ASSUME TypeInv, ManifestInv, [Next]_vars PROVE ManifestInv'
  OBVIOUS
<1> USE DEF ManifestInv
<1>1. ASSUME NEW r \in Requests, RequestStep(r) PROVE ManifestInv'
  BY <1>1 DEF RequestStep, Unresolved, Rejected, CacheHit, Send, Finish, FinishError,
              policyVars, upstreamVars
<1>2. CASE ClockTick \/ BuildManifest \/ ManifestExpires \/ EditFile
  BY <1>2 DEF ClockTick, BuildManifest, ManifestExpires, EditFile, policyVars,
              upstreamVars
<1>3. ASSUME NEW l \in Reloaders, ReloadStep(l) PROVE ManifestInv'
  <2>1. CASE \/ LoadConfig(l)
             \/ \E id \in Ids : Deregister(l, id) \/ UpdateUpstream(l, id)
    BY <2>1 DEF LoadConfig, Deregister, UpdateUpstream, TakesUp, TypeInv, TypeOK
  <2>2. CASE SwapPolicies(l)
    BY <2>2 DEF SwapPolicies
  <2>3. CASE SwapFails(l)
    BY <2>3 DEF SwapFails, TypeInv, TypeOK, Objects
  <2>4. CASE EndReload(l)
    <3>1. /\ manifest' = manifest /\ servers' = servers
          /\ ver'["redactor"] = ver["redactor"]
          /\ \A k \in Reloaders : reload[k] = "upstreams" => reload'[k] = "upstreams"
      BY <2>4 DEF EndReload, Ends, TypeInv, TypeOK, Objects
    <3> QED
      BY <3>1
  <2> QED
    BY <1>3, <2>1, <2>2, <2>3, <2>4 DEF ReloadStep
<1>4. CASE UNCHANGED vars
  BY <1>4 DEF vars, policyVars, upstreamVars
<1> QED
  BY <1>1, <1>2, <1>3, <1>4, NextSplit

(***************************************************************************)
(* Once all reloads have ended the cached manifest lists the servers in    *)
(* force (reload.py, line 114), except after a reload that failed          *)
(* half-way.                                                               *)
(***************************************************************************)
THEOREM ManifestIsCurrent == Spec => []ManifestFollowsReload
<1>1. Init => ManifestInv
  BY DEF Init, ManifestInv
<1>2. CleanInv /\ ManifestInv => ManifestFollowsReload
  BY DEF CleanInv, ManifestInv, ManifestFollowsReload
<1> QED
  BY <1>1, <1>2, ManifestStep, TypeInvariance, CleanInvariance, PTL DEF Spec

-------------------------------------------------------------------------------
LEMMA FreshStep == TypeInv /\ FreshAnswers /\ [Next]_vars => FreshAnswers'
<1> SUFFICES ASSUME TypeInv, FreshAnswers, [Next]_vars PROVE FreshAnswers'
  OBVIOUS
<1> USE DEF TypeInv, FreshAnswers
<1>1. ASSUME NEW r \in Requests, RequestStep(r) PROVE FreshAnswers'
  <2>1. CASE UNCHANGED <<served, tool>>
    BY <2>1
  <2>2. ASSUME NEW t \in Tools,
               Send(r, t)
        PROVE  FreshAnswers'
    <3>1. served[r] = None /\ served' = served /\ tool' = [tool EXCEPT ![r] = t]
      BY <2>2 DEF Send, RequestInv
    <3> QED
      BY <3>1 DEF TypeOK
  <2>3. ASSUME NEW t \in Tools, CacheHit(r, t) PROVE FreshAnswers'
    <3>1. /\ served'[r].age <= Ttl[t]
          /\ tool'[r] = t
      BY <2>3 DEF CacheHit, GetResult, Valid, TypeOK
    <3>2. \A q \in Requests \ {r} : served'[q] = served[q] /\ tool'[q] = tool[q]
      BY <2>3 DEF CacheHit, TypeOK
    <3> QED
      BY <3>1, <3>2
  <2>4. CASE Finish(r)
    <3>1. Ttl[tool[r]] \in Nat
      BY <2>4, OrchestratorAssumption DEF Finish, RequestInv
    <3>2. served'[r].age = 0 /\ tool' = tool
      BY <2>4 DEF Finish, TypeOK
    <3>3. \A q \in Requests \ {r} : served'[q] = served[q]
      BY <2>4 DEF Finish, TypeOK
    <3> QED
      BY <3>1, <3>2, <3>3
  <2> QED
    BY <1>1, <2>1, <2>2, <2>3, <2>4 DEF RequestStep, Unresolved, Rejected, FinishError
<1>2. CASE ClockTick \/ BuildManifest \/ ManifestExpires \/ EditFile
  BY <1>2 DEF ClockTick, BuildManifest, ManifestExpires, EditFile, requestVars
<1>3. ASSUME NEW l \in Reloaders, ReloadStep(l) PROVE FreshAnswers'
  BY <1>3 DEF ReloadStep, LoadConfig, Deregister, UpdateUpstream, SwapPolicies, SwapFails,
              EndReload, requestVars
<1>4. CASE UNCHANGED vars
  BY <1>4 DEF vars, requestVars
<1> QED
  BY <1>1, <1>2, <1>3, <1>4, NextSplit

(***************************************************************************)
(* No answer of call_tool is older than the TTL of the tool it names       *)
(* (tool_cache.py, lines 52-66).                                           *)
(***************************************************************************)
THEOREM AnswersAreFresh == Spec => []FreshAnswers
<1>1. Init => FreshAnswers
  BY DEF Init, FreshAnswers
<1> QED
  BY <1>1, FreshStep, TypeInvariance, PTL DEF Spec

-------------------------------------------------------------------------------
(***************************************************************************)
(* While a reload is alone, no other one is under way, and what it has     *)
(* replaced so far is built from its own file; an upstream it is through   *)
(* with is missing only if the comparison took it for unchanged.           *)
(***************************************************************************)
FromFile(l, id) ==
  \/ servers[id] = newCfg[l]
  \/ servers[id] = None /\ id \in Kept(oldCfg[l], newCfg[l])

AloneInv ==
  \A l \in alone :
    /\ \A other \in Reloaders \ {l} : reload[other] = "idle"
    /\ reload[l] # "idle" =>
         \A id \in Named(newCfg[l]) \ todo[l] : FromFile(l, id)
    /\ reload[l] = "webhooks" =>
         /\ \A id \in Named(newCfg[l]) : FromFile(l, id)
         /\ \A o \in {"authorizer", "redactor", "guards", "cache"} : ver[o] = newCfg[l]

(***************************************************************************)
(* What a step of the only reload under way leaves alone.                  *)
(***************************************************************************)
LEMMA AloneKept ==
  ASSUME TypeInv, AloneInv, NEW l \in Reloaders, reload[l] # "idle",
         alone' \subseteq alone,
         \A other \in Reloaders \ {l} : reload'[other] = reload[other],
         reload'[l] # "idle" =>
           \A id \in Named(newCfg'[l]) \ todo'[l] : FromFile(l, id)',
         reload'[l] = "webhooks" =>
           /\ \A id \in Named(newCfg'[l]) : FromFile(l, id)'
           /\ \A o \in {"authorizer", "redactor", "guards", "cache"} :
                ver'[o] = newCfg'[l]
  PROVE  AloneInv'
<1>1. \A k \in alone : k = l
  BY DEF AloneInv, TypeInv, TypeOK
<1>2. ASSUME NEW k \in alone'
      PROVE  /\ \A other \in Reloaders \ {k} : reload'[other] = "idle"
             /\ reload'[k] # "idle" =>
                  \A id \in Named(newCfg'[k]) \ todo'[k] : FromFile(k, id)'
             /\ reload'[k] = "webhooks" =>
                  /\ \A id \in Named(newCfg'[k]) : FromFile(k, id)'
                  /\ \A o \in {"authorizer", "redactor", "guards", "cache"} :
                       ver'[o] = newCfg'[k]
  <2>1. k = l /\ k \in alone
    BY <1>1, <1>2
  <2>2. \A other \in Reloaders \ {k} : reload'[other] = "idle"
    BY <2>1 DEF AloneInv
  <2> QED
    BY <2>1, <2>2
<1> QED
  BY <1>2, Zenon DEF AloneInv

LEMMA AloneStep == TypeInv /\ AloneInv /\ [Next]_vars => AloneInv'
<1> SUFFICES ASSUME TypeInv, AloneInv, [Next]_vars PROVE AloneInv'
  OBVIOUS
<1>1. CASE UNCHANGED <<ver, upstreamVars, reload, newCfg, alone>>
  BY <1>1 DEF AloneInv, FromFile, upstreamVars
<1>2. ASSUME NEW l \in Reloaders, LoadConfig(l) PROVE AloneInv'
  <2>1. \A k \in alone' : k = l /\ \A other \in Reloaders : reload[other] = "idle"
    BY <1>2 DEF LoadConfig
  <2>2. /\ reload'[l] = "upstreams"
        /\ newCfg'[l] = file /\ todo'[l] = Named(file)
        /\ \A other \in Reloaders \ {l} : reload'[other] = reload[other]
    BY <1>2 DEF LoadConfig, TypeInv, TypeOK
  <2> QED
    BY <2>1, <2>2 DEF AloneInv
<1>3. ASSUME NEW l \in Reloaders, NEW id \in Ids, Deregister(l, id) PROVE AloneInv'
  <2>1. /\ reload[l] = "upstreams" /\ reload' = reload /\ alone' = alone
        /\ newCfg' = newCfg /\ oldCfg' = oldCfg /\ todo' = todo
    BY <1>3 DEF Deregister, TakesUp
  <2>2. id \notin Named(newCfg[l]) \ todo[l]
    BY <1>3, <2>1 DEF Deregister, TypeInv, ReloadInv
  <2>3. \A other \in Ids \ {id} : servers'[other] = servers[other]
    BY <1>3 DEF Deregister, TypeInv, TypeOK, Records
  <2>4. l \in alone => \A u \in Named(newCfg[l]) \ todo[l] : FromFile(l, u)'
    BY <2>1, <2>2, <2>3 DEF AloneInv, FromFile, Named
  <2>5. CASE l \in alone
    BY <2>1, <2>4, <2>5, AloneKept
  <2>6. CASE l \notin alone
    BY <2>1, <2>6 DEF AloneInv
  <2> QED
    BY <2>5, <2>6
<1>4. ASSUME NEW l \in Reloaders, NEW id \in Ids, UpdateUpstream(l, id) PROVE AloneInv'
  <2>1. /\ reload[l] = "upstreams" /\ reload' = reload /\ alone' = alone
        /\ newCfg' = newCfg /\ oldCfg' = oldCfg
        /\ \A u \in todo[l] \ {id} : u \in todo'[l]
    BY <1>4 DEF UpdateUpstream, TakesUp, TypeInv, TypeOK
  <2>2. FromFile(l, id)'
    <3>1. servers \in [Ids -> Versions \union {None}]
      BY DEF TypeInv, TypeOK, Records
    <3>2. CASE id \in Kept(oldCfg[l], newCfg[l]) /\ servers[id] = None
      <4>1. servers' = servers
        BY <1>4, <3>2 DEF UpdateUpstream
      <4> QED
        BY <2>1, <3>2, <4>1 DEF FromFile, Kept, Named
    <3>3. CASE ~(id \in Kept(oldCfg[l], newCfg[l]) /\ servers[id] = None)
      <4>1. servers' = [servers EXCEPT ![id] = newCfg[l]]
        BY <1>4, <3>3 DEF UpdateUpstream
      <4>2. servers'[id] = newCfg[l]
        BY <3>1, <4>1
      <4> QED
        BY <2>1, <4>2 DEF FromFile, Kept, Named
    <3> QED
      BY <3>2, <3>3
  <2>3. \A other \in Ids \ {id} : servers'[other] = servers[other]
    BY <1>4 DEF UpdateUpstream, TypeInv, TypeOK, Records
  <2>4. l \in alone => \A u \in Named(newCfg[l]) \ todo'[l] : FromFile(l, u)'
    BY <2>1, <2>2, <2>3 DEF AloneInv, FromFile, Named
  <2>5. CASE l \in alone
    BY <2>1, <2>4, <2>5, AloneKept
  <2>6. CASE l \notin alone
    BY <2>1, <2>6 DEF AloneInv
  <2> QED
    BY <2>5, <2>6
<1>5. ASSUME NEW l \in Reloaders, SwapPolicies(l) PROVE AloneInv'
  <2>1. /\ reload[l] = "upstreams" /\ todo[l] = {} /\ alone' = alone
        /\ newCfg' = newCfg /\ oldCfg' = oldCfg /\ todo' = todo /\ servers' = servers
        /\ \A other \in Reloaders \ {l} : reload'[other] = reload[other]
    BY <1>5 DEF SwapPolicies, UpstreamsDone, upstreamVars, TypeInv, TypeOK
  <2>2. \A o \in {"authorizer", "redactor", "guards", "cache"} : ver'[o] = newCfg'[l]
    BY <1>5 DEF SwapPolicies, TypeInv, TypeOK, Objects
  <2>3. l \in alone => \A u \in Named(newCfg[l]) : FromFile(l, u)'
    BY <2>1 DEF AloneInv, FromFile
  <2>4. CASE l \in alone
    BY <2>1, <2>2, <2>3, <2>4, AloneKept
  <2>5. CASE l \notin alone
    <3>1. ASSUME NEW k \in alone PROVE FALSE
      <4>1. l \in Reloaders \ {k}
        BY <2>5
      <4>2. reload[l] = "idle"
        BY <4>1 DEF AloneInv
      <4> QED
        BY <2>1, <4>2
    <3>2. alone' = {}
      BY <2>1, <3>1
    <3> QED
      BY <3>2 DEF AloneInv
  <2> QED
    BY <2>4, <2>5
<1>6. ASSUME NEW l \in Reloaders, SwapFails(l) \/ EndReload(l) PROVE AloneInv'
  <2>1. /\ reload[l] # "idle" /\ reload'[l] = "idle" /\ alone' \subseteq alone
        /\ \A other \in Reloaders \ {l} : reload'[other] = reload[other]
    BY <1>6 DEF SwapFails, EndReload, Ends, UpstreamsDone, TypeInv, TypeOK
  <2> QED
    BY <2>1, AloneKept
<1> QED
  BY <1>1, <1>2, <1>3, <1>4, <1>5, <1>6, NextSplit
  DEF RequestStep, ReloadStep, Unresolved, Rejected, CacheHit, Send, Finish, FinishError,
      ClockTick, BuildManifest, ManifestExpires, EditFile, policyVars, vars

LEMMA ReloadCompletes ==
  TypeInv /\ AloneInv /\ [Next]_vars =>
    [\A l \in alone :
       reload[l] = "webhooks" /\ reload'[l] = "idle" =>
         /\ \A o \in Objects \ {"breakers", "naming"} : ver'[o] = newCfg[l]
         /\ \A id \in Named(newCfg[l]) :
              \/ servers'[id] = newCfg[l]
              \/ servers'[id] = None /\ id \in Kept(oldCfg[l], newCfg[l])]_vars
<1> SUFFICES ASSUME TypeInv, AloneInv, Next, NEW k \in alone,
                    reload[k] = "webhooks", reload'[k] = "idle"
             PROVE  /\ \A o \in Objects \ {"breakers", "naming"} : ver'[o] = newCfg[k]
                    /\ \A id \in Named(newCfg[k]) :
                         \/ servers'[id] = newCfg[k]
                         \/ servers'[id] = None /\ id \in Kept(oldCfg[k], newCfg[k])
  OBVIOUS
<1>1. reload' # reload /\ k \in Reloaders
  BY DEF TypeInv, TypeOK
<1>2. PICK l \in Reloaders : ReloadStep(l)
  BY <1>1, NextSplit
  DEF RequestStep, Unresolved, Rejected, CacheHit, Send, Finish, FinishError,
      ClockTick, BuildManifest, ManifestExpires, EditFile, policyVars
<1>3. l = k
  BY <1>1, <1>2
  DEF ReloadStep, LoadConfig, Deregister, UpdateUpstream, SwapPolicies, SwapFails,
      EndReload, Ends, TypeInv, TypeOK
<1>4. EndReload(k)
  BY <1>2, <1>3 DEF ReloadStep, LoadConfig, Deregister, UpdateUpstream, TakesUp,
                    SwapPolicies, SwapFails, UpstreamsDone
<1>5. /\ \A o \in {"authorizer", "redactor", "guards", "cache"} : ver[o] = newCfg[k]
      /\ \A id \in Named(newCfg[k]) : FromFile(k, id)
  BY DEF AloneInv
<1>6. \A o \in Objects \ {"breakers", "naming"} : ver'[o] = newCfg[k]
  BY <1>4, <1>5 DEF EndReload, TypeInv, TypeOK, Objects
<1> QED
  BY <1>4, <1>5, <1>6 DEF EndReload, FromFile

(***************************************************************************)
(* A reload that no other overlaps and that succeeds leaves the policy     *)
(* objects it replaces built from its own gateway.yaml, and of the servers *)
(* its file names only those missing that it took for unchanged            *)
(* (reload.py, lines 43-131).                                              *)
(***************************************************************************)
THEOREM ReloadsAreComplete == Spec => SuccessfulReloadIsComplete
<1>1. Init => AloneInv
  BY DEF Init, AloneInv
<1> QED
  BY <1>1, AloneStep, ReloadCompletes, TypeInvariance, PTL
  DEF Spec, SuccessfulReloadIsComplete
===============================================================================
