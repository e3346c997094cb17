---------------------------- MODULE UpstreamReload ----------------------------
(***************************************************************************)
(* What hot reloads do to the registry (app/admin/reload.py, lines 45-76   *)
(* and 126), together with registrations through the API                   *)
(* (app/api/routes.py, register_server and deregister_server).             *)
(*                                                                         *)
(* A reload compares the upstreams of app.state.config with those of the   *)
(* file it loaded, not with the registry.  It may be suspended at every    *)
(* registry operation, and nothing excludes a second reload meanwhile.     *)
(* Servers are taken in any order.  A server is its base_url and           *)
(* transport, which decide the connection, and the rest of its record; a   *)
(* client keeps the server record it was created for.  What a reload does  *)
(* after the upstreams is the subject of Orchestrator and Webhooks; here   *)
(* it either succeeds or fails (an invalid guardrail).                     *)
(***************************************************************************)
EXTENDS Naturals

CONSTANTS
  Ids,           \* server ids
  Upstreams,     \* the upstreams of each version of gateway.yaml, by id
  Bad,           \* versions whose guardrails hold an invalid regex
  Urls,
  ApiServer,     \* the record an API client registers
  Reloaders,     \* tasks that may run _do_reload
  MaxVersion,    \* bound: versions of gateway.yaml
  MaxApi,        \* bound: registrations and deregistrations through the API
  NoServer           \* no server, no entry

Versions == 1..MaxVersion
Server == [url : Urls, rest : Nat]
Entry == [server : Server, url : Urls, client : 0..1]

ASSUME ReloadAssumption ==
  /\ MaxVersion \in Nat \ {0} /\ MaxApi \in Nat
  /\ Upstreams \in [Versions -> [Ids -> Server \union {NoServer}]]
  /\ ApiServer \in Server
  /\ Bad \subseteq Versions \ {1}
  /\ NoServer \notin Server /\ NoServer \notin Entry

VARIABLES
  file,      \* version of gateway.yaml on disk
  config,    \* version of app.state.config
  table,     \* _entries: server record, and what the client was created for
  born,      \* parity of the clients created per id: tells one from the next
  busy,      \* reloads that are running
  old, new,  \* old_cfg and new_cfg of each reload
  gone,      \* removed ids a reload has still to deregister
  todo,      \* upstreams a reload has still to go through
  half,      \* ids a reload deregistered in order to register them again
  apis,      \* API operations so far
  touched,   \* history: ids the API has registered or deregistered
  clean      \* history: no reload has failed half-way or overlapped another

reloadVars == <<busy, old, new, gone, todo, half>>
apiVars    == <<apis, touched>>
upstreamVars == <<file, config, table, born, reloadVars, apiVars, clean>>

UpstreamTypeOK ==
  /\ file \in Versions /\ config \in Versions
  /\ table \in [Ids -> Entry \union {NoServer}]
  /\ born \in [Ids -> 0..1]
  /\ busy \subseteq Reloaders
  /\ old \in [Reloaders -> Versions] /\ new \in [Reloaders -> Versions]
  /\ gone \in [Reloaders -> SUBSET Ids]
  /\ todo \in [Reloaders -> SUBSET Ids]
  /\ half \in [Reloaders -> SUBSET Ids]
  /\ apis \in 0..MaxApi
  /\ touched \subseteq Ids
  /\ clean \in BOOLEAN

UpstreamEntry(id, s) == [server |-> s, url |-> s.url, client |-> 1 - born[id]]

(***************************************************************************)
(* lifespan has registered the configured upstreams.                       *)
(***************************************************************************)
UpstreamInit ==
  /\ file = 1 /\ config = 1
  /\ born = [id \in Ids |-> 0]
  /\ table = [id \in Ids |->
       IF Upstreams[1][id] = NoServer THEN NoServer
       ELSE [server |-> Upstreams[1][id], url |-> Upstreams[1][id].url, client |-> 0]]
  /\ busy = {}
  /\ old = [l \in Reloaders |-> 1] /\ new = [l \in Reloaders |-> 1]
  /\ gone = [l \in Reloaders |-> {}]
  /\ todo = [l \in Reloaders |-> {}]
  /\ half = [l \in Reloaders |-> {}]
  /\ apis = 0 /\ touched = {}
  /\ clean = TRUE

-------------------------------------------------------------------------------
(***************************************************************************)
(* ServerRegistry.register and deregister, as far as the table goes.       *)
(***************************************************************************)
RegisterUpstream(id, s) ==
  /\ table' = [table EXCEPT ![id] = UpstreamEntry(id, s)]
  /\ born' = [born EXCEPT ![id] = 1 - @]

DeregisterUpstream(id) ==
  /\ table' = [table EXCEPT ![id] = NoServer]
  /\ UNCHANGED born

Named(v) == {id \in Ids : Upstreams[v][id] # NoServer}

\* Plausible fault: whatever the registry has and the file lacks is removed.
Removed_FromRegistry(v, w) == {id \in Ids : table[id] # NoServer} \ Named(w)

Removed(v, w) == Named(v) \ Named(w)

EditFile ==
  /\ file < MaxVersion
  /\ file' = file + 1
  /\ UNCHANGED <<config, table, born, reloadVars, apiVars, clean>>

(***************************************************************************)
(* The file is loaded and compared with app.state.config.                  *)
(***************************************************************************)
Load(l) ==
  /\ l \notin busy
  /\ busy' = busy \union {l}
  /\ old' = [old EXCEPT ![l] = config]
  /\ new' = [new EXCEPT ![l] = file]
  /\ gone' = [gone EXCEPT ![l] = Removed(config, file)]
  /\ todo' = [todo EXCEPT ![l] = Named(file)]
  /\ clean' = (clean /\ busy = {})
  /\ UNCHANGED <<file, config, table, born, half, apiVars>>

DropRemoved(l, id) ==
  /\ l \in busy /\ id \in gone[l]
  /\ DeregisterUpstream(id)
  /\ gone' = [gone EXCEPT ![l] = @ \ {id}]
  /\ UNCHANGED <<file, config, busy, old, new, todo, half, apiVars, clean>>

\* Plausible fault: any change of the record counts, not only the connection.
SameConnection_WholeRecord(l, id) == Upstreams[old[l]][id] = Upstreams[new[l]][id]

SameConnection(l, id) == Upstreams[old[l]][id].url = Upstreams[new[l]][id].url

(***************************************************************************)
(* The loop over new_cfg.upstreams, once the removed servers are gone: a   *)
(* new server is registered, one with a new connection is deregistered and *)
(* then registered, any other is updated in place, if it is registered.    *)
(***************************************************************************)
Takes(l, id) ==
  l \in busy /\ gone[l] = {} /\ id \in todo[l] /\ half[l] \subseteq {id}

Add(l, id) ==
  /\ Takes(l, id)
  /\ id \notin Named(old[l]) \/ id \in half[l]
  /\ RegisterUpstream(id, Upstreams[new[l]][id])
  /\ todo' = [todo EXCEPT ![l] = @ \ {id}]
  /\ half' = [half EXCEPT ![l] = {}]
  /\ UNCHANGED <<file, config, busy, old, new, gone, apiVars, clean>>

Disconnect(l, id) ==
  /\ Takes(l, id)
  /\ id \in Named(old[l]) \ half[l] /\ ~SameConnection(l, id)
  /\ DeregisterUpstream(id)
  /\ half' = [half EXCEPT ![l] = {id}]
  /\ UNCHANGED <<file, config, busy, old, new, gone, todo, apiVars, clean>>

\* Plausible fault: the record takes the place of the entry.
UpdateInPlace_ReplacesEntry(l, id) ==
  /\ Takes(l, id)
  /\ id \in Named(old[l]) \ half[l] /\ SameConnection(l, id)
  /\ table' = [table EXCEPT ![id] = Upstreams[new[l]][id]]
  /\ todo' = [todo EXCEPT ![l] = @ \ {id}]
  /\ UNCHANGED <<file, config, born, busy, old, new, gone, half, apiVars, clean>>

UpdateInPlace(l, id) ==
  /\ Takes(l, id)
  /\ id \in Named(old[l]) \ half[l] /\ SameConnection(l, id)
  /\ table' = IF table[id] = NoServer THEN table
              ELSE [table EXCEPT ![id].server = Upstreams[new[l]][id]]
  /\ todo' = [todo EXCEPT ![l] = @ \ {id}]
  /\ UNCHANGED <<file, config, born, busy, old, new, gone, half, apiVars, clean>>

Through(l) == l \in busy /\ gone[l] = {} /\ todo[l] = {}

\* Plausible fault: app.state.config is not replaced.
Succeed_KeepsConfig(l) ==
  /\ Through(l)
  /\ new[l] \notin Bad
  /\ busy' = busy \ {l}
  /\ UNCHANGED <<file, config, table, born, old, new, gone, todo, half, apiVars, clean>>

(***************************************************************************)
(* The policies and the dispatcher are replaced, and app.state.config.     *)
(***************************************************************************)
Succeed(l) ==
  /\ Through(l)
  /\ new[l] \notin Bad
  /\ config' = new[l]
  /\ busy' = busy \ {l}
  /\ UNCHANGED <<file, table, born, old, new, gone, todo, half, apiVars, clean>>

(***************************************************************************)
(* SafetyFilter raises: app.state.config stays what it was, the registry   *)
(* has changed.                                                            *)
(***************************************************************************)
Fails(l) ==
  /\ Through(l)
  /\ new[l] \in Bad
  /\ busy' = busy \ {l}
  /\ clean' = FALSE
  /\ UNCHANGED <<file, config, table, born, old, new, gone, todo, half, apiVars>>

-------------------------------------------------------------------------------
ApiRegister(id) ==
  /\ apis < MaxApi
  /\ RegisterUpstream(id, ApiServer)
  /\ apis' = apis + 1 /\ touched' = touched \union {id}
  /\ UNCHANGED <<file, config, reloadVars, clean>>

ApiDeregister(id) ==
  /\ apis < MaxApi
  /\ table[id] # NoServer
  /\ DeregisterUpstream(id)
  /\ apis' = apis + 1 /\ touched' = touched \union {id}
  /\ UNCHANGED <<file, config, reloadVars, clean>>

UpstreamNext ==
  \/ EditFile
  \/ \E l \in Reloaders :
       \/ Load(l) \/ Succeed(l) \/ Fails(l)
       \/ \E id \in Ids :
            DropRemoved(l, id) \/ Add(l, id) \/ Disconnect(l, id) \/ UpdateInPlace(l, id)
  \/ \E id \in Ids : ApiRegister(id) \/ ApiDeregister(id)

UpstreamSpec == UpstreamInit /\ [][UpstreamNext]_upstreamVars

-------------------------------------------------------------------------------
(***************************************************************************)
(* "Upstream server list (add new, remove deleted, update existing)"       *)
(* (reload.py, line 17): between reloads the registry holds exactly the    *)
(* upstreams of app.state.config, each with its current record and a       *)
(* client that connects where the record says.  Ids an API client used are *)
(* excepted, and so is everything after a reload that failed half-way or   *)
(* overlapped another: then the comparison starts from the wrong list, and *)
(* no later reload need correct it.                                        *)
(***************************************************************************)
RegistryFollowsConfig ==
  clean /\ busy = {} =>
    \A id \in Ids \ touched :
      IF Upstreams[config][id] = NoServer THEN table[id] = NoServer
      ELSE /\ table[id] # NoServer
           /\ table[id].server = Upstreams[config][id]
           /\ table[id].url = Upstreams[config][id].url

(***************************************************************************)
(* "Active MCP sessions to unchanged upstreams are preserved" (routes.py,  *)
(* line 234): a reload gives up a client only if the server is not in both *)
(* files or its connection changed, overlapping reloads included.          *)
(***************************************************************************)
UnchangedKeepSession ==
  [][\A id \in Ids :
       (/\ table[id] # NoServer
        /\ apis' = apis
        /\ table'[id] = NoServer \/ table'[id].client # table[id].client)
       => \E l \in busy :
            \/ id \notin Named(old[l]) \intersect Named(new[l])
            \/ Upstreams[old[l]][id].url # Upstreams[new[l]][id].url]_upstreamVars

(***************************************************************************)
(* A server that only the API knows survives every reload, overlapping and *)
(* failing ones included: no reload takes an id that neither file names.   *)
(***************************************************************************)
ApiServersSurvive ==
  [][\A id \in Ids :
       table[id] # NoServer /\ (\A v \in Versions : id \notin Named(v)) /\ apis' = apis
       => table'[id] = table[id]]_upstreamVars
===============================================================================
