------------------------------- MODULE Registry -------------------------------
(***************************************************************************)
(* The registry of upstream servers (app/registry/registry.py, class       *)
(* ServerRegistry): servers come, go, are replaced and switched on and     *)
(* off, while syncs that started earlier write the tools they listed.      *)
(*                                                                         *)
(* The suspension points are list_tools inside sync_one and the closing of *)
(* a client, which changes nothing here (deregister recomputes the gauge   *)
(* after it; the model does so at once).                                   *)
(* Names, server ids and prefixes are sequences over Chars, which holds    *)
(* "." and "_", so that what the gateway composes can meet what upstreams  *)
(* and operators chose; nothing restricts an id.                           *)
(***************************************************************************)
EXTENDS Naturals, SequencesExt

CONSTANTS
  Chars,        \* what ids, prefixes and tool names are made of
  Servers,      \* server ids
  Prefix,       \* tool_prefix or id, per server
  Offers,       \* the tool lists an upstream may answer with, per server
  Strategies,   \* NamingConfig.strategy, one of them per behaviour
  Policies,     \* NamingConfig.on_conflict, one of them per behaviour
  Syncers,      \* who calls sync_one: the health sweep, a route, register
  MaxGen,       \* bound: registrations in a behaviour
  MaxChanges,   \* bound: deregistrations and switches on or off
  MaxFaults,    \* bound: failed calls of list_tools
  None

RawNames == UNION {ToSet(raw) : raw \in UNION {Offers[s] : s \in Servers}}

PrefixName(s, name) == Prefix[s] \o <<".">> \o name

SuffixName(s, q) == q \o <<"_">> \o s

QualifiedNames ==
  UNION {{n, PrefixName(s, n), SuffixName(s, n), SuffixName(s, PrefixName(s, n))} :
           s \in Servers, n \in RawNames}

ToolDefinition == [name : RawNames, qualified : QualifiedNames]

ASSUME RegistryAssumption ==
  /\ Strategies \subseteq {"prefix_always", "prefix_on_conflict", "bare"}
  /\ Policies \subseteq {"warn", "error", "suffix"}
  /\ MaxGen \in Nat /\ MaxChanges \in Nat /\ MaxFaults \in Nat
  /\ \A s \in Servers : Offers[s] \subseteq Seq(RawNames)
  /\ None \notin Nat /\ None \notin Servers \X RawNames

ASSUME NameAssumption ==
  /\ {".", "_"} \subseteq Chars
  /\ Servers \subseteq Seq(Chars) /\ Prefix \in [Servers -> Seq(Chars)]
  /\ RawNames \subseteq Seq(Chars)

VARIABLES
  strategy, policy,   \* _naming
  order,    \* the keys of _entries, in dict order
  entry,    \* _entries: for each key its RegistryEntry; gen identifies the
            \* entry object and its client, from the client that listed tools
  sync,     \* the entry each running sync_one holds, and the number of its client
  gauge,    \* REGISTERED_TOOLS
  gens, changes, faults    \* registrations, changes and faults so far

vars == <<strategy, policy, order, entry, sync, gauge, gens, changes, faults>>

Registered == ToSet(order)

RegistryEntry == [gen : 1..gens, from : 0..gens, enabled : BOOLEAN, healthy : BOOLEAN,
                  tools : Seq(ToolDefinition)]

TypeOK ==
  /\ strategy \in Strategies /\ policy \in Policies
  /\ order \in Seq(Servers) /\ IsInjective(order)
  /\ entry \in [Registered -> RegistryEntry]
  /\ sync \in [Syncers \X Servers -> {None} \union (1..gens)]
  /\ gauge \in Nat
  /\ gens \in 0..MaxGen /\ changes \in 0..MaxChanges /\ faults \in 0..MaxFaults

Init ==
  /\ strategy \in Strategies /\ policy \in Policies
  /\ order = <<>>
  /\ entry = <<>>
  /\ sync = [k \in Syncers \X Servers |-> None]
  /\ gauge = 0
  /\ gens = 0 /\ changes = 0 /\ faults = 0

-------------------------------------------------------------------------------
(***************************************************************************)
(* Queries.                                                                *)
(***************************************************************************)
ToolsOf(s) == ToSet(entry[s].tools)

ExactMatch(q) ==
  LET Matches(td) == td.qualified = q
      i == SelectInSeq(order, LAMBDA s : \E td \in ToolsOf(s) : Matches(td))
      tools == entry[order[i]].tools
  IN  IF i = 0 THEN None
      ELSE <<order[i], tools[SelectInSeq(tools, Matches)].name>>

PrefixMatch(q) ==
  LET dot == SelectInSeq(q, LAMBDA char : char = ".")
      i   == SelectInSeq(order, LAMBDA s : SubSeq(q, 1, dot - 1) = Prefix[s])
  IN  IF dot = 0 \/ i = 0 THEN None
      ELSE <<order[i], SubSeq(q, dot + 1, Len(q))>>

\* The tools with the raw name n that servers S list.
Listings(n, S) ==
  MapThenSumSet(LAMBDA s : Len(SelectSeq(entry[s].tools, LAMBDA td : td.name = n)), S)

BareMatch(q) ==
  IF Listings(q, Registered) = 1
  THEN <<CHOOSE s \in Registered : \E td \in ToolsOf(s) : td.name = q, q>> ELSE None

\* Plausible fault: the prefix is split off before the exact names are tried.
FindByQualifiedTool_PrefixFirst(q) ==
  IF PrefixMatch(q) # None THEN PrefixMatch(q)
  ELSE IF ExactMatch(q) # None THEN ExactMatch(q) ELSE BareMatch(q)

(***************************************************************************)
(* find_by_qualified_tool: the server and the raw name a call of q goes to.*)
(***************************************************************************)
FindByQualifiedTool(q) ==
  IF ExactMatch(q) # None THEN ExactMatch(q)
  ELSE IF PrefixMatch(q) # None THEN PrefixMatch(q) ELSE BareMatch(q)

ListConflicts ==
  LET enabled == {s \in Registered : entry[s].enabled}
  IN  {n \in {td.name : td \in UNION {ToolsOf(s) : s \in enabled}} :
         Listings(n, enabled) > 1}

(***************************************************************************)
(* _recompute_tool_count, of the table e with the keys in this order.      *)
(***************************************************************************)
ToolCount(keys, e) ==
  LET Size(s) == IF e[s].enabled THEN Len(e[s].tools) ELSE 0
      total[i \in 0..Len(keys)] == IF i = 0 THEN 0 ELSE total[i - 1] + Size(keys[i])
  IN  total[Len(keys)]

-------------------------------------------------------------------------------
(***************************************************************************)
(* _build_tool_definitions: the definitions for the raw list of server s,  *)
(* or None where ToolNameConflict is raised.  taken holds the names of     *)
(* other servers and, as the list is worked off, those of s itself.        *)
(***************************************************************************)
Others(s) == Registered \ {s}

\* Plausible fault: the comparison is with the names given, not the raw ones.
Collides_Qualified(s, name) ==
  \E o \in Others(s) : \E td \in ToolsOf(o) : td.qualified = name

Collides(s, name) == \E o \in Others(s) : \E td \in ToolsOf(o) : td.name = name

Qualify(s, name) ==
  IF \/ strategy = "prefix_always"
     \/ strategy = "prefix_on_conflict" /\ Collides(s, name)
  THEN PrefixName(s, name) ELSE name

Taken(s) == UNION {{td.qualified : td \in ToolsOf(o)} : o \in Others(s)}

Define(acc, name, q) ==
  [tools |-> Append(acc.tools, [name |-> name, qualified |-> q]),
   taken |-> acc.taken \union {q}]

DefineNext(s, acc, name) ==
  LET q == Qualify(s, name)
  IN  IF acc = None \/ (q \in acc.taken /\ policy = "error") THEN None
      ELSE IF q \notin acc.taken THEN Define(acc, name, q)
      ELSE IF policy = "suffix" THEN Define(acc, name, SuffixName(s, q))
      ELSE acc

BuildToolDefinitions(s, raw) ==
  LET built[i \in 0..Len(raw)] ==
        IF i = 0 THEN [tools |-> <<>>, taken |-> Taken(s)]
                 ELSE DefineNext(s, built[i - 1], raw[i])
      result == built[Len(raw)]
  IN  IF result = None THEN None ELSE result.tools

-------------------------------------------------------------------------------
NewEntry(g, on) == [gen |-> g, from |-> 0, enabled |-> on, healthy |-> FALSE,
                    tools |-> <<>>]

\* Plausible fault: a server registered again is put at the end of the table.
Register_Appends(s) ==
  /\ gens < MaxGen
  /\ gens' = gens + 1
  /\ order' = Append(order, s)
  /\ \E on \in BOOLEAN :
       entry' = [x \in Registered \union {s} |->
                   IF x = s THEN NewEntry(gens', on) ELSE entry[x]]
  /\ UNCHANGED <<strategy, policy, sync, gauge, changes, faults>>

(***************************************************************************)
(* register: a new entry with a new client; an existing key keeps its      *)
(* place in the dict.  The sync that follows, if the server is enabled, is *)
(* a sync_one like any other.                                              *)
(***************************************************************************)
Register(s) ==
  /\ gens < MaxGen
  /\ gens' = gens + 1
  /\ order' = IF s \in Registered THEN order ELSE Append(order, s)
  /\ \E on \in BOOLEAN :
       entry' = [x \in Registered \union {s} |->
                   IF x = s THEN NewEntry(gens', on) ELSE entry[x]]
  /\ UNCHANGED <<strategy, policy, sync, gauge, changes, faults>>

Deregister(s) ==
  /\ s \in Registered
  /\ changes < MaxChanges
  /\ changes' = changes + 1
  /\ \E i \in 1..Len(order) : order[i] = s /\ order' = RemoveAt(order, i)
  /\ entry' = [x \in Registered \ {s} |-> entry[x]]
  /\ gauge' = ToolCount(order', entry')
  /\ UNCHANGED <<strategy, policy, sync, gens, faults>>

SetEnabled(s) ==
  /\ s \in Registered
  /\ changes < MaxChanges
  /\ changes' = changes + 1
  /\ entry' = [entry EXCEPT ![s].enabled = ~@]
  /\ UNCHANGED <<strategy, policy, order, sync, gauge, gens, faults>>

(***************************************************************************)
(* sync_one looks the entry up and awaits its client's list_tools.         *)
(***************************************************************************)
StartSync(k, s) ==
  /\ s \in Registered /\ entry[s].enabled
  /\ sync[<<k, s>>] = None
  /\ sync' = [sync EXCEPT ![<<k, s>>] = entry[s].gen]
  /\ UNCHANGED <<strategy, policy, order, entry, gauge, gens, changes, faults>>

\* The entry object that sync (k, s) holds is still in the table.
Current(k, s) == s \in Registered /\ entry[s].gen = sync[<<k, s>>]

\* Plausible fault: the entry is looked up again after list_tools.
Synced_LooksUpAgain(k, s, e) ==
  IF s \in Registered THEN [entry EXCEPT ![s] = e] ELSE entry

(***************************************************************************)
(* sync_one assigns to the entry object that it holds, which may no longer *)
(* be in the table.                                                        *)
(***************************************************************************)
Synced(k, s, e) ==
  IF Current(k, s) THEN [entry EXCEPT ![s] = e] ELSE entry

EndSync(k, s) == sync' = [sync EXCEPT ![<<k, s>>] = None]

\* The entry e with the tools its client listed.
Listed(e, client, tools) == [gen |-> e.gen, from |-> client, enabled |-> e.enabled,
                             healthy |-> TRUE, tools |-> tools]

\* Plausible fault: the gauge is recomputed only where a sync fails.
SyncReturns_NoRecount(k, s) ==
  /\ sync[<<k, s>>] # None
  /\ \E raw \in Offers[s] :
       LET tools == BuildToolDefinitions(s, raw)
           e == IF s \notin Registered THEN None
                ELSE IF tools = None THEN [entry[s] EXCEPT !.healthy = FALSE]
                ELSE Listed(entry[s], sync[<<k, s>>], tools)
       IN  entry' = Synced(k, s, e)
  /\ EndSync(k, s)
  /\ UNCHANGED <<strategy, policy, order, gauge, gens, changes, faults>>

(***************************************************************************)
(* list_tools returns.  A name conflict under policy "error" is handled    *)
(* like a failed list_tools.                                               *)
(***************************************************************************)
SyncReturns(k, s) ==
  /\ sync[<<k, s>>] # None
  /\ \E raw \in Offers[s] :
       LET tools == BuildToolDefinitions(s, raw)
           e == IF s \notin Registered THEN None
                ELSE IF tools = None THEN [entry[s] EXCEPT !.healthy = FALSE]
                ELSE Listed(entry[s], sync[<<k, s>>], tools)
       IN  entry' = Synced(k, s, e)
  /\ gauge' = ToolCount(order, entry')
  /\ EndSync(k, s)
  /\ UNCHANGED <<strategy, policy, order, gens, changes, faults>>

(***************************************************************************)
(* list_tools raises: the entry keeps its tools and becomes unhealthy.     *)
(***************************************************************************)
SyncFails(k, s) ==
  /\ sync[<<k, s>>] # None
  /\ faults < MaxFaults
  /\ faults' = faults + 1
  /\ entry' = Synced(k, s, IF s \in Registered
                           THEN [entry[s] EXCEPT !.healthy = FALSE] ELSE None)
  /\ gauge' = ToolCount(order, entry')
  /\ EndSync(k, s)
  /\ UNCHANGED <<strategy, policy, order, gens, changes>>

Next ==
  \E s \in Servers :
    \/ Register(s) \/ Deregister(s) \/ SetEnabled(s)
    \/ \E k \in Syncers : StartSync(k, s) \/ SyncReturns(k, s) \/ SyncFails(k, s)

Spec == Init /\ [][Next]_vars

(***************************************************************************)
(* The health sweep syncs every server again and again                     *)
(* (app/main.py, _health_sweep), and list_tools returns in the end.        *)
(***************************************************************************)
FairSpec ==
  /\ Spec
  /\ \A s \in Servers, k \in Syncers :
       WF_vars(StartSync(k, s)) /\ WF_vars(SyncReturns(k, s))

-------------------------------------------------------------------------------
(***************************************************************************)
(* Every qualified name the registry holds routes to the server and to the *)
(* tool it stands for: find_by_qualified_tool inverts                      *)
(* _build_tool_definitions, whatever registrations and syncs interleave.   *)
(***************************************************************************)
AdvertisedToolsRoute ==
  \A s \in Registered : \A td \in ToolsOf(s) :
    FindByQualifiedTool(td.qualified) = <<s, td.name>>

(***************************************************************************)
(* The tools of an entry were listed by its own client: a sync that began  *)
(* before the server was registered anew (at another URL, say) does not    *)
(* install the tools of the old one.                                       *)
(***************************************************************************)
ToolsOfOwnClient ==
  \A s \in Registered : entry[s].tools # <<>> => entry[s].from = entry[s].gen

(***************************************************************************)
(* "bare calls to those tool names will return 404" (routes.py, lines      *)
(* 142-143), of the names that list_conflicts returns.  It need not hold   *)
(* at once: a server keeps its bare names until its next sync.  But under  *)
(* the prefixing strategies and policy "warn" the sweeps settle it, once   *)
(* servers stop coming and going.  (Under "error" a server whose sync is   *)
(* refused keeps the names it had.)                                        *)
(***************************************************************************)
ConflictsSettle ==
  <>[](strategy # "bare" /\ policy = "warn" =>
         \A n \in ListConflicts : FindByQualifiedTool(n) = None)

(***************************************************************************)
(* The gauge of tools, which set_enabled and register leave stale, becomes *)
(* right again as long as some server is enabled and therefore synced.     *)
(***************************************************************************)
GaugeSettles ==
  <>[]((\E s \in Registered : entry[s].enabled) => gauge = ToolCount(order, entry))
===============================================================================
