# A TLA+ verification of the MCP gateway

The gateway (`src/app`) is an asyncio service between agents and upstream MCP
servers. Agents call tools over HTTP; the gateway identifies the agent, applies
its policies, forwards the call to the server that has the tool, redacts and
caches the answer and writes an audit record. It is one process and one event
loop. Two pieces of code interleave only where one of them awaits something that
really suspends; what runs between two suspensions is one step of our models.

This directory holds TLA+ modules translated from that code, TLC configurations
that check them on small instances, and proofs checked by TLAPS.
`PROJECT.json` lists components, runs, hazards, mutants, theorems and, for every
definition, the source lines it stands for.

## 1. Inventory

| Component (source) | State | Operations | What is hard | Correct if |
|---|---|---|---|---|
| Circuit breaker (`transport/circuit_breaker.py`) | state, failure count, probe count, time of opening | `before_call`, `on_success`, `on_failure` | outcomes arrive in a later state than the one that admitted the call; a cancelled call reports nothing | opens and closes only for the documented runs of outcomes, refuses for exactly the recovery time, recovers |
| Upstream client (`transport/mcp_client.py`) | session, exit stack, lock | `list_tools`, `call_tool`, `ping`, `close` | one session shared by concurrent operations that fail, retry, reset it and are cancelled; lock held across I/O | no session is lost but those whose opening failed, none is used after closing, one outcome per operation, nobody waits for ever |
| Registry (`registry/registry.py`) | ordered table of entries (client, tools, enabled, healthy), tool gauge | `register`, `deregister`, `set_enabled`, `sync_one`, `sync_all`, `find_by_qualified_tool`, `list_conflicts` | a sync writes to an entry it looked up before its await; names are composed against other servers' older lists | advertised names route to their tools, an entry has its own client's tools, conflicts settle |
| Orchestrator (`orchestrator/orchestrator.py`) | references to the policy objects | `call_tool`, `build_manifest` | policy objects are read before and after the upstream call | cached and served answers are fresh and were redacted by the redactor in force |
| Result and manifest cache (`cache/tool_cache.py`) | TTL stores | get, set, invalidate | fills by calls that began before a reload | as above |
| Hot reload (`admin/reload.py`) | `app.state.config` | `_do_reload` from SIGHUP or the API | awaits in the middle, overlap, exceptions half-way | a reload that nothing overlaps and that succeeds leaves the policies of one configuration in force, and the registry in line with it unless an earlier one failed; unchanged upstreams keep their sessions |
| Audit store (`audit/store.py`) | queue, batch, table | `record`, `_consumer`, `_flush`, `start`, `stop` | full queue, failed or interrupted commits, shutdown, crash | append-only, ordered, every entry accounted for once |
| Rate limiter (`middleware/ratelimit.py`) | a bucket per agent and per agent and tool | `check` | refill, capacity and refusals in any order | no window exceeds burst plus rate; the agent's limit covers all its tools |
| Token validation (`middleware/oidc.py`) | cached key set, time of fetch | `validate`, `get_key`, `_fetch` | unsynchronised concurrent fetches while keys rotate | withdrawn keys die out, published keys are found |
| Access control (`middleware/auth.py`) | none of its own | `identify`, `authorize_tool_call` | permissions are read when the request arrives and applied later, perhaps under another policy | a call passes only for its own agent, with the permissions that agent had, and mutable tools only as the policy in force allows |
| Upstream credentials (`transport/auth_provider.py`) | cached OAuth2 token, lock | `get_headers`, `_fetch_token` | expiry is counted from the arrival of the token; concurrent callers | a token handed out is still valid; no needless fetch; every caller returns |
| Webhooks (`webhooks/dispatcher.py`) | sequence number, HTTP client with its pool | `dispatch`, `_deliver`, `close` | lost answers, retries, a pool shared by slow and fast endpoints, reloads that close the dispatcher under its tasks | bounded attempts, no event lost without a named reason, ids tell events apart, replaced dispatchers are closed |
| Streamed calls (`api/routes.py`) | one task per stream | `call_tool`, `call_tool_stream`, `event_source` | heartbeats, disconnects, shielded task | start, progress, one final event; neither heartbeats nor a disconnect stop a call; once the call is over, so is the stream |
| Health sweep, lifespan (`main.py`) | background task | start-up, sweep, shutdown | order of shutdown | the sweep appears as fairness |
| Other routes, guardrails, configuration, logging, metrics, redaction | none that changes | – | – | not modelled, see section 7 |

How they interact: a route asks the authorizer for the principal and calls the
orchestrator. The orchestrator resolves the name in the registry, asks
authorizer, rate limiter, safety filter and schema validator, looks into the
cache, and calls the client of the registry entry. The client asks its circuit
breaker, gets or opens the session, retries, and reports the outcome to the
breaker. The answer is redacted and cached, an audit entry is queued and a
webhook event fired. In the background the health sweep syncs every enabled
server and the audit consumer flushes its queue. A reload changes the registry
and replaces the orchestrator's policy objects one after the other while all of
this goes on.

## 2. Modules

| Module | Models | Composition |
|---|---|---|
| `CircuitBreaker` | the breaker object: fields and operations | used by the next two |
| `GatedCalls` | a breaker driven by overlapping calls | extends `CircuitBreaker` |
| `McpClient` | one upstream client with its breaker | extends `CircuitBreaker` |
| `LossyLog` | abstract: an append-only log that may lose entries before they are written | – |
| `AuditStore` | the audit store, crashes and restarts | implements `LossyLog` |
| `Orchestrator` | tool calls, caches and hot reload | – |
| `Registry` | the registry and its syncs | – |
| `RateLimiter` | the buckets of one agent | – |
| `JwksCache` | token validation with rotating keys | – |
| `AccessControl` | who is calling and may they: operators on a policy | used by the next one |
| `StreamedCalls` | a tool call over HTTP, plain or streamed, while reloads replace the policy | extends `AccessControl` |
| `UpstreamReload` | what reloads and the API do to the registry's table | – |
| `Webhooks` | webhook dispatchers, their deliveries and their replacement | – |
| `TokenProvider` | the OAuth2 token of one upstream | – |
| `MC...` | constants and symmetry for TLC | extend the module they name |
| `McpClientProofs` | theorems | extends `McpClient` and `GatedCalls`, which share the breaker |
| `CallPolicyProofs` | theorems | extends `RateLimiter` and `StreamedCalls`: what a call has to pass |
| `RegistryProofs` | theorems | extends `Registry` and `UpstreamReload`: the table of servers and its reloads |
| other `...Proofs` | theorems | extend the module they name |

Definitions named `X_...` behind a comment "Plausible fault" are faulty variants
of `X`. They are not part of any specification; substituting one for `X` must
make TLC report the property that `PROJECT.json` pairs it with.

Two modules whose theorems share a proof module keep their specifications apart:
those of `GatedCalls`, `RateLimiter` and `UpstreamReload` are called `GateSpec`,
`LimiterSpec` and `UpstreamSpec`, and so on.

### How state and actions correspond to the code

**CircuitBreaker, GatedCalls.** `state`, `failures`, `probeOk` are the fields of
the class. The code compares `monotonic() - _opened_at` with the recovery time
and nothing else, so `elapsed` is that difference, cut off at `RecoveryTimeout`.
`BeforeCall`, `OnSuccess`, `OnFailure` are the three methods. In `GatedCalls`
admission and outcome of a call are separate steps; `Cancelled` is a call whose
task is cancelled, for which no handler runs. `failRun` and `okRun` are history:
what the documentation means by consecutive failures and successes.

**McpClient.** A task runs one operation. `pc` says where it is suspended:
waiting for the lock to get a session (`get`), opening one (`open`), waiting for
the answer (`wait`), waiting for the lock to reset (`reset`), closing
(`aclose`). `session` and `stack` are the fields, `live` the sessions that are
really open, `lock` the task that holds the lock across a suspension. `Raise`
is the decision which exceptions are retried, reported and reset. `Cancel`
releases what `async with` releases and runs no `except Exception` handler.
`_open_session` enters transport and session on a local exit stack; if
`initialize()` then raises, or the task is cancelled there, that stack is neither
closed nor assigned to `_stack`, and what it holds stays open (`LeavesOpen`).
The history variable `abandoned` keeps these sessions apart from the others.

**AuditStore.** `Record` is `put_nowait`, with the drop when the queue is full.
`TakeBatch` and `Commit` are the two halves of `_flush` around its await, run by
the consumer and once by `stop()`. A commit that raises, is cancelled or dies
with the process may or may not have taken effect. An entry is its number in the
order of recording.

**Orchestrator.** Every policy object is represented by the version of
`gateway.yaml` it was built from, and every registered server by the version its
record is from (`servers`). A call before its upstream await is one step
(the locks on that path are never held across a suspension): `Unresolved`,
`Rejected`, `CacheHit` or `Send`; `Finish` and `FinishError` are what follows
the await and use the objects in force by then. A reload compares the file with
`app.state.config` (`LoadConfig`), not with the registry, and works through the
difference server by server (`Deregister`, `UpdateUpstream`), suspended at every
registry operation; then it replaces the policies (`SwapPolicies`, or
`SwapFails`), and is suspended once more in `old_dispatcher.close()`.

**Registry.** `order` and `entry` are the dictionary; `gen` identifies an entry
object and its client. `BuildToolDefinitions` and `FindByQualifiedTool` are
translations of the naming and routing code (`DefineNext` is one turn of its
loop); names, prefixes and server ids are sequences of characters, and a composed
name is their concatenation, so that it can meet names an upstream chose and other
composed names. (For TLC a character is a whole word, `.` or `_`.) `sync` holds
the entry object a running `sync_one` looked up.

**RateLimiter.** Both buckets of a call, in the code's order. Tokens are integer
units (`Cost` per call) so that fractional rates occur. `win`, `spent` and
`admitted` are history: a window that may begin at any time.

**JwksCache.** `keys`, `fetchedAt` are the fields. A fetch has two ends, the
provider writing its document and the gateway installing it. `last` is history:
when a key was last published.

**AccessControl, StreamedCalls.** `Identify`, `Can` and `AuthorizeToolCall` are
`identify`, `can` and `authorize_tool_call` as operators on a policy record.
`app.state.authorizer` (`identifier`) and `orchestrator.authorizer` (`enforcer`)
are two variables, because a reload replaces the second long before the first. A
request is identified, suspends, and is authorized by whatever is in force then.
`task` is the shielded task of a stream; the client may leave at any suspension.
Heartbeats go on for as long as the call does, which nothing limits; the first
`MaxProgress` of them are recorded.

**UpstreamReload.** `table` is `_entries`; `old`, `new`, `gone`, `todo` are the
local variables of a running `_do_reload`, which may be suspended at every
registry operation. A client remembers the address it was created for
(`table[id].url`), which differs from its record after a change in place.

**Webhooks.** A dispatcher is the number of its creation. `Dispatch` gives the
event its id and starts one task per interested endpoint; `pc` is where a task
is suspended: waiting for a connection (`post`), for the answer (`sent`), or
between attempts (`sleep`). A reload closes the old dispatcher and, after that
suspension, installs the new one. `taken` is history kept by the endpoint.

**TokenProvider.** `cached`, `expiresAt`, `lock` are the fields; `endsAt` is when
the server stops accepting the token, which the gateway cannot see.

## 3. Runs

Passing runs:

| Run | Module, cfg | Instance | Shows |
|---|---|---|---|
| `breaker` | `GatedCalls` | 3 calls, threshold 3, 2 probes, recovery time 2, 8 faults | late and missing outcomes never open, close or prolong the circuit for a wrong reason; once failures stop it closes for good |
| `client` | `MCMcpClient`, `McpClient` | call, list, ping and close, 3 attempts, 1 cancellation, threshold 1, 2 sessions | no session lost but those whose opening failed or was cancelled, none handed out closed, one report per operation, no deadlock on the lock, every operation ends |
| `audit_log` | `AuditStore` | queue of 3, batches of 2, 6 entries, 2 faults | every entry accounted for once and in order; the table refines `LossyLog`; the queue drains |
| `calls_and_reloads` | `MCOrchestrator`, `OrchestratorReloads` | 2 requests of one tool, 2 servers, 2 reloaders, 3 versions of which one is invalid | caches hold only what the policies in force produced, no stale manifest survives, a successful reload without overlap leaves its own policies, and its own records of the servers it names |
| `registry` | `MCRegistry` | 2 servers with a common tool and a lookalike name, 3 registrations, 2 changes, 1 failed sync, all strategies and policies | every advertised name routes to its tool; an entry never gets another client's tools; sweeps settle conflicts and the gauge |
| `rate_limits` | `MCRateLimiter` | 2 tools, half-token rates, a rate of 0, 5 time units | no window of any bucket exceeds burst plus yield; the agent's limit covers all tools |
| `jwks` | `MCJwksCache` | 2 concurrent requests, 2 keys, TTL 2, latency 1, 2 rotations | withdrawn keys are accepted for at most TTL plus latency; published keys are found |
| `webhooks` | `MCWebhooks` | 3 endpoints (reliable, unreliable, `max_retries` 0), one connection, 2 events, 2 reloads | bounded attempts, losses only for the named reasons, ids tell a dispatcher's events apart, replaced dispatchers are closed, every delivery ends |
| `streams` | `MCStreamedCalls` | 1 request by any of 3 agents, with any header and token, 2 tools, 4 policies | calls pass only as the policies allow although they change under the request; streams are well formed; heartbeats and disconnects do not stop a call; a stream whose call is over ends |
| `tokens` | `TokenProvider` | 2 callers, lifetimes 2 and 4, buffer and latency 1, 1 fault | tokens handed out are valid, one fetch at a time and only when needed, every caller returns |
| `upstream_reload` | `MCUpstreamReload` | 3 ids, 4 files of which one is invalid, 2 reloaders, 1 API operation | the registry follows the file, unchanged upstreams keep their client, servers of the API survive |

A run in which TLC refutes what a comment says:

| Run | Statement | What happens |
|---|---|---|
| `audit_stop` | "Append-only audit record for every tool invocation attempt" (`audit/models.py:16`) | `stop()` flushes one batch; what is queued beyond it is never written, without any fault |

### Why the bounds are enough

Each bound lets the case a property is about happen at least twice or from both
sides. Three overlapping calls against a threshold of 3 and two probes allow an
outcome to arrive in any later state; 8 faults allow two complete
open/half-open/open cycles. A queue of 3 with batches of 2 overflows, leaves a
partial batch, and has entries left after one flush. One operation of each kind
produces every overlap of open, use and reset, and a circuit that one opens
refuses the other; the third attempt separates first, middle and last. The
instance is small because the safety of the client is proved for every number of
operations. Two sessions let one opening fail and leave its session behind before
the next. Two reloaders with three versions allow an overlap followed by a clean
reload, and a failed one before or after; the file that fails moves one server and
drops the other, and the next one names both again. `Rejections` and `Failures`
have one member each, since the code after a rejection or a failure is the same
for all; one tool that may be cached is enough, since entries of different tools
never meet. (`TaskSymmetry` exchanges requests, and reloaders; the run has no
liveness property.) Two servers suffice
for name conflicts, which are between pairs; three registrations allow a
replacement during a sync. TTL 2 with latency 1 over 5 time units lets a key
expire, come back with an older document and expire again; with the bound lowered
by one `WithdrawnKeysExpire` fails, so the bound is tight. One connection and two
endpoints with two attempts each let a delivery starve wholly or in part; two
reloads let a dispatcher be installed during an overlap and be replaced. All
events fall into one second, in which ids have only the counter to tell them
apart. Requests do not interact in `StreamedCalls` (they share nothing but the
policies), so one request that may be anybody's is enough; four policies switch
each of access control, OIDC, permissions and the mutable list at least once. In
`UpstreamReload` one id changes in place and moves, one comes and goes, one is
known to the API alone, and one file fails. `TokenProvider` has a token that is
due at once and one that outlives a refresh.

`CHECK_DEADLOCK FALSE` appears where the bounded environment may simply stop
(`AuditStore`, `Registry`, `Webhooks`, `StreamedCalls`). `client` checks deadlock:
`Quiet` is the only way to stand still, and it requires all operations to have
ended.

## 4. Fairness

That a request ends is an assumption about the environment wherever it is made.
The code does not enforce it: no request of a session has a read timeout
(`mcp_client.py:236`), httpx times each read and not the request
(`registry.py:62`, `dispatcher.py:97`), and `request_timeout_seconds` is only told
to the client, in a header (`routes.py:222`). An upstream that keeps its connection
busy without ever answering keeps its callers waiting.

* `GatedCalls`: the clock runs; an upstream that does not fail answers (assumed of
  the environment); somebody keeps calling, because `_health_sweep` syncs
  every enabled server once per interval. The last assumption fails if the sweep
  is switched off and no agent calls; then an open circuit stays open until the
  next call.
* `McpClient`: a started operation goes on: `asyncio.Lock` serves waiters in order,
  and the upstream answers or its connection breaks (assumed of the environment).
  What `EveryOperationEnds` shows is that nobody is left on the lock. No fairness on
  `Cancel` or on the beginning of operations.
* `Webhooks`: a delivery task goes on (the wait for a connection is timed and pauses
  end; that a post ends is assumed of the endpoints), and so does a reload suspended
  in `close()`.
* `StreamedCalls`: the call's task is started and the stream's generator is resumed.
  Nothing is assumed of upstreams or clients; `BegunCallsEnd` speaks of calls whose
  upstream answers and says so (`UpstreamAnswers`), `FinishedCallsAreAnswered` of
  calls that are over.
* `TokenProvider`: the request returns or raises. Strong fairness on taking the
  lock, because `asyncio.Lock` serves its waiters in order.
* `AuditStore`: the consumer's sleep ends, and its commits return or raise.
* `Registry`: every registered, enabled server is synced again and again
  (`_health_sweep`), and `list_tools` returns unless it fails, which it does a
  bounded number of times.

Nothing else is assumed fair. In particular calls, reloads, crashes and
restarts need never happen.

## 5. Proofs

TLAPS proves the following for every value of the constants; assumptions on
constants are the named `ASSUME`s of the modules, all of the form "is a natural
number" or "is a fresh value", except that `TokenAssumption` wants the buffer to
cover the latency and lifetimes to exceed it. (`RegistryAssumption` and
`ReloadAssumption` also give tool lists and files their types; `NameAssumption` says
that names and ids are sequences of characters, `.` and `_` among them.)

**`McpClientProofs`** — the client and its breaker. `TypeCorrect`,
`NoSessionIsLost`, `SessionsAreOpen`, `OutcomesReportedOnce`, for any set of
operations, attempts and cancellations. `SessionInv` adds that a task inside
`open` or `aclose` holds the lock and no session is set meanwhile, and that an
open session that is neither set nor abandoned is being closed. `ReportInv` ties
what a task has reported to where it is suspended: nothing while in progress or
about to retry, exactly one outcome from then on; the task that closes the client
never makes an attempt.

About `GatedCalls`: `GateTypeCorrect`, `ClosedIsHealthy`, `TripsCorrectly`,
`ClosesCorrectly`, `RefusalPeriodIsFixed`. None of the properties is inductive:
they speak of history, the code of counters. The invariant `GateInv` adds
`CountersFollowRuns`: a closed circuit counts exactly the current run of
failures, a half-open one only successes of the current run. Of an open circuit
nothing of the kind holds, because earlier calls keep reporting to it.

**`CallPolicyProofs`** — the rate limiter: `LimiterTypeCorrect`,
`NoWindowExceeds`, `AgentIsCapped`. The strengthening `Budget` counts tokens spent
in the window and tokens left together, at the moment the bucket was last used:
their sum is at most the capacity plus the yield of the rate since the window
began, and a bucket last used before the window has spent nothing in it. The
agent's cap follows because every admitted call was charged to the agent's bucket.

Streamed and plain calls: `StreamTypeCorrect`, `StreamsAreWellFormed`,
`CallsAreAuthorized`, for any requests, tools and sequence of policies. Neither
property is inductive, since both join what happened at different suspensions.
`IdentityInv` keeps, from the identification on, the principal that the policy of
the *arrival* makes of header and token, and ties the call's task to where the
request is; `DecisionInv` keeps that this principal met the policy of the
*decision*; `EventInv` gives the whole stream for every place the generator can
be suspended at (start and heartbeats so far, and once closed one final event
that agrees with the task). A step changes one request, so each action is shown
to keep the invariant of its own request (`Kept`) and to leave the others alone.

**`RegistryProofs`** — the registry: `RegistryTypeCorrect`, `ToolsAreOfOwnClient`,
`AdvertisedNamesRoute`, `PlainNamesAreRouted`, `AdvertisedNamesResolve`, for all
servers, prefixes, tool lists, syncs and registrations. `RegistryInv` adds
`NamesUnique`: unless the policy is `suffix`, no two definitions in the table have
the same qualified name. That it is kept rests on what `_build_tool_definitions`
returns (`BuildCorrect`): definitions whose names differ from each other and from
those of every other server *at the moment they are installed* - the list is
computed after the await, against the table of then, and no other step adds names.
An induction over the raw list shows it: the set of positions at which the
accumulator is wrong would have a least element (`LeastElement`, from the
well-foundedness of the natural numbers), and it has none. The same argument gives
the recursive function its value in the first place. Routing then needs only that
the first exact match is the only one.

Under `suffix` routing is not right for every tool list (`registry.py:261`), so
`PlainNamesAreRouted` names what it needs (`PlainNames`): no tool of a server is
named like another of its tools behind the server's own prefix and a dot, none
ends, prefixed or not, in `_` and a server's id, and no id ends in `_` and another
server's id. (The last is not academic, since `config.py:65` allows any id: with
servers `b` and `a_b`, the names `x_a` and `x` would both become `x_a_b`.) With it
every policy, `suffix` included, routes every advertised name to its own tool. The
argument needs one more part of the invariant, `NamesComposed`: every definition
is the raw name, with or without prefix and suffix, and of two servers'
definitions under one name at least one is suffixed, since an unsuffixed name was
compared with the names taken. A suffixed name then tells its server and what
stands before the suffix (`SuffixDetermines`: of two ids behind the same mark the
longer would end in the mark and the shorter, by `LongerTail`), no unsuffixed name
ends like one, and a prefix can be told from a raw name. The instance of the run
`registry` satisfies `PlainNames` although pg offers `docs.search`, because `docs`
is not pg's own prefix. Without `PlainNames` what holds under `suffix` is
`AdvertisedNamesResolve`: the name leads to a tool that is listed under it.

Hot reloads of the table: `UpstreamTypeCorrect`, `ReloadsAreFollowed`,
`SessionsAreKept`, `ApiServersAreKept`, for any files, reloading tasks and API
calls. `PlanInv` says that what a reload has still to do comes from the two files
it compares, and that a half-finished replacement is of a server whose connection
differs; it holds for overlapping and failing reloads too, and the two action
properties follow from it. `CleanInv` speaks of the time before the first overlap
or failure: at most one reload runs, it started from `app.state.config`, what it
has done follows the new file and what it has still to do the old one.

**`JwksCacheProofs`** — `TypeCorrect`, `RevocationTakesEffect`,
`PublishedKeysAreFound`. `DocumentsAreRecent` bounds the age of a document under
way, `CacheIsRecent` says the cached set is at most one latency older than
`_fetched_at` claims, whichever fetch installed it; `SteadyKeys` follows a
published key into the document that answers its request.

**`AuditStoreProofs`** — `TypeCorrect`, `ImplementsLog`, `RowsStayInOrder`,
`EveryEntryIsAccounted`, for every queue size, batch size and number of faults.
`Exclusive` says that at most one task is inside `_flush`. With it every step,
crashes included, is one of seven moves on the table, the batch and the queue
(`LogMove`). Each move is a step of `LossyLog` or a stutter, which is the
refinement; keeps table, batch and queue sorted when taken as one sequence; and,
since entries in strict order are distinct, keeps the account of entries.

**`OrchestratorProofs`** — `TypeCorrect`, `CacheIsClean`, `ManifestIsCurrent`,
`AnswersAreFresh`, `ReloadsAreComplete`, for any number of calls, reloads and
reloading tasks and any set of invalid versions. The first two properties except
a reload that failed half-way by comparing two objects in force. `CleanInv` shows
why no later sequence of reloads makes the two equal by accident: the guards are
never of a failing version, and the redactor differs from them only by being of
one. `ManifestInv`: a manifest of other servers than those in force means that a
reload failed half-way or that one which will empty the cache is still on its way.
`AloneInv` follows a reload that nothing overlaps through what it has replaced: the
servers that its file names and that it has gone through have their records from
that file, or were taken for unchanged and are missing. That exception is real:
after a reload that failed half-way the comparison is with a configuration the
registry no longer follows. When the registry is exactly the file's is
`RegistryFollowsConfig`.

**`TokenProviderProofs`** — `TypeCorrect`, `AlwaysValid`, `SingleFlight`. A token
is measured by two clocks. `FetchInv` bounds the time an answer is under way,
`CacheInv` concludes that the gateway overestimates the end of its token by one
latency at most, which the buffer covers; `LockInv` says that a caller that
fetches holds the lock and the cached token stays expired under it.

**`WebhooksProofs`** — `TypeCorrect`, `AttemptsAreBounded`, `NothingIsLost`,
`IdsTellEventsApart`, `DispatchersAreClosed`. `Progress` says what the attempts of
a delivery have come to while it is under way: at most one intake per attempt,
and at an endpoint that never fails only attempts that got no connection.
`SeqInv` bounds the ids given out by `_seq`. `CloseInv`: while a reload is
suspended in `close()`, the dispatcher in force is closed or was installed during
an overlap.

Proved and left to the proofs: the type invariants of `GatedCalls`, `McpClient`,
`RateLimiter`, `JwksCache`, `AuditStore`, `Orchestrator`, `TokenProvider` and
`Webhooks`, and `ClosedBelowThreshold`, `InOrder` and `FreshAnswers`. The runs
check everything else named here.

Every invariant and every action property that a run checks is proved;
`AdvertisedToolsRoute` without further condition under the policies `warn` and
`error`, and under `suffix` for the tool lists that satisfy `PlainNames`.
Only model-checked: all liveness (`Recovers`, `QueueDrains`,
`EveryOperationEnds`, `ConflictsSettle`, `GaugeSettles`, `EveryDeliveryEnds`,
`BegunCallsEnd`, `FinishedCallsAreAnswered`, `CallersReturn`). It needs `ENABLED`,
which the prover does not reason about.

## 6. Assumptions and abstractions

* The MCP SDK, httpx, the database and the upstreams are external: any of their
  operations may return or raise. Closing an exit stack releases its session, even
  if the closing task is cancelled. A session whose opening failed after its
  transport was entered counts as open for good: the gateway gives up the only
  reference to its exit stack (`mcp_client.py:121-139`) without closing it, and
  whether the interpreter's collector ends it later is external.
* asyncio's lock is modelled without its queue: any waiter may be next. Safety is
  therefore shown for every order.
* `McpClient`: pauses between attempts have no length; headers are left out; a
  session is told apart from those open at the same time, and its name may be used
  again once it is closed. The number of sessions left behind is bounded by that
  of the names.
* `AuditStore`: entries have no content; a crash leaves the committed rows.
* `Orchestrator`: the four checks may reject any call; names and arguments are one
  value; tasks are not cancelled; a reload takes servers up in any order and may
  be suspended after an update in place too, which adds behaviours; clients, syncs
  and registrations through the API are left to `Registry` and `UpstreamReload`;
  webhook events are left out. The breakers' thresholds and the naming strategy
  are among the objects built from the file and are replaced by no reload.
  `CachedContentIsClean` and `ManifestFollowsReload` exclude the time after a
  reload that failed half-way, when the redactor is new and the cache old: that is
  what the code does, and the next successful reload ends it.
  `SuccessfulReloadIsComplete` leaves out breakers and naming, and lets a server
  that the comparison took for unchanged be missing.
* `Registry`: `deregister` recomputes the gauge after closing the client, the
  model at once. In the instance no upstream tool ends in `_<server id>`, no id in
  `_` and another id, and every server has its own prefix (see section 8).
  `ConflictsSettle` is stated for policy `warn`; under `error` a server whose sync
  is refused keeps the names it had.
* `UpstreamReload`: a reload takes servers in any order (the code in that of sets
  and of the file) and may also be suspended after an update in place; both only
  add behaviours. The properties except ids that API clients used.
* `Webhooks`: the endpoints are the same before and after a reload; pauses have no
  length; a request that raises may or may not have been taken in.
* `StreamedCalls`: what `call_tool` does besides authorizing is left to
  `Orchestrator`; of the heartbeats, which may go on for ever, the first
  `MaxProgress` are recorded.
* `TokenProvider`: that callers are concurrent is the contract of the class; in
  the gateway each client calls its provider under its own lock.
* `RateLimiter`: one agent; keys of different agents and tools are taken to be
  distinct. A reload installs new buckets, so windows do not extend over it.
* `JwksCache`: `Latency` bounds the time between the provider writing its document
  and the gateway installing it (httpx: 10 seconds per read). Claims are not
  checked; one validator lives from one reload to the next.

## 7. Not modelled

* Guardrails and schema validation: stateless; regular expressions and a
  third-party JSON Schema validator over the text of the arguments. Their effect
  on a call (reject or pass) and on a reload (an invalid pattern raises) is in
  `Orchestrator`.
* Redaction: regular expressions and a third-party analyser over text. The
  version of the redactor stands for what it produces.
* Configuration models: declarations without behaviour; their values are the
  constants of the modules.
* Logging and metric export: output only, except the gauge in `Registry`.
* The other routes: adapters of one operation each, which is modelled at its
  component; the read-only audit query and statistics.
* Start-up: runs once, in straight line, before any request.

## 8. Observations without a run of their own

Met while modelling; each is behaviour of the models or outside their instances.

* Headers with the caller's id go out when a session is opened, and the session
  is then shared by all agents; `mcp_client.py:12-14` promises that upstreams can
  attribute each call to its agent.
* An opening that fails or is cancelled after the transport was entered leaves
  transport and session open (`mcp_client.py:121-139`): the exit stack is a local
  variable and nothing closes it. Each of the three attempts may leave one.
* Nothing ends a call whose upstream keeps the connection alive and never answers:
  the client passes no read timeout, `timeout_seconds` of a server is used by no
  call, and a stream sends heartbeats for as long (`routes.py:199-204`).
* An operation in flight opens a new session on a client that was closed, and
  nobody closes that one; `reload.py:24-25` speaks of closed sessions.
* Two overlapping reloads leave a mixture of two configurations (`routes.py:232`)
  and may replace a dispatcher without closing it.
* After a reload that failed half-way the next one compares the file with
  `app.state.config`, which the failed one did not replace: servers the failed
  reload added may stay although no file names them, one it removed may stay away
  although the file names it, and a client may keep an old address
  (`reload.py:53`). That is why `SuccessfulReloadIsComplete` claims less for the
  servers than for the policies.
* An update in place does not rebuild the credentials of the client, although the
  comment at `reload.py:73` lists auth.
* `AgentPrincipal.can` knows `*` and exact names only; the pattern `search.*` in
  `README.md:98` grants nothing. An empty list of permissions grants every tool.
* A principal's permissions are those of the policy in force when the request
  arrived; the list of agents that may call mutable tools is that of the policy
  in force when the call is decided.
* A 4xx answer ends a webhook delivery as delivered; `max_retries` 0 sends
  nothing; ids may repeat when a reload takes less than a second.
* A mutable tool is called again after a timeout, and may take effect twice.
* `Draft7Validator(schema)` does not raise `SchemaError`
  (`schema_validator.py:54-56`): an invalid schema shows up at validation only.
* The breaker admits every caller while half-open; the comment at
  `circuit_breaker.py:70` reads as if there were one probe. A retry inside an
  operation does not ask the breaker again.
* A cache hit returns before `_emit_audit` (`orchestrator.py:225`); the audit log
  has no record of it, although `audit/models.py:16` speaks of every attempt.
* An invalid guardrail regex makes a reload fail at `reload.py:89` with the
  upstreams, authorizer and redactor already replaced.
* The module comment of `reload.py` (lines 13-14) lists circuit-breaker
  thresholds and the naming strategy among what is reloaded; `_do_reload` touches
  neither.
* Denied and rate-limited calls dispatch no webhook event, although
  `dispatcher.py:3-5` lists `auth_deny` and `rate_limit` among the events fired.
* A suffixed name is not compared with the names taken (`registry.py:261`), and two
  of them coincide if an id ends in `_` and another id. Which
  of two servers keeps a bare name depends on the order of syncs, not of
  registration.
* Two servers with the same prefix and a common tool name may take the name from
  each other at alternate syncs.
* A rate of 0 divides by zero when a call is refused (`ratelimit.py:66`).
* An empty key cache counts as fetched at time 0 (`oidc.py:58`): while the
  monotonic clock is below the TTL, tokens without `kid` are checked against no
  keys at all.

## 9. Plan

Done, in this order: circuit breaker, audit store, upstream client, calls and
reloads, registry, rate limiter, key cache, webhooks, access control and streamed
calls, token provider, reload against the registry; proofs of the safety of all
of them.

Next, most important first:

1. The safety half of the liveness properties: that no step leads away from what
   `GaugeSettles` and `ConflictsSettle` settle on, other than those they except.
2. An abstract cache with bounded staleness, implemented by the result store, the
   key cache and the token cache, and the three refinements proved.
3. Shared prefixes in `Registry`, and tools and ids that end in a server's id.
