------------------------------ MODULE JwksCache ------------------------------
(***************************************************************************)
(* Validation of agents' bearer tokens with the identity provider's keys   *)
(* (app/middleware/oidc.py, JWKSCache and the RS256 path of                *)
(* OIDCValidator.validate).  The key set is cached; a request fetches it   *)
(* when the cache has expired or lacks the key its token names.  Nothing   *)
(* excludes concurrent fetches, so their answers may be installed in       *)
(* another order than the provider wrote them.                             *)
(*                                                                         *)
(* The one suspension is the fetch.  A token is the key that signed it and *)
(* whether its header names that key (kid); claims are left out.           *)
(***************************************************************************)
EXTENDS Integers

CONSTANTS
  Requests,      \* requests that may be validated at the same time
  Kids,          \* the provider's keys
  Ttl,           \* jwks_cache_ttl
  Latency,       \* how long an answer of the provider may be under way
  MaxTime,       \* bound: how far the clock runs
  MaxRotations,  \* bound: changes of the provider's key set
  None           \* no key

ASSUME JwksAssumption ==
  /\ Ttl \in Nat
  /\ Latency \in Nat
  /\ MaxTime \in Nat
  /\ MaxRotations \in Nat
  /\ None \notin Kids

VARIABLES
  now,        \* time.monotonic()
  published,  \* the keys the provider publishes now
  last,       \* history: when each key was last published
  rotations,  \* changes of the key set so far
  keys,       \* _keys
  fetchedAt,  \* _fetched_at
  pc,         \* where each request is, and how it ended
  signer,     \* the key that signed each request's token
  named,      \* whether the token's header has a kid
  doc,        \* the document the provider answered each request with
  wrote,      \* when the provider wrote it
  steady      \* history: the signing key has been published ever since the
              \* request arrived

providerVars == <<published, last, rotations>>
cacheVars    == <<keys, fetchedAt>>
requestVars  == <<pc, signer, named, doc, wrote, steady>>
vars == <<now, providerVars, cacheVars, requestVars>>

TypeOK ==
  /\ now \in 0..MaxTime
  /\ published \subseteq Kids
  /\ last \in [Kids -> -1..MaxTime]
  /\ rotations \in 0..MaxRotations
  /\ keys \subseteq Kids
  /\ fetchedAt \in 0..MaxTime
  /\ pc \in [Requests -> {"idle", "fetch", "answered", "valid", "invalid", "failed"}]
  /\ signer \in [Requests -> Kids \union {None}]
  /\ named \in [Requests -> BOOLEAN]
  /\ doc \in [Requests -> SUBSET Kids]
  /\ wrote \in [Requests -> 0..MaxTime]
  /\ steady \in [Requests -> BOOLEAN]

(***************************************************************************)
(* A new validator.  The monotonic clock may start anywhere: the code      *)
(* takes the empty cache for one that was fetched at time 0.               *)
(***************************************************************************)
Init ==
  /\ now \in 0..MaxTime
  /\ published \in SUBSET Kids
  /\ last = [k \in Kids |-> IF k \in published THEN now ELSE -1]
  /\ rotations = 0
  /\ keys = {}
  /\ fetchedAt = 0
  /\ pc = [r \in Requests |-> "idle"]
  /\ signer = [r \in Requests |-> None]
  /\ named = [r \in Requests |-> FALSE]
  /\ doc = [r \in Requests |-> {}]
  /\ wrote = [r \in Requests |-> 0]
  /\ steady = [r \in Requests |-> FALSE]

-------------------------------------------------------------------------------
(***************************************************************************)
(* Time passes, but no answer is under way for longer than Latency: httpx  *)
(* gives up (timeout=10.0).                                                *)
(***************************************************************************)
ClockTick ==
  /\ now < MaxTime
  /\ \A r \in Requests : pc[r] = "answered" => now < wrote[r] + Latency
  /\ now' = now + 1
  /\ last' = [k \in Kids |-> IF k \in published THEN now' ELSE last[k]]
  /\ UNCHANGED <<published, rotations, cacheVars, requestVars>>

(***************************************************************************)
(* The provider adds and withdraws keys.                                   *)
(***************************************************************************)
Rotate ==
  /\ rotations < MaxRotations
  /\ rotations' = rotations + 1
  /\ published' \in SUBSET Kids
  /\ last' = [k \in Kids |-> IF k \in published' THEN now ELSE last[k]]
  /\ steady' = [r \in Requests |-> steady[r] /\ signer[r] \in published']
  /\ UNCHANGED <<now, cacheVars, pc, signer, named, doc, wrote>>

-------------------------------------------------------------------------------
Expired == now - fetchedAt > Ttl

\* Plausible fault: a key that is not in the cache is not looked for.
NeedsFetch_IgnoresKid(k, hasKid) == Expired

NeedsFetch(k, hasKid) == Expired \/ (hasKid /\ k \notin keys)

(***************************************************************************)
(* The token's signature verifies if its key is among K: with a kid that   *)
(* key alone is tried, without one all keys are.                           *)
(***************************************************************************)
Verdict(k, K) == IF k \in K THEN "valid" ELSE "invalid"

Arrive(r, k, hasKid) ==
  /\ pc[r] = "idle"
  /\ signer' = [signer EXCEPT ![r] = k]
  /\ named' = [named EXCEPT ![r] = hasKid]
  /\ steady' = [steady EXCEPT ![r] = k \in published]

(***************************************************************************)
(* get_key answers from the cache.                                         *)
(***************************************************************************)
FromCache(r, k, hasKid) ==
  /\ Arrive(r, k, hasKid)
  /\ ~NeedsFetch(k, hasKid)
  /\ pc' = [pc EXCEPT ![r] = Verdict(k, keys)]
  /\ UNCHANGED <<now, providerVars, cacheVars, doc, wrote>>

StartFetch(r, k, hasKid) ==
  /\ Arrive(r, k, hasKid)
  /\ NeedsFetch(k, hasKid)
  /\ pc' = [pc EXCEPT ![r] = "fetch"]
  /\ UNCHANGED <<now, providerVars, cacheVars, doc, wrote>>

(***************************************************************************)
(* The provider writes its answer to r.                                    *)
(***************************************************************************)
ProviderAnswers(r) ==
  /\ pc[r] = "fetch"
  /\ pc' = [pc EXCEPT ![r] = "answered"]
  /\ doc' = [doc EXCEPT ![r] = published]
  /\ wrote' = [wrote EXCEPT ![r] = now]
  /\ UNCHANGED <<now, providerVars, cacheVars, signer, named, steady>>

Forget(r) ==
  /\ doc' = [doc EXCEPT ![r] = {}]
  /\ wrote' = [wrote EXCEPT ![r] = 0]

\* Plausible fault: a fetch adds to the keys that are known.
Fetched_Merges(r) ==
  /\ pc[r] = "answered"
  /\ keys' = keys \union doc[r]
  /\ fetchedAt' = now
  /\ pc' = [pc EXCEPT ![r] = Verdict(signer[r], keys')]
  /\ Forget(r)
  /\ UNCHANGED <<now, providerVars, signer, named, steady>>

(***************************************************************************)
(* The answer arrives; it replaces the cached key set, even one that was   *)
(* written later, and r goes on with it at once.                           *)
(***************************************************************************)
Fetched(r) ==
  /\ pc[r] = "answered"
  /\ keys' = doc[r]
  /\ fetchedAt' = now
  /\ pc' = [pc EXCEPT ![r] = Verdict(signer[r], keys')]
  /\ Forget(r)
  /\ UNCHANGED <<now, providerVars, signer, named, steady>>

(***************************************************************************)
(* The fetch raises, or its request is cancelled.                          *)
(***************************************************************************)
FetchFails(r) ==
  /\ pc[r] \in {"fetch", "answered"}
  /\ pc' = [pc EXCEPT ![r] = "failed"]
  /\ Forget(r)
  /\ UNCHANGED <<now, providerVars, cacheVars, signer, named, steady>>

(***************************************************************************)
(* The request is over, and r stands for another one.                      *)
(***************************************************************************)
Leave(r) ==
  /\ pc[r] \in {"valid", "invalid", "failed"}
  /\ pc' = [pc EXCEPT ![r] = "idle"]
  /\ signer' = [signer EXCEPT ![r] = None]
  /\ named' = [named EXCEPT ![r] = FALSE]
  /\ steady' = [steady EXCEPT ![r] = FALSE]
  /\ UNCHANGED <<now, providerVars, cacheVars, doc, wrote>>

Next ==
  \/ ClockTick
  \/ Rotate
  \/ \E r \in Requests :
       \/ \E k \in Kids, hasKid \in BOOLEAN :
            FromCache(r, k, hasKid) \/ StartFetch(r, k, hasKid)
       \/ ProviderAnswers(r) \/ Fetched(r) \/ FetchFails(r) \/ Leave(r)

Spec == Init /\ [][Next]_vars

-------------------------------------------------------------------------------
(***************************************************************************)
(* A withdrawn key dies out: a token is accepted only if its key was       *)
(* published at most Ttl plus one Latency ago, although an older document  *)
(* may replace a newer one and starts a TTL of its own (_fetch).           *)
(***************************************************************************)
WithdrawnKeysExpire ==
  [][\A r \in Requests :
       pc[r] # "valid" /\ pc'[r] = "valid"
         => last[signer'[r]] >= 0 /\ now - last[signer'[r]] <= Ttl + Latency]_vars

(***************************************************************************)
(* "Falls back to re-fetching JWKS on unknown kid" (oidc.py, line 12): a   *)
(* token that names a key which the provider has published ever since the  *)
(* request arrived is not turned down, whatever other requests install in  *)
(* the cache meanwhile.                                                    *)
(***************************************************************************)
NewKeysAreFound ==
  \A r \in Requests : named[r] /\ steady[r] => pc[r] # "invalid"
==============================================================================
