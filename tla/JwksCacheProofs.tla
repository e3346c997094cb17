--------------------------- MODULE JwksCacheProofs ---------------------------
(***************************************************************************)
(* Proofs about JwksCache, for any number of concurrent requests, any set  *)
(* of keys, any TTL and any latency.                                       *)
(***************************************************************************)
EXTENDS JwksCache, TLAPS

(***************************************************************************)
(* A document under way is no older than Latency, and it held keys that    *)
(* were published when it was written; so the cache, whichever document it *)
(* holds, is at most Latency older than it believes.                       *)
(***************************************************************************)
PublishedNow ==
  \A k \in Kids : last[k] <= now /\ (k \in published => last[k] = now)

DocumentsAreRecent ==
  \A r \in Requests : pc[r] = "answered" =>
    /\ wrote[r] <= now /\ now <= wrote[r] + Latency
    /\ \A k \in doc[r] : wrote[r] <= last[k]

CacheIsRecent ==
  \A k \in keys : 0 <= last[k] /\ fetchedAt <= last[k] + Latency

(***************************************************************************)
(* A key published ever since its request arrived is published now, and is *)
(* in the document that answers the request.                               *)
(***************************************************************************)
SteadyKeys ==
  \A r \in Requests : steady[r] =>
    /\ pc[r] # "idle"
    /\ signer[r] \in published
    /\ pc[r] = "answered" => signer[r] \in doc[r]

Inv == TypeOK /\ PublishedNow /\ DocumentsAreRecent /\ CacheIsRecent
         /\ SteadyKeys /\ NewKeysAreFound

(***************************************************************************)
(* A new validator satisfies the invariant.                                *)
(***************************************************************************)
LEMMA InitInv == Init => Inv
BY JwksAssumption DEF Init, Inv, TypeOK, PublishedNow, DocumentsAreRecent,
   CacheIsRecent, SteadyKeys, NewKeysAreFound

(***************************************************************************)
(* Every step preserves the invariant.                                     *)
(***************************************************************************)
LEMMA StepInv == Inv /\ [Next]_vars => Inv'
<1> SUFFICES ASSUME Inv, [Next]_vars PROVE Inv'
  OBVIOUS
<1> USE JwksAssumption DEF Inv
<1>1. CASE ClockTick
  <2> USE <1>1 DEF ClockTick, cacheVars, requestVars
  <2>1. \A k \in Kids : last[k] <= last'[k]
    BY DEF TypeOK, PublishedNow
  <2>2. TypeOK'
    BY DEF TypeOK
  <2>3. PublishedNow'
    BY DEF TypeOK, PublishedNow
  <2>4. DocumentsAreRecent'
    BY <2>1 DEF TypeOK, DocumentsAreRecent
  <2>5. CacheIsRecent'
    BY <2>1 DEF TypeOK, CacheIsRecent
  <2>6. SteadyKeys' /\ NewKeysAreFound'
    BY DEF SteadyKeys, NewKeysAreFound
  <2> QED BY <2>2, <2>3, <2>4, <2>5, <2>6
<1>2. CASE Rotate
  <2> USE <1>2 DEF Rotate, cacheVars
  <2>1. \A k \in Kids : last[k] <= last'[k]
    BY DEF TypeOK, PublishedNow
  <2>2. TypeOK'
    BY DEF TypeOK
  <2>3. PublishedNow'
    BY DEF TypeOK, PublishedNow
  <2>4. DocumentsAreRecent'
    BY <2>1 DEF TypeOK, DocumentsAreRecent
  <2>5. CacheIsRecent'
    BY <2>1 DEF TypeOK, CacheIsRecent
  <2>6. SteadyKeys' /\ NewKeysAreFound'
    BY DEF TypeOK, SteadyKeys, NewKeysAreFound
  <2> QED BY <2>2, <2>3, <2>4, <2>5, <2>6
<1>3. ASSUME NEW r \in Requests, NEW k \in Kids, NEW hasKid \in BOOLEAN,
             FromCache(r, k, hasKid)
      PROVE  Inv'
  <2> USE <1>3 DEF FromCache, Arrive, Verdict, providerVars, cacheVars
  <2>1. TypeOK'
    BY DEF TypeOK
  <2>2. PublishedNow' /\ DocumentsAreRecent' /\ CacheIsRecent'
    BY DEF TypeOK, PublishedNow, DocumentsAreRecent, CacheIsRecent
  <2>3. SteadyKeys'
    BY DEF TypeOK, SteadyKeys
  <2>4. NewKeysAreFound'
    BY DEF TypeOK, NewKeysAreFound, NeedsFetch
  <2> QED BY <2>1, <2>2, <2>3, <2>4
<1>4. ASSUME NEW r \in Requests, NEW k \in Kids, NEW hasKid \in BOOLEAN,
             StartFetch(r, k, hasKid)
      PROVE  Inv'
  <2> USE <1>4 DEF StartFetch, Arrive, providerVars, cacheVars
  <2>1. TypeOK'
    BY DEF TypeOK
  <2>2. PublishedNow' /\ DocumentsAreRecent' /\ CacheIsRecent'
    BY DEF TypeOK, PublishedNow, DocumentsAreRecent, CacheIsRecent
  <2>3. SteadyKeys' /\ NewKeysAreFound'
    BY DEF TypeOK, SteadyKeys, NewKeysAreFound
  <2> QED BY <2>1, <2>2, <2>3
<1>5. ASSUME NEW r \in Requests, ProviderAnswers(r) PROVE Inv'
  <2> USE <1>5 DEF ProviderAnswers, providerVars, cacheVars
  <2>1. TypeOK'
    BY DEF TypeOK
  <2>2. PublishedNow' /\ CacheIsRecent'
    BY DEF PublishedNow, CacheIsRecent
  <2>3. DocumentsAreRecent'
    BY DEF TypeOK, PublishedNow, DocumentsAreRecent
  <2>4. SteadyKeys' /\ NewKeysAreFound'
    BY DEF TypeOK, SteadyKeys, NewKeysAreFound
  <2> QED BY <2>1, <2>2, <2>3, <2>4
<1>6. ASSUME NEW r \in Requests, Fetched(r) PROVE Inv'
  <2> USE <1>6 DEF Fetched, Forget, providerVars
  <2>1. TypeOK'
    BY DEF TypeOK, Verdict
  <2>2. PublishedNow'
    BY DEF PublishedNow
  <2>3. DocumentsAreRecent'
    BY DEF TypeOK, DocumentsAreRecent, Verdict
  <2>4. CacheIsRecent'
    BY DEF TypeOK, DocumentsAreRecent, CacheIsRecent
  <2>5. SteadyKeys' /\ NewKeysAreFound'
    BY DEF TypeOK, SteadyKeys, NewKeysAreFound, Verdict
  <2> QED BY <2>1, <2>2, <2>3, <2>4, <2>5
<1>7. ASSUME NEW r \in Requests, FetchFails(r) PROVE Inv'
  BY <1>7 DEF FetchFails, Forget, providerVars, cacheVars, TypeOK, PublishedNow,
              DocumentsAreRecent, CacheIsRecent, SteadyKeys, NewKeysAreFound
<1>8. ASSUME NEW r \in Requests, Leave(r) PROVE Inv'
  BY <1>8 DEF Leave, providerVars, cacheVars, TypeOK, PublishedNow,
              DocumentsAreRecent, CacheIsRecent, SteadyKeys, NewKeysAreFound
<1>9. CASE UNCHANGED vars
  BY <1>9 DEF vars, providerVars, cacheVars, requestVars, TypeOK, PublishedNow,
              DocumentsAreRecent, CacheIsRecent, SteadyKeys, NewKeysAreFound
<1> QED
  BY <1>1, <1>2, <1>3, <1>4, <1>5, <1>6, <1>7, <1>8, <1>9 DEF Next

(***************************************************************************)
(* The invariant holds in every reachable state.                           *)
(***************************************************************************)
LEMMA Invariance == Spec => []Inv
BY InitInv, StepInv, PTL DEF Spec

(***************************************************************************)
(* JWKSCache and the requests it serves have the types the model says.     *)
(***************************************************************************)
THEOREM TypeCorrect == Spec => []TypeOK
<1>1. Inv => TypeOK
  BY DEF Inv
<1> QED BY <1>1, Invariance, PTL

(***************************************************************************)
(* A token that names a key which the provider publishes throughout is not *)
(* turned down (get_key fetches the key set for an unknown kid).           *)
(***************************************************************************)
THEOREM PublishedKeysAreFound == Spec => []NewKeysAreFound
<1>1. Inv => NewKeysAreFound
  BY DEF Inv
<1> QED BY <1>1, Invariance, PTL

(***************************************************************************)
(* A withdrawn key is accepted for at most Ttl plus one Latency, although  *)
(* fetches overlap and install their answers in any order (_fetch).        *)
(***************************************************************************)
THEOREM RevocationTakesEffect == Spec => WithdrawnKeysExpire
<1> DEFINE Step(r) == pc[r] # "valid" /\ pc'[r] = "valid" =>
             last[signer'[r]] >= 0 /\ now - last[signer'[r]] <= Ttl + Latency
<1>1. ASSUME Inv, [Next]_vars, NEW r \in Requests PROVE Step(r)
  <2> SUFFICES ASSUME pc[r] # "valid", pc'[r] = "valid"
               PROVE  /\ last[signer'[r]] >= 0
                      /\ now - last[signer'[r]] <= Ttl + Latency
    OBVIOUS
  <2> USE <1>1, JwksAssumption DEF Inv
  <2>1. ASSUME NEW q \in Requests, NEW k \in Kids, NEW hasKid \in BOOLEAN,
               FromCache(q, k, hasKid)
        PROVE  Step(r)
    <3>1. q = r
      BY <2>1 DEF FromCache, TypeOK
    <3>2. signer'[r] = k /\ k \in keys /\ ~Expired
      BY <2>1, <3>1 DEF FromCache, Arrive, Verdict, NeedsFetch, TypeOK
    <3> QED BY <3>2 DEF CacheIsRecent, Expired, TypeOK
  <2>2. ASSUME NEW q \in Requests, Fetched(q) PROVE Step(r)
    <3>1. q = r
      BY <2>2 DEF Fetched, TypeOK
    <3>2. pc[r] = "answered" /\ signer'[r] = signer[r] /\ signer[r] \in doc[r]
      BY <2>2, <3>1 DEF Fetched, Verdict, TypeOK
    <3>3. signer[r] \in Kids
      BY <3>2 DEF TypeOK
    <3> QED BY <3>2, <3>3 DEF DocumentsAreRecent, TypeOK
  <2>3. CASE ClockTick \/ Rotate \/ UNCHANGED vars
    BY <2>3 DEF ClockTick, Rotate, vars, requestVars
  <2>4. ASSUME NEW q \in Requests,
               \/ \E k \in Kids, hasKid \in BOOLEAN : StartFetch(q, k, hasKid)
               \/ ProviderAnswers(q) \/ FetchFails(q) \/ Leave(q)
        PROVE  Step(r)
    BY <2>4 DEF StartFetch, ProviderAnswers, FetchFails, Leave, TypeOK
  <2> QED BY <2>1, <2>2, <2>3, <2>4 DEF Next
<1>2. Inv /\ [Next]_vars =>
        [\A r \in Requests :
           pc[r] # "valid" /\ pc'[r] = "valid"
             => last[signer'[r]] >= 0 /\ now - last[signer'[r]] <= Ttl + Latency]_vars
  BY <1>1
<1> QED BY <1>2, Invariance, PTL DEF Spec, WithdrawnKeysExpire
==============================================================================
