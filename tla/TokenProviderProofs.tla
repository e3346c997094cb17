-------------------------- MODULE TokenProviderProofs --------------------------
(***************************************************************************)
(* For every number of callers and every buffer, latency and set of        *)
(* lifetimes that satisfy TokenAssumption: no caller is given a token that *)
(* its issuer no longer accepts, and no token is fetched while a good one  *)
(* is cached.                                                              *)
(*                                                                         *)
(* The invariant relates the two clocks a token is measured by.  The       *)
(* gateway overestimates the end of the cached token by the latency of its *)
(* answer at most (CacheInv), because an answer is under way for no longer *)
(* than that (FetchInv); the buffer makes up for it.  A caller that        *)
(* fetches holds the lock, so nobody replaces the expired token under it.  *)
(***************************************************************************)
EXTENDS TokenProvider, TLAPS

Fetching(c) == pc[c] \in {"fetch", "answered"}

LockInv == \A c \in Callers : Fetching(c) => lock = c /\ Expired

FetchInv ==
  \A c \in Callers : pc[c] = "answered" =>
    issuedAt <= now /\ now <= issuedAt + Latency /\ life \in Lifetimes

CacheInv == cached => expiresAt <= endsAt + Latency

Inv == TypeOK /\ LockInv /\ FetchInv /\ CacheInv /\ TokensAreValid

LEMMA InvInit == Init => Inv
<1> SUFFICES ASSUME Init PROVE Inv
  OBVIOUS
<1>1. TypeOK
  <2>1. used \in [at : Nat, ends : Nat]
    BY DEF Init
  <2>2. faults \in 0..MaxFaults
    BY TokenAssumption DEF Init
  <2>3. lock \in Callers \union {None} /\ cached \in BOOLEAN
    BY Zenon DEF Init
  <2>4. pc \in [Callers -> {"idle", "lock", "fetch", "answered", "done"}]
    BY DEF Init
  <2> QED
    BY <2>1, <2>2, <2>3, <2>4 DEF Init, TypeOK
<1>2. LockInv /\ FetchInv /\ CacheInv
  BY DEF Init, LockInv, Fetching, FetchInv, CacheInv
<1>3. TokensAreValid
  BY DEF Init, TokensAreValid
<1> QED
  BY <1>1, <1>2, <1>3 DEF Inv

(***************************************************************************)
(* While one caller fetches, no other does.                                *)
(***************************************************************************)
LEMMA FetchingAlone ==
  ASSUME LockInv, NEW c \in Callers, Fetching(c)
  PROVE  \A d \in Callers \ {c} : ~Fetching(d)
  BY DEF LockInv

LEMMA InvStep == Inv /\ [Next]_vars => Inv'
<1> SUFFICES ASSUME Inv, [Next]_vars PROVE Inv'
  OBVIOUS
<1> USE TokenAssumption DEF Inv
<1>1. CASE ClockTick
  BY <1>1 DEF ClockTick, cacheVars, fetchVars, TypeOK, LockInv, Fetching, Expired,
              FetchInv, CacheInv, TokensAreValid
<1>2. ASSUME NEW c \in Callers, GetHeaders(c) PROVE Inv'
  BY <1>2 DEF GetHeaders, Goto, cacheVars, fetchVars, TypeOK, LockInv, Fetching,
              Expired, FetchInv, CacheInv, TokensAreValid
<1>3. ASSUME NEW c \in Callers, UseCached(c) PROVE Inv'
  <2>1. now < endsAt
    BY <1>3 DEF UseCached, Expired, CacheInv, TypeOK
  <2> QED
    BY <1>3, <2>1 DEF UseCached, Goto, cacheVars, fetchVars, TypeOK, LockInv, Fetching,
                      Expired, FetchInv, CacheInv, TokensAreValid
<1>4. ASSUME NEW c \in Callers, StartFetch(c) PROVE Inv'
  <2>1. \A d \in Callers : ~Fetching(d)
    BY <1>4 DEF StartFetch, LockInv
  <2> QED
    BY <1>4, <2>1 DEF StartFetch, Goto, cacheVars, fetchVars, TypeOK, LockInv, Fetching,
                      Expired, FetchInv, CacheInv, TokensAreValid
<1>5. ASSUME NEW c \in Callers, Issue(c) PROVE Inv'
  <2>1. \A d \in Callers \ {c} : ~Fetching(d)
    BY <1>5, FetchingAlone DEF Issue, Fetching
  <2> QED
    BY <1>5, <2>1 DEF Issue, Goto, cacheVars, TypeOK, LockInv, Fetching,
                      Expired, FetchInv, CacheInv, TokensAreValid
<1>6. ASSUME NEW c \in Callers, Install(c) PROVE Inv'
  <2>1. \A d \in Callers \ {c} : ~Fetching(d)
    BY <1>6, FetchingAlone DEF Install, Fetching
  <2>2. life \in Lifetimes /\ issuedAt <= now /\ now <= issuedAt + Latency
    BY <1>6 DEF Install, FetchInv
  <2>3. TypeOK' /\ CacheInv' /\ TokensAreValid'
    BY <1>6, <2>2 DEF Install, Goto, fetchVars, TypeOK, CacheInv, TokensAreValid
  <2>4. LockInv' /\ FetchInv'
    BY <1>6, <2>1 DEF Install, Goto, fetchVars, TypeOK, LockInv, Fetching, FetchInv
  <2> QED
    BY <2>3, <2>4
<1>7. ASSUME NEW c \in Callers, FetchEnds(c) PROVE Inv'
  <2>1. \A d \in Callers \ {c} : ~Fetching(d)
    BY <1>7, FetchingAlone DEF FetchEnds, Fetching
  <2> QED
    BY <1>7, <2>1 DEF FetchEnds, Goto, cacheVars, fetchVars, TypeOK, LockInv, Fetching,
                      Expired, FetchInv, CacheInv, TokensAreValid
<1>8. CASE UNCHANGED vars
  BY <1>8 DEF vars, cacheVars, fetchVars, TypeOK, LockInv, Fetching, Expired,
              FetchInv, CacheInv, TokensAreValid
<1> QED
  BY <1>1, <1>2, <1>3, <1>4, <1>5, <1>6, <1>7, <1>8 DEF Next

LEMMA Invariance == Spec => []Inv
  BY InvInit, InvStep, PTL DEF Spec

(***************************************************************************)
(* Type correctness of the provider and its callers.                       *)
(***************************************************************************)
THEOREM TypeCorrect == Spec => []TypeOK
<1>1. Inv => TypeOK
  BY DEF Inv
<1> QED
  BY <1>1, Invariance, PTL

(***************************************************************************)
(* get_headers never returns a token that the server has stopped to        *)
(* accept, however long its answers take, up to the buffer.                *)
(***************************************************************************)
THEOREM AlwaysValid == Spec => []TokensAreValid
<1>1. Inv => TokensAreValid
  BY DEF Inv
<1> QED
  BY <1>1, Invariance, PTL

(***************************************************************************)
(* get_headers replaces no token that is not about to expire, whoever else *)
(* waited for the lock.                                                    *)
(***************************************************************************)
THEOREM SingleFlight == Spec => NoNeedlessRefresh
<1>1. Inv /\ [Next]_vars =>
        [\A c \in Callers : pc[c] = "answered" /\ pc'[c] = "done" => Expired]_vars
  BY DEF Inv, LockInv, Fetching
<1> QED
  BY <1>1, Invariance, PTL DEF Spec, NoNeedlessRefresh
===============================================================================
