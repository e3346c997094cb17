----------------------------- MODULE TokenProvider -----------------------------
(***************************************************************************)
(* The OAuth2 credentials of one upstream (app/transport/auth_provider.py, *)
(* class OAuth2ClientCredentialsProvider): a token is fetched under a      *)
(* lock, cached, and fetched again when it is about to expire.             *)
(*                                                                         *)
(* The gateway counts a token's lifetime from the arrival of the answer,   *)
(* the authorization server from the moment it issued the token.  A caller *)
(* suspends while it waits for the lock and while the request is under     *)
(* way; the server is external.  What a token says is left out.            *)
(***************************************************************************)
EXTENDS Integers

CONSTANTS
  Callers,       \* concurrent calls of get_headers
  Lifetimes,     \* the expires_in values the server may answer with
  Buffer,        \* buffer_seconds
  Latency,       \* how long an answer of the server may be under way
  MaxTime,       \* bound: how far the clock runs
  MaxFaults,     \* bound: failed and cancelled fetches
  None           \* nobody

(***************************************************************************)
(* The buffer covers the latency (60 seconds by default, while httpx gives *)
(* up after 10 seconds without data), and no token is dead on arrival.     *)
(***************************************************************************)
ASSUME TokenAssumption ==
  /\ Buffer \in Nat /\ Latency \in Nat /\ Latency <= Buffer
  /\ Lifetimes \subseteq {n \in Nat : n > Latency}
  /\ MaxTime \in Nat /\ MaxFaults \in Nat
  /\ None \notin Callers

VARIABLES
  now,        \* time.monotonic()
  cached,     \* _cache is not None
  expiresAt,  \* _cache.expires_at
  endsAt,     \* when the server will stop accepting the cached token
  lock,       \* the caller that holds _lock across a suspension
  pc,         \* where each caller is
  issuedAt,   \* when the server issued the token under way
  life,       \* its expires_in
  faults,     \* failed and cancelled fetches so far
  used        \* history: the end of the token last given to a caller, and when

cacheVars == <<cached, expiresAt, endsAt>>
fetchVars == <<issuedAt, life>>
vars == <<now, cacheVars, lock, pc, fetchVars, faults, used>>

TypeOK ==
  /\ now \in Nat
  /\ cached \in BOOLEAN
  /\ expiresAt \in Nat
  /\ endsAt \in Nat
  /\ lock \in Callers \union {None}
  /\ pc \in [Callers -> {"idle", "lock", "fetch", "answered", "done"}]
  /\ issuedAt \in Nat
  /\ life \in Nat
  /\ faults \in 0..MaxFaults
  /\ used \in [at : Nat, ends : Nat]

Init ==
  /\ now = 0
  /\ cached = FALSE
  /\ expiresAt = 0 /\ endsAt = 0
  /\ lock = None
  /\ pc = [c \in Callers |-> "idle"]
  /\ issuedAt = 0 /\ life = 0
  /\ faults = 0
  /\ used = [at |-> 0, ends |-> 1]

Goto(c, l) == pc' = [pc EXCEPT ![c] = l]

(***************************************************************************)
(* Time passes, but no answer is under way for longer than Latency.        *)
(***************************************************************************)
ClockTick ==
  /\ now < MaxTime
  /\ \A c \in Callers : pc[c] = "answered" => now < issuedAt + Latency
  /\ now' = now + 1
  /\ UNCHANGED <<cacheVars, lock, pc, fetchVars, faults, used>>

-------------------------------------------------------------------------------
\* Plausible fault: the buffer is added instead of subtracted.
Expired_WrongSign == ~cached \/ now >= expiresAt + Buffer

Expired == ~cached \/ now >= expiresAt - Buffer

GetHeaders(c) ==
  /\ pc[c] \in {"idle", "done"}
  /\ Goto(c, "lock")
  /\ UNCHANGED <<now, cacheVars, lock, fetchVars, faults, used>>

\* Plausible fault: a caller that finds a new token starts over.
UseCached_StartsOver(c) ==
  /\ pc[c] = "lock"
  /\ lock = None
  /\ ~Expired
  /\ UNCHANGED vars

(***************************************************************************)
(* The lock is free and the cached token is good: it is returned.          *)
(***************************************************************************)
UseCached(c) ==
  /\ pc[c] = "lock"
  /\ lock = None
  /\ ~Expired
  /\ Goto(c, "done")
  /\ used' = [at |-> now, ends |-> endsAt]
  /\ UNCHANGED <<now, cacheVars, lock, fetchVars, faults>>

\* Plausible fault: the lock is not held while the token is fetched.
StartFetch_Unlocked(c) ==
  /\ pc[c] = "lock"
  /\ lock = None
  /\ Expired
  /\ Goto(c, "fetch")
  /\ UNCHANGED <<now, cacheVars, lock, fetchVars, faults, used>>

StartFetch(c) ==
  /\ pc[c] = "lock"
  /\ lock = None
  /\ Expired
  /\ lock' = c
  /\ Goto(c, "fetch")
  /\ UNCHANGED <<now, cacheVars, fetchVars, faults, used>>

(***************************************************************************)
(* External: the server issues a token and answers.                        *)
(***************************************************************************)
Issue(c) ==
  /\ pc[c] = "fetch"
  /\ issuedAt' = now
  /\ life' \in Lifetimes
  /\ Goto(c, "answered")
  /\ UNCHANGED <<now, cacheVars, lock, faults, used>>

(***************************************************************************)
(* _fetch returns: the token is cached, the lock released, and the token   *)
(* returned.                                                               *)
(***************************************************************************)
Install(c) ==
  /\ pc[c] = "answered"
  /\ cached' = TRUE
  /\ expiresAt' = now + life
  /\ endsAt' = issuedAt + life
  /\ lock' = None
  /\ Goto(c, "done")
  /\ used' = [at |-> now, ends |-> endsAt']
  /\ UNCHANGED <<now, fetchVars, faults>>

(***************************************************************************)
(* _fetch raises (no secret, an HTTP error, no access_token), or the call  *)
(* is cancelled: the cache keeps what it has.                              *)
(***************************************************************************)
FetchEnds(c) ==
  /\ pc[c] \in {"fetch", "answered"}
  /\ faults < MaxFaults
  /\ faults' = faults + 1
  /\ lock' = None
  /\ Goto(c, "idle")
  /\ UNCHANGED <<now, cacheVars, fetchVars, used>>

Next ==
  \/ ClockTick
  \/ \E c \in Callers :
       \/ GetHeaders(c) \/ UseCached(c) \/ StartFetch(c)
       \/ Issue(c) \/ Install(c) \/ FetchEnds(c)

Spec == Init /\ [][Next]_vars

(***************************************************************************)
(* asyncio.Lock serves its waiters in order, and the server answers or     *)
(* httpx gives up.                                                         *)
(***************************************************************************)
FairSpec ==
  /\ Spec
  /\ \A c \in Callers : SF_vars(UseCached(c) \/ StartFetch(c))
  /\ \A c \in Callers : WF_vars(Issue(c) \/ Install(c))

-------------------------------------------------------------------------------
(***************************************************************************)
(* "The token is refreshed `buffer_seconds` before it expires, so callers  *)
(* always receive a valid token" (auth_provider.py, lines 111-113): when a *)
(* caller is given a token, the server still accepts it, although the      *)
(* gateway believes it to last longer than it does.                        *)
(***************************************************************************)
TokensAreValid == used.at < used.ends

(***************************************************************************)
(* Single flight: a token is installed only where none, or an expiring one *)
(* was cached; callers that waited for the lock do not fetch again what    *)
(* was fetched meanwhile.                                                  *)
(***************************************************************************)
NoNeedlessRefresh ==
  [][\A c \in Callers : pc[c] = "answered" /\ pc'[c] = "done" => Expired]_vars

(***************************************************************************)
(* Every caller gets a token or an exception.                              *)
(***************************************************************************)
CallersReturn == \A c \in Callers : pc[c] = "lock" ~> pc[c] \in {"done", "idle"}
===============================================================================
