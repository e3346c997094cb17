--------------------------- MODULE CallPolicyProofs ---------------------------
(***************************************************************************)
(* What a call has to pass: the rate limiter, for every set of tools, rate *)
(* and capacity, and the authorization of streamed and plain calls, for    *)
(* every sequence of policies.                                             *)
(*                                                                         *)
(* WindowBound is not inductive: it says nothing of the tokens left in a   *)
(* bucket.  The strengthening Budget counts the tokens spent in the window *)
(* and the tokens left together, at the moment the bucket was last used;   *)
(* a bucket last used before the window began has spent nothing in it.     *)
(***************************************************************************)
EXTENDS RateLimiter, StreamedCalls, TLAPS

Budget(b) ==
  /\ tokens[b] <= Capacity[b]
  /\ last[b] <= now
  /\ b \notin made => spent[b] = 0
  /\ last[b] < win => spent[b] = 0
  /\ b \in made /\ win <= last[b] =>
       Cost * spent[b] + tokens[b] <= Capacity[b] + Rate[b] * (last[b] - win)

LimiterInv ==
  /\ LimiterTypeOK
  /\ win <= now
  /\ admitted <= spent[Agent]
  /\ \A b \in Buckets : Budget(b)

(***************************************************************************)
(* Arithmetic the provers do not find by themselves.                       *)
(***************************************************************************)
LEMMA Product == \A r, d \in Nat : r * d \in Nat
  OBVIOUS

LEMMA SplitInterval ==
  \A r, u, v, w \in Int : r * (v - u) + r * (w - v) = r * (w - u)
  OBVIOUS

LEMMA OneMore == \A c, n \in Int : c * (n + 1) = c * n + c
  OBVIOUS

LEMMA Monotone == \A c, m, n \in Nat : m <= n => c * m <= c * n
  OBVIOUS

LEMMA TimesZero == \A c \in Int : c * 0 = 0
  OBVIOUS
(***************************************************************************)
(* What consume() finds: a legal amount, and, together with what the       *)
(* window has spent, no more than the burst and the rate up to now allow.  *)
(***************************************************************************)
LEMMA RefilledBudget ==
  ASSUME LimiterInv, NEW b \in Buckets
  PROVE  /\ Refilled(b) \in Nat
         /\ Refilled(b) <= Capacity[b]
         /\ Cost * spent[b] + Refilled(b) <= Capacity[b] + Rate[b] * (now - win)
<1> DEFINE gain == Rate[b] * (now - last[b])
           yield == Rate[b] * (now - win)
<1>1. /\ Cost \in Nat /\ Rate[b] \in Nat /\ Capacity[b] \in Nat
      /\ now \in Nat /\ win \in Nat /\ last[b] \in Nat
      /\ spent[b] \in Nat /\ tokens[b] \in Nat
  BY LimiterAssumption DEF LimiterInv, LimiterTypeOK
<1>2. Budget(b) /\ win <= now
  BY DEF LimiterInv
<1>3. gain \in Nat
  <2>1. now - last[b] \in Nat
    BY <1>1, <1>2 DEF Budget
  <2> QED BY <1>1, <2>1, Product
<1>4. yield \in Nat
  <2>1. now - win \in Nat
    BY <1>1, <1>2
  <2> QED BY <1>1, <2>1, Product
<1>5. Refilled(b) \in Nat /\ Refilled(b) <= Capacity[b]
  <2> HIDE DEF gain
  <2>1. Refilled(b) = IF b \in made /\ tokens[b] + gain < Capacity[b]
                        THEN tokens[b] + gain ELSE Capacity[b]
    BY DEF Refilled, gain
  <2> QED BY <1>1, <1>3, <2>1
<1>6. CASE spent[b] = 0
  <2>1. Cost * spent[b] = 0
    BY <1>1, <1>6, TimesZero
  <2> HIDE DEF yield
  <2>2. Cost * spent[b] + Refilled(b) <= Capacity[b] + yield
    BY <1>1, <1>4, <1>5, <2>1
  <2> QED BY <1>5, <2>2 DEF yield
<1>7. CASE spent[b] # 0
  <2> DEFINE before == Rate[b] * (last[b] - win)
             cost == Cost * spent[b]
  <2>1. b \in made /\ win <= last[b]
    BY <1>1, <1>2, <1>7 DEF Budget
  <2>2. cost + tokens[b] <= Capacity[b] + before
    BY <1>2, <2>1 DEF Budget
  <2>3. before + gain = yield
    BY <1>1, SplitInterval
  <2>4. before \in Int /\ cost \in Nat
    BY <1>1, Product
  <2> HIDE DEF gain, yield, before, cost
  <2>5. Refilled(b) <= tokens[b] + gain
    <3>1. Refilled(b) = IF b \in made /\ tokens[b] + gain < Capacity[b]
                          THEN tokens[b] + gain ELSE Capacity[b]
      BY DEF Refilled, gain
    <3> QED BY <1>1, <1>3, <2>1, <3>1
  <2>6. cost + Refilled(b) <= Capacity[b] + yield
    BY <1>1, <1>3, <1>4, <1>5, <2>2, <2>3, <2>4, <2>5
  <2> QED BY <1>5, <2>6 DEF yield, cost
<1> QED BY <1>6, <1>7

(***************************************************************************)
(* The budget survives consume(), for the buckets it looks at and the      *)
(* others.                                                                 *)
(***************************************************************************)
LEMMA ConsumeKeepsBudget ==
  ASSUME LimiterInv, NEW takes \in SUBSET Buckets, NEW fails \in SUBSET Buckets,
         \A b \in takes : Refilled(b) >= Cost,
         Consume(takes, fails), now' = now, win' = win
  PROVE  /\ made' \subseteq Buckets
         /\ tokens' \in [Buckets -> Nat]
         /\ last' \in [Buckets -> 0..MaxTime]
         /\ spent' \in [Buckets -> Nat]
         /\ \A b \in Buckets : Budget(b)'
<1> USE LimiterAssumption
<1>1. made' \subseteq Buckets
  BY DEF LimiterInv, LimiterTypeOK, Consume
<1>2. tokens' \in [Buckets -> Nat]
  <2> SUFFICES ASSUME NEW b \in Buckets
               PROVE  (IF b \in takes THEN Refilled(b) - Cost
                       ELSE IF b \in fails THEN Refilled(b) ELSE tokens[b]) \in Nat
    BY DEF Consume
  <2>1. Refilled(b) \in Nat /\ tokens[b] \in Nat /\ Cost \in Nat
    BY RefilledBudget DEF LimiterInv, LimiterTypeOK
  <2> QED BY <2>1
<1>3. last' \in [Buckets -> 0..MaxTime]
  BY DEF LimiterInv, LimiterTypeOK, Consume
<1>4. spent' \in [Buckets -> Nat]
  BY DEF LimiterInv, LimiterTypeOK, Consume
<1>5. ASSUME NEW b \in Buckets
      PROVE  Budget(b)'
  <2> DEFINE yield == Rate[b] * (now - win)
  <2>1. /\ Cost \in Nat /\ Capacity[b] \in Nat /\ Rate[b] \in Nat
        /\ now \in Nat /\ win \in Nat /\ win <= now
        /\ spent[b] \in Nat /\ tokens[b] \in Nat
    BY DEF LimiterInv, LimiterTypeOK
  <2>2. yield \in Int
    BY <2>1
  <2>3. /\ Refilled(b) \in Nat
        /\ Refilled(b) <= Capacity[b]
        /\ Cost * spent[b] + Refilled(b) <= Capacity[b] + yield
    BY RefilledBudget
  <2>4. CASE b \in takes
    <3>1. /\ b \in made' /\ last'[b] = now
          /\ tokens'[b] = Refilled(b) - Cost /\ spent'[b] = spent[b] + 1
      BY <2>4 DEF Consume
    <3>2. Cost * spent'[b] = Cost * spent[b] + Cost
      BY <2>1, <3>1, OneMore
    <3>3. Cost * spent[b] \in Nat
      BY <2>1, Product
    <3> HIDE DEF yield
    <3>4. Cost * spent'[b] + tokens'[b] <= Capacity[b] + yield
      BY <2>1, <2>2, <2>3, <3>1, <3>2, <3>3
    <3>5. tokens'[b] <= Capacity[b]
      BY <2>1, <2>3, <3>1
    <3> QED BY <2>1, <3>1, <3>4, <3>5 DEF Budget, yield
  <2>5. CASE b \in fails /\ b \notin takes
    <3>1. /\ b \in made' /\ last'[b] = now
          /\ tokens'[b] = Refilled(b) /\ spent'[b] = spent[b]
      BY <2>5 DEF Consume
    <3> QED BY <2>1, <2>3, <3>1 DEF Budget
  <2>6. CASE b \notin takes \union fails
    <3>1. /\ last'[b] = last[b] /\ tokens'[b] = tokens[b] /\ spent'[b] = spent[b]
          /\ b \in made' <=> b \in made
      BY <2>6 DEF Consume
    <3>2. Budget(b)
      BY DEF LimiterInv
    <3> QED BY <3>1, <3>2 DEF Budget
  <2> QED BY <2>4, <2>5, <2>6
<1> QED BY <1>1, <1>2, <1>3, <1>4, <1>5

-------------------------------------------------------------------------------
LEMMA LimiterInitially == LimiterInit => LimiterInv
<1> SUFFICES ASSUME LimiterInit PROVE LimiterInv
  OBVIOUS
<1>1. LimiterTypeOK
  BY LimiterAssumption DEF LimiterInit, LimiterTypeOK
<1>2. Agent \in Buckets
  BY DEF Buckets
<1>3. ASSUME NEW b \in Buckets PROVE Budget(b)
  BY LimiterAssumption DEF LimiterInit, Budget
<1> QED BY <1>1, <1>2, <1>3 DEF LimiterInit, LimiterInv

LEMMA LimiterStep == LimiterInv /\ [LimiterNext]_limiterVars => LimiterInv'
<1> SUFFICES ASSUME LimiterInv, [LimiterNext]_limiterVars PROVE LimiterInv'
  OBVIOUS
<1> USE LimiterAssumption
<1>a. Agent \in Buckets /\ \A t \in LimitedTools : t \in Buckets /\ t # Agent
  BY DEF Buckets
<1>b. spent[Agent] \in Nat /\ admitted \in Nat /\ admitted <= spent[Agent]
  BY <1>a DEF LimiterInv, LimiterTypeOK
<1>1. ASSUME NEW t \in LimitedTools, RefusedByAgent(t) PROVE LimiterInv'
  <2>1. Consume({}, {Agent}) /\ now' = now /\ win' = win /\ admitted' = admitted
    BY <1>1 DEF RefusedByAgent
  <2>2. spent'[Agent] = spent[Agent]
    BY <1>a, <2>1 DEF Consume
  <2>3. /\ made' \subseteq Buckets /\ tokens' \in [Buckets -> Nat]
        /\ last' \in [Buckets -> 0..MaxTime] /\ spent' \in [Buckets -> Nat]
        /\ \A b \in Buckets : Budget(b)'
    <3>1. {} \in SUBSET Buckets /\ {Agent} \in SUBSET Buckets
      BY <1>a
    <3>2. \A b \in {} : Refilled(b) >= Cost
      BY <2>1
    <3> QED BY <2>1, <3>1, <3>2, ConsumeKeepsBudget
  <2> QED BY <2>1, <2>2, <2>3 DEF LimiterInv, LimiterTypeOK
<1>2. ASSUME NEW t \in LimitedTools, RefusedByTool(t) PROVE LimiterInv'
  <2>1. /\ Consume({Agent}, {t}) /\ Refilled(Agent) >= Cost
        /\ now' = now /\ win' = win /\ admitted' = admitted
    BY <1>2 DEF RefusedByTool
  <2>2. spent'[Agent] = spent[Agent] + 1
    BY <1>a, <2>1 DEF Consume
  <2>3. /\ made' \subseteq Buckets /\ tokens' \in [Buckets -> Nat]
        /\ last' \in [Buckets -> 0..MaxTime] /\ spent' \in [Buckets -> Nat]
        /\ \A b \in Buckets : Budget(b)'
    <3>1. {Agent} \in SUBSET Buckets /\ {t} \in SUBSET Buckets
      BY <1>a
    <3>2. \A b \in {Agent} : Refilled(b) >= Cost
      BY <2>1
    <3> QED BY <2>1, <3>1, <3>2, ConsumeKeepsBudget
  <2> QED BY <1>b, <2>1, <2>2, <2>3 DEF LimiterInv, LimiterTypeOK
<1>3. ASSUME NEW t \in LimitedTools, Allowed(t) PROVE LimiterInv'
  <2>1. /\ Consume({Agent, t}, {}) /\ Refilled(Agent) >= Cost /\ Refilled(t) >= Cost
        /\ now' = now /\ win' = win /\ admitted' = admitted + 1
    BY <1>3 DEF Allowed
  <2>2. spent'[Agent] = spent[Agent] + 1
    BY <1>a, <2>1 DEF Consume
  <2>3. /\ made' \subseteq Buckets /\ tokens' \in [Buckets -> Nat]
        /\ last' \in [Buckets -> 0..MaxTime] /\ spent' \in [Buckets -> Nat]
        /\ \A b \in Buckets : Budget(b)'
    <3>1. {Agent, t} \in SUBSET Buckets /\ {} \in SUBSET Buckets
      BY <1>a
    <3>2. \A b \in {Agent, t} : Refilled(b) >= Cost
      BY <2>1
    <3> QED BY <2>1, <3>1, <3>2, ConsumeKeepsBudget
  <2> QED BY <1>b, <2>1, <2>2, <2>3 DEF LimiterInv, LimiterTypeOK
<1>4. ASSUME NewWindow, now' = now, tokens' = tokens, last' = last,
             made' = made \/ made' = {}
      PROVE  LimiterInv'
  <2>1. LimiterTypeOK'
    BY <1>4 DEF LimiterInv, LimiterTypeOK, NewWindow
  <2>2. ASSUME NEW b \in Buckets PROVE Budget(b)'
    <3>1. spent'[b] = 0 /\ win' = now
      BY <1>4 DEF NewWindow
    <3>2. /\ Cost \in Nat /\ Capacity[b] \in Nat /\ Rate[b] \in Nat
          /\ now \in Nat /\ last[b] \in Nat /\ tokens[b] \in Nat
      BY DEF LimiterInv, LimiterTypeOK
    <3>3. Budget(b)
      BY DEF LimiterInv
    <3>4. CASE last[b] < now
      BY <1>4, <3>1, <3>2, <3>3, <3>4 DEF Budget
    <3>5. CASE last[b] = now
      <4>1. Cost * 0 = 0 /\ Rate[b] * (last[b] - now) = 0
        BY <3>2, <3>5, TimesZero
      <4> QED BY <1>4, <3>1, <3>2, <3>3, <3>5, <4>1 DEF Budget
    <3> QED BY <3>2, <3>3, <3>4, <3>5 DEF Budget
  <2> QED BY <1>a, <1>4, <2>1, <2>2 DEF LimiterInv, NewWindow, LimiterTypeOK
<1>5. CASE Reload
  BY <1>4, <1>5 DEF Reload
<1>6. CASE ObserveFromNow
  BY <1>4, <1>6 DEF ObserveFromNow
<1>7. CASE ClockTick
  <2>1. LimiterTypeOK' /\ win' <= now'
    BY <1>7 DEF LimiterInv, LimiterTypeOK, ClockTick
  <2>2. ASSUME NEW b \in Buckets PROVE Budget(b)'
    BY <1>7 DEF LimiterInv, LimiterTypeOK, ClockTick, Budget
  <2> QED BY <1>7, <2>1, <2>2 DEF LimiterInv, ClockTick
<1>8. CASE UNCHANGED limiterVars
  BY <1>8 DEF limiterVars, LimiterInv, LimiterTypeOK, Budget
<1> QED BY <1>1, <1>2, <1>3, <1>5, <1>6, <1>7, <1>8 DEF LimiterNext

(***************************************************************************)
(* The strengthened invariant holds in every reachable state.              *)
(***************************************************************************)
THEOREM LimiterInvariance == LimiterSpec => []LimiterInv
  BY LimiterInitially, LimiterStep, PTL DEF LimiterSpec

(***************************************************************************)
(* Type correctness; in particular no bucket is ever overdrawn.            *)
(***************************************************************************)
THEOREM LimiterTypeCorrect == LimiterSpec => []LimiterTypeOK
<1>1. LimiterInv => LimiterTypeOK
  BY DEF LimiterInv
<1> QED BY <1>1, LimiterInvariance, PTL

(***************************************************************************)
(* The window bound of TokenBucket.consume(), for every rate, burst and    *)
(* set of tools: no window grants more than the burst plus the rate's      *)
(* yield.                                                                  *)
(***************************************************************************)
THEOREM NoWindowExceeds == LimiterSpec => []WindowBound
<1>1. LimiterInv => WindowBound
  <2> SUFFICES ASSUME LimiterInv, NEW b \in Buckets
               PROVE  Cost * spent[b] <= Capacity[b] + Rate[b] * (now - win)
    BY DEF WindowBound
  <2> DEFINE yield == Rate[b] * (now - win)
             cost == Cost * spent[b]
  <2>1. Refilled(b) \in Nat /\ cost + Refilled(b) <= Capacity[b] + yield
    BY RefilledBudget
  <2>2. cost \in Int /\ yield \in Int /\ Capacity[b] \in Int
    BY LimiterAssumption DEF LimiterInv, LimiterTypeOK
  <2> HIDE DEF cost, yield
  <2>3. cost <= Capacity[b] + yield
    BY <2>1, <2>2
  <2> QED BY <2>3 DEF cost, yield
<1> QED BY <1>1, LimiterInvariance, PTL

(***************************************************************************)
(* The agent's cap: the calls check() lets through in a window, over all   *)
(* tools, stay within the agent's burst and rate.                          *)
(***************************************************************************)
THEOREM AgentIsCapped == LimiterSpec => []AgentCap
<1>1. LimiterInv /\ WindowBound => AgentCap
  <2> SUFFICES ASSUME LimiterInv, WindowBound PROVE AgentCap
    OBVIOUS
  <2> DEFINE limit == Capacity[Agent] + Rate[Agent] * (now - win)
  <2>1. Agent \in Buckets
    BY DEF Buckets
  <2>2. /\ Cost \in Nat /\ admitted \in Nat /\ spent[Agent] \in Nat
        /\ admitted <= spent[Agent] /\ limit \in Int
    BY <2>1, LimiterAssumption DEF LimiterInv, LimiterTypeOK
  <2>3. Cost * spent[Agent] <= limit
    BY <2>1 DEF WindowBound
  <2>4. Cost * admitted <= Cost * spent[Agent]
    BY <2>2, Monotone
  <2>5. Cost * admitted \in Int /\ Cost * spent[Agent] \in Int
    BY <2>2
  <2> HIDE DEF limit
  <2>6. Cost * admitted <= limit
    BY <2>2, <2>3, <2>4, <2>5
  <2> QED BY <2>6 DEF AgentCap, limit
<1> QED BY <1>1, LimiterInvariance, NoWindowExceeds, PTL

-------------------------------------------------------------------------------
(***************************************************************************)
(* How far a request is decides what is known of it.  Before it is         *)
(* identified it has neither a call nor an answer; from then on its        *)
(* principal is what the authorizer it met at its arrival makes of its     *)
(* header and its token.                                                   *)
(***************************************************************************)
Identity(r) ==
  Identify(Policy[seen[r]], claim[r].header, claim[r].token)

IdentityInv(r) ==
  /\ pc[r] # "new" => claim[r] \in Claims
  /\ pc[r] \in {"new", "identify"} => principal[r] = None
  /\ pc[r] \notin {"new", "identify"} => principal[r] = Identity(r)
  /\ pc[r] \in {"begin", "start", "wait", "progress", "gone"} => principal[r] # None
  /\ pc[r] \in {"new", "identify", "begin", "start"} => task[r] = "none"
  /\ pc[r] = "closed" =>
       \/ task[r] = "none" /\ principal[r] = None
       \/ task[r] \in Finished /\ principal[r] # None

(***************************************************************************)
(* A call that was let pass is past the authorization, which its agent and *)
(* its tool met under the policy then in force.                            *)
(***************************************************************************)
DecisionInv(r) ==
  decided[r] # 0 =>
    /\ task[r] \notin {"none", "created"}
    /\ AuthorizeToolCall(Policy[decided[r]], principal[r], claim[r].tool)

(***************************************************************************)
(* The first n events of a stream are its start and its heartbeats.        *)
(***************************************************************************)
Opening(r, n) ==
  \A i \in 1..n : events[r][i] = IF i = 1 THEN "start" ELSE "progress"

EventInv(r) ==
  /\ pc[r] \in {"new", "identify", "begin"} => events[r] = <<>>
  /\ pc[r] \in {"start", "wait", "progress", "gone"} =>
       IF claim[r].stream THEN Len(events[r]) > 0 /\ Opening(r, Len(events[r]))
                          ELSE pc[r] = "wait" /\ events[r] = <<>>
  /\ pc[r] = "closed" =>
       /\ Len(events[r]) > 0
       /\ Opening(r, Len(events[r]) - 1)
       /\ events[r][Len(events[r])] = IF task[r] = "ok" THEN "result" ELSE "error"
       /\ Len(events[r]) = 1 => ~claim[r].stream \/ principal[r] = None

StreamInv ==
  /\ TypeOK
  /\ \A r \in Requests : IdentityInv(r) /\ DecisionInv(r) /\ EventInv(r)

LEMMA SomeVersion == 1 \in Versions
  BY StreamAssumption DEF Versions

(***************************************************************************)
(* identify returns a principal of the policy, or nothing.                 *)
(***************************************************************************)
LEMMA IdentifyTypes ==
  ASSUME NEW v \in Versions, NEW header \in Agents \union {None},
         NEW token \in Agents \union {Forged, None}
  PROVE  Identify(Policy[v], header, token) \in Principals \union {None}
<1> DEFINE Names == {"*"} \union {t.raw : t \in Tools} \union {t.qualified : t \in Tools}
<1>1. \A agent \in Agents : Policy[v].permissions[agent] \in SUBSET Names
  BY StreamAssumption
<1>2. \A agent \in Agents : Principal(Policy[v], agent) \in Principals
  BY <1>1 DEF Principal, Principals
<1>3. \A agent \in Agents \union {Anonymous} :
        [agent |-> agent, permissions |-> {"*"}] \in Principals
  BY DEF Principals
<1> HIDE DEF Names
<1>4. CASE ~Policy[v].enabled
  BY <1>3, <1>4 DEF Identify
<1>5. CASE Policy[v].enabled
  BY <1>2, <1>5 DEF Identify
<1> QED
  BY <1>4, <1>5

(***************************************************************************)
(* Whom identify takes for the caller, where access control is on: the     *)
(* agent of the token if there is one and OIDC is on, or of the header.    *)
(***************************************************************************)
LEMMA IdentifiedAsOwner ==
  ASSUME NEW policy, NEW header, NEW token,
         Identify(policy, header, token) # None, policy.enabled
  PROVE  Identify(policy, header, token) =
           Principal(policy, IF policy.oidc /\ token # None THEN token ELSE header)
<1>1. CASE policy.oidc /\ token # None
  BY <1>1 DEF Identify
<1>2. CASE ~(policy.oidc /\ token # None)
  BY <1>2 DEF Identify
<1> QED
  BY <1>1, <1>2

-------------------------------------------------------------------------------
LEMMA StreamInit == Init => StreamInv
<1> SUFFICES ASSUME Init PROVE StreamInv
  OBVIOUS
<1>1. TypeOK
  <2>1. events \in [Requests -> Seq({"start", "progress", "result", "error"})]
    BY DEF Init
  <2> QED
    BY <2>1, SomeVersion DEF Init, TypeOK
<1>2. ASSUME NEW r \in Requests
      PROVE  IdentityInv(r) /\ DecisionInv(r) /\ EventInv(r)
  BY DEF Init, IdentityInv, DecisionInv, EventInv
<1> QED
  BY <1>1, <1>2 DEF StreamInv

(***************************************************************************)
(* A step of one request leaves what is known of the others.               *)
(***************************************************************************)
Same(r) ==
  /\ pc'[r] = pc[r] /\ claim'[r] = claim[r] /\ seen'[r] = seen[r]
  /\ principal'[r] = principal[r] /\ task'[r] = task[r]
  /\ decided'[r] = decided[r] /\ events'[r] = events[r]

RequestInv(r) == IdentityInv(r) /\ DecisionInv(r) /\ EventInv(r)

LEMMA SameKeeps ==
  ASSUME NEW r \in Requests, Same(r), RequestInv(r) PROVE RequestInv(r)'
  BY DEF Same, RequestInv, IdentityInv, Identity, DecisionInv, EventInv, Opening

LEMMA EventTypes ==
  ASSUME TypeOK, NEW r \in Requests, NEW e \in {"start", "progress", "result", "error"},
         Emit(r, e)
  PROVE  /\ events' \in [Requests -> Seq({"start", "progress", "result", "error"})]
         /\ Len(events'[r]) = Len(events[r]) + 1
         /\ events'[r][Len(events'[r])] = e
         /\ \A i \in 1..Len(events[r]) : events'[r][i] = events[r][i]
         /\ \A q \in Requests \ {r} : events'[q] = events[q]
  BY DEF TypeOK, Emit

LEMMA FirstEvent ==
  ASSUME TypeOK, NEW r \in Requests, NEW e \in {"start", "progress", "result", "error"},
         Emit(r, e), events[r] = <<>>
  PROVE  events'[r] = <<e>>
  BY DEF TypeOK, Emit

(***************************************************************************)
(* The steps of a request, one by one.                                     *)
(***************************************************************************)
Kept(r) == TypeOK' /\ RequestInv(r)' /\ \A q \in Requests \ {r} : Same(q)

LEMMA ArriveKeeps ==
  ASSUME TypeOK, NEW r \in Requests, RequestInv(r), NEW c \in Claims, Arrive(r, c)
  PROVE  Kept(r)
<1> USE DEF Arrive, Goto, authVars
<1>1. TypeOK'
  BY DEF TypeOK
<1>2. /\ pc'[r] = "identify" /\ claim'[r] = c
      /\ principal'[r] = principal[r] /\ task'[r] = task[r]
      /\ decided'[r] = decided[r] /\ events'[r] = events[r]
  BY DEF TypeOK
<1>3. decided[r] = 0 /\ events[r] = <<>> /\ task[r] = "none" /\ principal[r] = None
  BY DEF RequestInv, IdentityInv, DecisionInv, EventInv
<1>4. RequestInv(r)'
  BY <1>2, <1>3 DEF RequestInv, IdentityInv, DecisionInv, EventInv
<1>5. \A q \in Requests \ {r} : Same(q)
  BY DEF TypeOK, Same
<1> QED
  BY <1>1, <1>4, <1>5 DEF Kept

LEMMA IdentifiedKeeps ==
  ASSUME TypeOK, NEW r \in Requests, RequestInv(r), Identified(r)
  PROVE  Kept(r)
<1> USE DEF Identified, Goto, authVars
<1>1. claim[r] \in Claims /\ seen[r] \in Versions
  BY DEF RequestInv, IdentityInv, TypeOK
<1>2. Identity(r) \in Principals \union {None}
  BY <1>1, IdentifyTypes DEF Identity, Claims
<1>3. principal' = [principal EXCEPT ![r] = Identity(r)]
  BY DEF Identity
<1>4. decided[r] = 0 /\ events[r] = <<>> /\ task[r] = "none"
  BY DEF RequestInv, IdentityInv, DecisionInv, EventInv
<1>5. Identity(r)' = Identity(r)
  BY DEF Identity
<1>6. CASE Identity(r) = None
  <2>1. Emit(r, "error") /\ pc' = [pc EXCEPT ![r] = "closed"]
    BY <1>6 DEF Identity
  <2>2. TypeOK'
    BY <1>2, <1>3, <2>1, EventTypes DEF TypeOK
  <2>3. Len(events'[r]) = 1 /\ events'[r][1] = "error"
    <3>1. events'[r] = <<"error">>
      BY <1>4, <2>1, FirstEvent
    <3> QED
      BY <3>1
  <2>4. RequestInv(r)'
    BY <1>1, <1>3, <1>4, <1>5, <1>6, <2>1, <2>3
       DEF TypeOK, RequestInv, IdentityInv, DecisionInv, EventInv, Opening
  <2>5. \A q \in Requests \ {r} : Same(q)
    BY <1>3, <2>1, EventTypes DEF TypeOK, Same
  <2> QED
    BY <2>2, <2>4, <2>5 DEF Kept
<1>7. CASE Identity(r) # None
  <2>1. events' = events /\ pc' = [pc EXCEPT ![r] = "begin"]
    BY <1>7 DEF Identity
  <2>2. TypeOK'
    BY <1>2, <1>3, <2>1 DEF TypeOK
  <2>3. RequestInv(r)'
    BY <1>1, <1>3, <1>4, <1>5, <1>7, <2>1
       DEF TypeOK, RequestInv, IdentityInv, DecisionInv, EventInv
  <2>4. \A q \in Requests \ {r} : Same(q)
    BY <1>3, <2>1 DEF TypeOK, Same
  <2> QED
    BY <2>2, <2>3, <2>4 DEF Kept
<1> QED
  BY <1>6, <1>7

LEMMA BeginKeeps ==
  ASSUME TypeOK, NEW r \in Requests, RequestInv(r), Begin(r)
  PROVE  Kept(r)
<1> USE DEF Begin, Goto, SetTask, authVars
<1>1. claim[r] \in Claims /\ principal[r] = Identity(r) /\ principal[r] # None
      /\ events[r] = <<>> /\ decided[r] = 0
  BY DEF RequestInv, IdentityInv, EventInv, DecisionInv
<1>2. Identity(r)' = Identity(r)
  BY DEF Identity
<1>3. CASE claim[r].stream
  <2>1. TypeOK'
    BY <1>3, EventTypes DEF TypeOK
  <2>2. Len(events'[r]) = 1 /\ events'[r][1] = "start"
    <3>1. events'[r] = <<"start">>
      BY <1>1, <1>3, FirstEvent
    <3> QED
      BY <3>1
  <2>3. RequestInv(r)'
    BY <1>1, <1>2, <1>3, <2>2
       DEF TypeOK, RequestInv, IdentityInv, DecisionInv, EventInv, Opening
  <2>4. \A q \in Requests \ {r} : Same(q)
    BY <1>3, EventTypes DEF TypeOK, Same
  <2> QED
    BY <2>1, <2>3, <2>4 DEF Kept
<1>4. CASE ~claim[r].stream
  <2>1. TypeOK'
    BY <1>4 DEF TypeOK
  <2>2. RequestInv(r)'
    BY <1>1, <1>2, <1>4 DEF TypeOK, RequestInv, IdentityInv, DecisionInv, EventInv
  <2>3. \A q \in Requests \ {r} : Same(q)
    BY <1>4 DEF TypeOK, Same
  <2> QED
    BY <2>1, <2>2, <2>3 DEF Kept
<1> QED
  BY <1>3, <1>4

(***************************************************************************)
(* Steps that only move the request or its task keep its identity; what    *)
(* they change is named by each of the lemmas.                             *)
(***************************************************************************)
LEMMA CreateTaskKeeps ==
  ASSUME TypeOK, NEW r \in Requests, RequestInv(r), CreateTask(r)
  PROVE  Kept(r)
<1> USE DEF CreateTask, Goto, SetTask, authVars
<1>1. TypeOK'
  BY DEF TypeOK
<1>2. Identity(r)' = Identity(r)
  BY DEF Identity
<1>3. RequestInv(r)'
  BY <1>2 DEF TypeOK, RequestInv, IdentityInv, DecisionInv, EventInv, Opening
<1>4. \A q \in Requests \ {r} : Same(q)
  BY DEF TypeOK, Same
<1> QED
  BY <1>1, <1>3, <1>4 DEF Kept

LEMMA CallKeeps ==
  ASSUME TypeOK, NEW r \in Requests, RequestInv(r), Starts(r) \/ Returns(r)
  PROVE  Kept(r)
<1>1. PICK outcome \in Finished \union {"running"} :
        /\ task[r] \in {"created", "running"}
        /\ task' = [task EXCEPT ![r] = outcome]
        /\ decided' = decided \/
             (decided' = [decided EXCEPT ![r] = enforcer] /\ Authorized(r))
        /\ UNCHANGED <<identifier, enforcer, pc, claim, seen, principal, events>>
  BY DEF Starts, Returns, Rejected, Admitted, Return, SetTask, authVars, Finished
<1>2. TypeOK'
  BY <1>1 DEF TypeOK
<1>3. Identity(r)' = Identity(r)
  BY <1>1 DEF Identity
<1>4. IdentityInv(r)'
  BY <1>1, <1>3 DEF TypeOK, RequestInv, IdentityInv, Finished
<1>5. EventInv(r)'
  <2>1. pc[r] # "closed"
    BY <1>1 DEF RequestInv, IdentityInv, Finished
  <2> QED
    BY <1>1, <2>1 DEF TypeOK, RequestInv, EventInv, Opening
<1>6. DecisionInv(r)'
  BY <1>1 DEF TypeOK, RequestInv, DecisionInv, Authorized, Finished
<1>7. \A q \in Requests \ {r} : Same(q)
  BY <1>1 DEF TypeOK, Same
<1> QED
  BY <1>2, <1>4, <1>5, <1>6, <1>7 DEF Kept, RequestInv

LEMMA HeartbeatKeeps ==
  ASSUME TypeOK, NEW r \in Requests, RequestInv(r), Heartbeat(r)
  PROVE  Kept(r)
<1>1. /\ pc[r] = "wait" /\ claim[r].stream /\ task[r] \notin Finished
      /\ events' = events \/ Emit(r, "progress")
      /\ pc' = [pc EXCEPT ![r] = "progress"]
      /\ UNCHANGED <<identifier, enforcer, claim, seen, principal, task, decided>>
  BY DEF Heartbeat, EmitProgress, Goto, authVars
<1>2. TypeOK'
  BY <1>1, EventTypes DEF TypeOK
<1>3. Identity(r)' = Identity(r)
  BY <1>1 DEF Identity
<1>4. IdentityInv(r)' /\ DecisionInv(r)'
  BY <1>1, <1>3 DEF TypeOK, RequestInv, IdentityInv, DecisionInv
<1>5. EventInv(r)'
  <2>1. PICK n \in Nat : n = Len(events[r])
    BY DEF TypeOK
  <2>2. n > 0 /\ Opening(r, n)
    BY <1>1, <2>1 DEF RequestInv, EventInv
  <2>3. CASE events' = events
    BY <1>1, <2>1, <2>2, <2>3 DEF TypeOK, EventInv, Opening
  <2>4. CASE Emit(r, "progress")
    <3>1. Len(events'[r]) = n + 1 /\ events'[r][n + 1] = "progress" /\ Opening(r, n)'
      BY <2>1, <2>2, <2>4, EventTypes DEF Opening
    <3>2. Opening(r, n + 1)'
      BY <2>2, <3>1 DEF Opening
    <3> QED
      BY <1>1, <3>1, <3>2 DEF TypeOK, EventInv
  <2> QED
    BY <1>1, <2>3, <2>4
<1>6. \A q \in Requests \ {r} : Same(q)
  BY <1>1, EventTypes DEF TypeOK, Same
<1> QED
  BY <1>2, <1>4, <1>5, <1>6 DEF Kept, RequestInv

LEMMA ProgressSentKeeps ==
  ASSUME TypeOK, NEW r \in Requests, RequestInv(r), ProgressSent(r)
  PROVE  Kept(r)
<1> USE DEF ProgressSent, Goto, authVars
<1>1. TypeOK'
  BY DEF TypeOK
<1>2. Identity(r)' = Identity(r)
  BY DEF Identity
<1>3. RequestInv(r)'
  BY <1>2 DEF TypeOK, RequestInv, IdentityInv, DecisionInv, EventInv, Opening
<1>4. \A q \in Requests \ {r} : Same(q)
  BY DEF TypeOK, Same
<1> QED
  BY <1>1, <1>3, <1>4 DEF Kept

LEMMA DisconnectKeeps ==
  ASSUME TypeOK, NEW r \in Requests, RequestInv(r), Disconnect(r)
  PROVE  Kept(r)
<1> USE DEF Disconnect, Goto, authVars
<1>1. TypeOK'
  BY DEF TypeOK
<1>2. Identity(r)' = Identity(r)
  BY DEF Identity
<1>3. RequestInv(r)'
  BY <1>2 DEF TypeOK, RequestInv, IdentityInv, DecisionInv, EventInv, Opening
<1>4. \A q \in Requests \ {r} : Same(q)
  BY DEF TypeOK, Same
<1> QED
  BY <1>1, <1>3, <1>4 DEF Kept

LEMMA FinalEventKeeps ==
  ASSUME TypeOK, NEW r \in Requests, RequestInv(r), FinalEvent(r)
  PROVE  Kept(r)
<1> DEFINE e == IF task[r] = "ok" THEN "result" ELSE "error"
<1>1. /\ pc[r] = "wait" /\ task[r] \in Finished
      /\ Emit(r, e)
      /\ pc' = [pc EXCEPT ![r] = "closed"]
      /\ UNCHANGED <<identifier, enforcer, claim, seen, principal, task, decided>>
  BY DEF FinalEvent, Goto, authVars
<1>2. TypeOK'
  BY <1>1, EventTypes DEF TypeOK
<1>3. Identity(r)' = Identity(r)
  BY <1>1 DEF Identity
<1>4. IdentityInv(r)' /\ DecisionInv(r)'
  BY <1>1, <1>3 DEF TypeOK, RequestInv, IdentityInv, DecisionInv
<1>5. EventInv(r)'
  <2>1. PICK n \in Nat : n = Len(events[r])
    BY DEF TypeOK
  <2>2. (claim[r].stream => n > 0) /\ Opening(r, n)
    BY <1>1, <2>1 DEF RequestInv, EventInv, Opening
  <2>3. Len(events'[r]) = n + 1 /\ events'[r][n + 1] = e /\ Opening(r, n)'
    <3>1. e \in {"start", "progress", "result", "error"}
      OBVIOUS
    <3> HIDE DEF e
    <3> QED
      BY <1>1, <2>1, <2>2, <3>1, EventTypes DEF Opening
  <2> QED
    BY <1>1, <2>2, <2>3 DEF TypeOK, EventInv
<1>6. \A q \in Requests \ {r} : Same(q)
  BY <1>1, EventTypes DEF TypeOK, Same
<1> QED
  BY <1>2, <1>4, <1>5, <1>6 DEF Kept, RequestInv

LEMMA StreamStep == StreamInv /\ [Next]_vars => StreamInv'
<1> SUFFICES ASSUME StreamInv, [Next]_vars PROVE StreamInv'
  OBVIOUS
<1>1. TypeOK /\ \A r \in Requests : RequestInv(r)
  BY DEF StreamInv, RequestInv
<1>2. ASSUME NEW r \in Requests, Kept(r) PROVE StreamInv'
  <2>1. \A q \in Requests \ {r} : RequestInv(q)'
    BY <1>1, <1>2, SameKeeps DEF Kept
  <2> QED
    BY <1>2, <2>1 DEF Kept, StreamInv, RequestInv
<1>3. ASSUME TypeOK', \A r \in Requests : Same(r) PROVE StreamInv'
  BY <1>1, <1>3, SameKeeps DEF StreamInv, RequestInv
<1>4. ASSUME NEW r \in Requests, NEW c \in Claims, Arrive(r, c) PROVE StreamInv'
  BY <1>1, <1>2, <1>4, ArriveKeeps
<1>5. ASSUME NEW r \in Requests, Respond(r) PROVE StreamInv'
  BY <1>1, <1>2, <1>5, IdentifiedKeeps, BeginKeeps, CreateTaskKeeps, ProgressSentKeeps,
     FinalEventKeeps DEF Respond
<1>6. ASSUME NEW r \in Requests, Starts(r) \/ Returns(r) \/ Heartbeat(r) \/ Disconnect(r)
      PROVE  StreamInv'
  BY <1>1, <1>2, <1>6, CallKeeps, HeartbeatKeeps, DisconnectKeeps
<1>7. CASE SwapAuthorizer \/ EndReload
  <2>1. UNCHANGED requestVars /\ identifier' \in Versions /\ enforcer' \in Versions
    BY <1>1, <1>7, StreamAssumption DEF SwapAuthorizer, EndReload, TypeOK, Versions
  <2> QED
    BY <1>1, <1>3, <2>1 DEF requestVars, TypeOK, Same
<1>8. CASE UNCHANGED vars
  BY <1>1, <1>3, <1>8 DEF vars, authVars, requestVars, TypeOK, Same
<1> QED
  BY <1>4, <1>5, <1>6, <1>7, <1>8 DEF Next

(***************************************************************************)
(* Every request of call_tool and call_tool_stream stays what its arrival  *)
(* and the authorizer's decision made it, while reloads interleave.        *)
(***************************************************************************)
THEOREM StreamInvariance == Spec => []StreamInv
  BY StreamInit, StreamStep, PTL DEF Spec

(***************************************************************************)
(* call_tool, call_tool_stream and get_principal keep the types of what    *)
(* they hand on to each other.                                             *)
(***************************************************************************)
THEOREM StreamTypeCorrect == Spec => []TypeOK
<1>1. StreamInv => TypeOK
  BY DEF StreamInv
<1> QED
  BY <1>1, StreamInvariance, PTL

(***************************************************************************)
(* Every stream call_tool_stream sends begins with start, ends with at     *)
(* most one result or error, and the result stands for a call that         *)
(* succeeded; whatever its heartbeats and disconnects.                     *)
(***************************************************************************)
THEOREM StreamsAreWellFormed == Spec => []StreamIsWellFormed
<1>1. StreamInv => StreamIsWellFormed
  <2> SUFFICES ASSUME StreamInv, NEW r \in Requests, NEW i \in 1..Len(events[r])
               PROVE  LET e == events[r][i]
                      IN  /\ e = "start" => i = 1
                          /\ i = 1 => e = "start" \/ ~claim[r].stream \/ principal[r] = None
                          /\ e \in {"result", "error"} => i = Len(events[r]) /\ pc[r] = "closed"
                          /\ e = "result" => task[r] = "ok"
                          /\ e = "error" => task[r] # "ok"
    BY DEF StreamIsWellFormed
  <2>1. PICK n \in Nat : n = Len(events[r])
    BY DEF StreamInv, TypeOK
  <2>2. EventInv(r) /\ i \in 1..n /\ n > 0
    BY <2>1 DEF StreamInv
  <2>3. pc[r] \in {"new", "identify", "begin", "start", "wait", "progress", "closed", "gone"}
    BY DEF StreamInv, TypeOK
  <2>4. CASE pc[r] = "closed"
    <3>1. CASE i = n
      <4>1. events[r][i] = IF task[r] = "ok" THEN "result" ELSE "error"
        BY <2>1, <2>2, <2>4, <3>1 DEF EventInv
      <4>2. i = 1 => ~claim[r].stream \/ principal[r] = None
        BY <2>1, <2>2, <2>4, <3>1 DEF EventInv
      <4> QED
        BY <2>1, <2>4, <3>1, <4>1, <4>2
    <3>2. CASE i # n
      <4>1. events[r][i] = IF i = 1 THEN "start" ELSE "progress"
        BY <2>1, <2>2, <2>4, <3>2 DEF EventInv, Opening
      <4> QED
        BY <4>1
    <3> QED
      BY <3>1, <3>2
  <2>5. CASE pc[r] # "closed"
    <3>1. events[r][i] = IF i = 1 THEN "start" ELSE "progress"
      BY <2>1, <2>2, <2>3, <2>5 DEF EventInv, Opening
    <3> QED
      BY <3>1
  <2> QED
    BY <2>4, <2>5
<1> QED
  BY <1>1, StreamInvariance, PTL

(***************************************************************************)
(* Whatever reloads replace the two authorizers between the arrival of a   *)
(* request, get_principal and authorize_tool_call, a call that is let pass *)
(* acts as its owner, with the owner's permissions, and a mutable tool is  *)
(* called only by agents that the policy in force lists.                   *)
(***************************************************************************)
THEOREM CallsAreAuthorized == Spec => []OnlyAllowedCallsPass
<1>1. StreamInv => OnlyAllowedCallsPass
  <2> SUFFICES ASSUME StreamInv, NEW r \in Requests, decided[r] # 0
               PROVE
    LET then  == Policy[seen[r]]
        policy == Policy[decided[r]]
        agent == principal[r].agent
        tool  == claim[r].tool
        owner == IF then.oidc /\ claim[r].token # None THEN claim[r].token
                                                       ELSE claim[r].header
    IN  /\ then.enabled => agent = owner
        /\ policy.enabled /\ tool.mutable => agent \in policy.mutableAllowed
        /\ policy.enabled /\ then.enabled =>
             \/ then.permissions[owner] = {}
             \/ "*" \in then.permissions[owner]
             \/ {tool.raw, tool.qualified} \intersect then.permissions[owner] # {}
    BY DEF OnlyAllowedCallsPass
  <2> DEFINE then  == Policy[seen[r]]
             policy == Policy[decided[r]]
             tool  == claim[r].tool
             owner == IF then.oidc /\ claim[r].token # None THEN claim[r].token
                                                            ELSE claim[r].header
  <2>1. AuthorizeToolCall(policy, principal[r], tool)
    BY DEF StreamInv, DecisionInv
  <2>2. principal[r] = Identity(r) /\ principal[r] # None
    <3>1. task[r] # "none" /\ IdentityInv(r)
      BY DEF StreamInv, DecisionInv
    <3>2. pc[r] \in {"new", "identify", "begin", "start", "wait", "progress", "closed", "gone"}
      BY DEF StreamInv, TypeOK
    <3> QED
      BY <3>1, <3>2 DEF IdentityInv
  <2>3. then.enabled => principal[r] = Principal(then, owner)
    BY <2>2, IdentifiedAsOwner DEF Identity
  <2>4. then.enabled =>
          principal[r].agent = owner /\ principal[r].permissions = then.permissions[owner]
    BY <2>3 DEF Principal
  <2> HIDE DEF then, policy, tool, owner
  <2>5. /\ then.enabled => principal[r].agent = owner
        /\ policy.enabled /\ tool.mutable => principal[r].agent \in policy.mutableAllowed
        /\ policy.enabled /\ then.enabled =>
             \/ then.permissions[owner] = {}
             \/ "*" \in then.permissions[owner]
             \/ {tool.raw, tool.qualified} \intersect then.permissions[owner] # {}
    BY <2>1, <2>4 DEF AuthorizeToolCall, Can
  <2> QED
    BY <2>5 DEF then, policy, tool, owner
<1> QED
  BY <1>1, StreamInvariance, PTL
===============================================================================
