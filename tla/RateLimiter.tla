----------------------------- MODULE RateLimiter -----------------------------
(***************************************************************************)
(* The rate limiter as one agent sees it (app/middleware/ratelimit.py): a  *)
(* token bucket for all of the agent's calls and one for each tool it      *)
(* calls.  Buckets of different agents are independent.                    *)
(*                                                                         *)
(* check() never suspends, so it is one step.  Tokens are counted in       *)
(* fractions: a call costs Cost units, and a bucket gains Rate units per   *)
(* unit of time, up to Capacity.                                           *)
(***************************************************************************)
EXTENDS Integers

CONSTANTS
  LimitedTools,       \* the tools the agent calls
  Agent,       \* the agent's own bucket
  Cost,        \* units per token
  Rate,        \* per bucket: units gained per unit of time
  Capacity,    \* per bucket: units it holds (burst)
  MaxTime      \* bound: how far the clock runs

Buckets == LimitedTools \union {Agent}

ASSUME LimiterAssumption ==
  /\ Agent \notin LimitedTools
  /\ Cost \in Nat \ {0}
  /\ Rate \in [Buckets -> Nat]
  /\ Capacity \in [Buckets -> Nat]
  /\ MaxTime \in Nat

VARIABLES
  now,        \* time.monotonic()
  made,       \* buckets that were created
  tokens,     \* _tokens
  last,       \* _last
  win,        \* history: when the window under observation began
  spent,      \* history: tokens taken from each bucket in the window
  admitted    \* history: calls let through in the window

limiterVars == <<now, made, tokens, last, win, spent, admitted>>

LimiterTypeOK ==
  /\ now \in 0..MaxTime
  /\ made \subseteq Buckets
  /\ tokens \in [Buckets -> Nat]
  /\ last \in [Buckets -> 0..MaxTime]
  /\ win \in 0..MaxTime
  /\ spent \in [Buckets -> Nat]
  /\ admitted \in Nat

LimiterInit ==
  /\ now = 0
  /\ made = {}
  /\ tokens = Capacity
  /\ last = [b \in Buckets |-> 0]
  /\ win = 0
  /\ spent = [b \in Buckets |-> 0]
  /\ admitted = 0

(***************************************************************************)
(* The tokens of bucket b when consume() looks at them.  A bucket is made  *)
(* full, when it is first used.                                            *)
(***************************************************************************)
Refilled(b) ==
  LET t == tokens[b] + Rate[b] * (now - last[b])
  IN  IF b \in made /\ t < Capacity[b] THEN t ELSE Capacity[b]

\* Plausible fault: a refused call does not store the time it refilled at.
Consume_KeepsTime(takes, fails) ==
  /\ made' = made \union takes \union fails
  /\ tokens' = [b \in Buckets |->
                  IF b \in takes THEN Refilled(b) - Cost
                  ELSE IF b \in fails THEN Refilled(b) ELSE tokens[b]]
  /\ last' = [b \in Buckets |-> IF b \in takes THEN now ELSE last[b]]
  /\ spent' = [b \in Buckets |-> IF b \in takes THEN spent[b] + 1 ELSE spent[b]]

(***************************************************************************)
(* consume() succeeds for the buckets in takes and fails for those in      *)
(* fails.  Either way the refilled tokens and the time are stored.         *)
(***************************************************************************)
Consume(takes, fails) ==
  /\ made' = made \union takes \union fails
  /\ tokens' = [b \in Buckets |->
                  IF b \in takes THEN Refilled(b) - Cost
                  ELSE IF b \in fails THEN Refilled(b) ELSE tokens[b]]
  /\ last' = [b \in Buckets |-> IF b \in takes \union fails THEN now ELSE last[b]]
  /\ spent' = [b \in Buckets |-> IF b \in takes THEN spent[b] + 1 ELSE spent[b]]

(***************************************************************************)
(* check(agent, t): the agent's bucket first, then the tool's.  A call     *)
(* refused by the tool's bucket has already paid the agent's.              *)
(***************************************************************************)
RefusedByAgent(t) ==
  /\ Refilled(Agent) < Cost
  /\ Consume({}, {Agent})
  /\ UNCHANGED <<now, win, admitted>>

RefusedByTool(t) ==
  /\ Refilled(Agent) >= Cost
  /\ Refilled(t) < Cost
  /\ Consume({Agent}, {t})
  /\ UNCHANGED <<now, win, admitted>>

\* Plausible fault: the call is let through when either bucket has a token.
Allowed_EitherBucket(t) ==
  /\ Refilled(Agent) >= Cost \/ Refilled(t) >= Cost
  /\ Consume({b \in {Agent, t} : Refilled(b) >= Cost}, {})
  /\ admitted' = admitted + 1
  /\ UNCHANGED <<now, win>>

Allowed(t) ==
  /\ Refilled(Agent) >= Cost
  /\ Refilled(t) >= Cost
  /\ Consume({Agent, t}, {})
  /\ admitted' = admitted + 1
  /\ UNCHANGED <<now, win>>

(***************************************************************************)
(* A hot reload puts a new RateLimiter in place; the observation restarts. *)
(***************************************************************************)
NewWindow == win' = now /\ spent' = [b \in Buckets |-> 0] /\ admitted' = 0

Reload ==
  /\ made' = {}
  /\ NewWindow
  /\ UNCHANGED <<now, tokens, last>>

ObserveFromNow == NewWindow /\ UNCHANGED <<now, made, tokens, last>>

ClockTick ==
  /\ now < MaxTime
  /\ now' = now + 1
  /\ UNCHANGED <<made, tokens, last, win, spent, admitted>>

LimiterNext ==
  \/ \E t \in LimitedTools : RefusedByAgent(t) \/ RefusedByTool(t) \/ Allowed(t)
  \/ Reload \/ ObserveFromNow \/ ClockTick

LimiterSpec == LimiterInit /\ [][LimiterNext]_limiterVars

-------------------------------------------------------------------------------
(***************************************************************************)
(* In every window of time, wherever it begins, a bucket grants no more    *)
(* than its burst plus what its rate yields in the window, however calls,  *)
(* refusals and idle times alternate.                                      *)
(***************************************************************************)
WindowBound ==
  \A b \in Buckets : Cost * spent[b] <= Capacity[b] + Rate[b] * (now - win)

(***************************************************************************)
(* "Per-agent global limiter -- caps total tool calls/sec for an agent"    *)
(* (ratelimit.py, line 4): the calls let through in a window, over all     *)
(* tools, stay within the agent's own burst and rate.                      *)
(***************************************************************************)
AgentCap ==
  Cost * admitted <= Capacity[Agent] + Rate[Agent] * (now - win)
===============================================================================
