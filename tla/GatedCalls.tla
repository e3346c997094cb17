------------------------------ MODULE GatedCalls ------------------------------
(***************************************************************************)
(* The breaker of one upstream driven by concurrent calls.  A call passes  *)
(* before_call, is answered by the upstream some time later, and only then *)
(* reports on_success or on_failure (app/transport/mcp_client.py, _gate,   *)
(* _on_ok, _on_err): by then other calls may have moved the circuit on, so *)
(* outcomes arrive late, from calls admitted in an earlier circuit state.  *)
(***************************************************************************)
EXTENDS CircuitBreaker

CONSTANTS
  Calls,       \* calls that may be in flight at the same time
  MaxFaults    \* bound: calls that fail or are cancelled in a behaviour

ASSUME FaultsAssumption == MaxFaults \in Nat

VARIABLES
  inflight,    \* calls admitted by before_call that have not ended
  faults,      \* calls that failed or were cancelled so far
  failRun,     \* history: failures reported since the last reported success
  okRun        \* history: successes reported since the last reported failure,
               \* up to ProbeSuccesses

gateVars == <<breakerVars, inflight, faults, failRun, okRun>>

GateTypeOK ==
  /\ BreakerTypeOK
  /\ inflight \subseteq Calls
  /\ faults \in 0..MaxFaults
  /\ failRun \in Nat
  /\ okRun \in 0..ProbeSuccesses

GateInit ==
  /\ BreakerInit
  /\ inflight = {}
  /\ faults = 0 /\ failRun = 0 /\ okRun = 0

Admit(c) ==
  /\ c \notin inflight
  /\ BeforeCall
  /\ inflight' = inflight \union {c}
  /\ UNCHANGED <<faults, failRun, okRun>>

Ends(c) ==
  /\ c \in inflight
  /\ inflight' = inflight \ {c}

Succeed(c) ==
  /\ Ends(c)
  /\ OnSuccess
  /\ failRun' = 0
  /\ okRun' = IF okRun < ProbeSuccesses THEN okRun + 1 ELSE okRun
  /\ UNCHANGED faults

Fail(c) ==
  /\ faults < MaxFaults
  /\ Ends(c)
  /\ OnFailure
  /\ faults' = faults + 1
  /\ failRun' = failRun + 1
  /\ okRun' = 0

(***************************************************************************)
(* The task of the call is cancelled.  CancelledError is not an Exception: *)
(* neither handler runs, and the breaker never hears of the call again.    *)
(***************************************************************************)
Cancelled(c) ==
  /\ faults < MaxFaults
  /\ Ends(c)
  /\ faults' = faults + 1
  /\ UNCHANGED <<breakerVars, failRun, okRun>>

GateTick == Tick /\ UNCHANGED <<inflight, faults, failRun, okRun>>

GateNext ==
  \/ \E c \in Calls : Admit(c) \/ Succeed(c) \/ Fail(c) \/ Cancelled(c)
  \/ GateTick

(***************************************************************************)
(* The clock runs, and somebody keeps calling: the health sweep syncs      *)
(* every enabled server once per interval (app/main.py, _health_sweep).    *)
(* Of the environment it is assumed that an upstream that does not fail    *)
(* answers; no call has a time limit that would see to it.                 *)
(***************************************************************************)
GateFairness ==
  /\ WF_gateVars(GateTick)
  /\ \A c \in Calls : WF_gateVars(Admit(c)) /\ WF_gateVars(Succeed(c))

GateSpec == GateInit /\ [][GateNext]_gateVars

GateFairSpec == GateSpec /\ GateFairness

-------------------------------------------------------------------------------
(***************************************************************************)
(* A closed circuit has not seen FailureThreshold failures in a row: the   *)
(* failures of overlapping calls are all counted, in the order they are    *)
(* reported, and the one that completes the run opens the circuit.         *)
(***************************************************************************)
ClosedBelowThreshold ==
  state = "CLOSED" /\ failRun > 0 => failRun < FailureThreshold

(***************************************************************************)
(* "CLOSED -> OPEN: failure_threshold consecutive failures"                *)
(* (circuit_breaker.py, line 4).  No run of failures that is shorter, or   *)
(* interrupted by a success, or started before the circuit last closed,    *)
(* opens a closed circuit.                                                 *)
(***************************************************************************)
TripsOnlyOnFailureRun ==
  [][state = "CLOSED" /\ state' = "OPEN" => failRun' >= FailureThreshold]_gateVars

(***************************************************************************)
(* "HALF_OPEN -> CLOSED: probe_successes consecutive successes"            *)
(* (circuit_breaker.py, line 6).  Successes separated by a failure, or     *)
(* left over from an earlier half-open period, do not add up, and nothing  *)
(* but a half-open circuit ever closes.                                    *)
(***************************************************************************)
ClosesOnlyOnProbeRun ==
  [][state # "CLOSED" /\ state' = "CLOSED" =>
       state = "HALF_OPEN" /\ okRun' >= ProbeSuccesses]_gateVars

(***************************************************************************)
(* Outcomes that arrive late, from calls admitted before the circuit       *)
(* opened, neither end its refusal period early nor extend it: an open     *)
(* circuit is left only through a half-open probe after RecoveryTimeout,   *)
(* and its timer never goes back.                                          *)
(***************************************************************************)
OpenPeriodIsFixed ==
  [][state = "OPEN" =>
       \/ state' = "OPEN" /\ elapsed' >= elapsed
       \/ state' = "HALF_OPEN" /\ elapsed = RecoveryTimeout]_gateVars

(***************************************************************************)
(* Once the upstream stops failing, the circuit closes and stays closed,   *)
(* even when probes were cancelled and reported nothing.                   *)
(***************************************************************************)
Recovers == <>[](state = "CLOSED")
===============================================================================
