---------------------------- MODULE CircuitBreaker ----------------------------
(***************************************************************************)
(* The circuit breaker of one upstream server                              *)
(* (app/transport/circuit_breaker.py, class CircuitBreaker): its fields    *)
(* and the three operations the client calls.  Each operation runs under   *)
(* an asyncio lock and has no suspension point, so it is one step.         *)
(*                                                                         *)
(* The object has no behaviour of its own: GatedCalls and McpClient drive  *)
(* it.                                                                     *)
(***************************************************************************)
EXTENDS Integers

CONSTANTS
  FailureThreshold,   \* failures before opening
  RecoveryTimeout,    \* clock units an open circuit refuses calls
  ProbeSuccesses      \* successes that close a half-open circuit

ASSUME BreakerAssumption ==
  /\ FailureThreshold \in Nat
  /\ RecoveryTimeout  \in Nat
  /\ ProbeSuccesses   \in Nat

VARIABLES
  state,      \* _state
  failures,   \* _failures
  probeOk,    \* _probe_ok
  elapsed     \* time.monotonic() - _opened_at, up to RecoveryTimeout: the
              \* code only asks whether RecoveryTimeout has passed; 0 when
              \* _opened_at is None

breakerVars == <<state, failures, probeOk, elapsed>>

CircuitState == {"CLOSED", "OPEN", "HALF_OPEN"}

BreakerTypeOK ==
  /\ state    \in CircuitState
  /\ failures \in Nat
  /\ probeOk  \in Nat
  /\ elapsed  \in 0..RecoveryTimeout

BreakerInit ==
  /\ state    = "CLOSED"
  /\ failures = 0
  /\ probeOk  = 0
  /\ elapsed  = 0

(***************************************************************************)
(* before_call raises CircuitOpenError, and changes nothing.               *)
(***************************************************************************)
CircuitOpen == state = "OPEN" /\ elapsed < RecoveryTimeout

\* Plausible fault: the probe count of an earlier half-open period survives.
HalfOpen_KeepsProbeCount ==
  /\ state' = "HALF_OPEN"
  /\ UNCHANGED <<failures, probeOk, elapsed>>

HalfOpen ==
  /\ state'   = "HALF_OPEN"
  /\ probeOk' = 0
  /\ UNCHANGED <<failures, elapsed>>

\* Plausible fault: every half-open call starts the probe count afresh.
BeforeCall_RestartsProbing ==
  /\ ~CircuitOpen
  /\ IF state # "CLOSED" THEN HalfOpen ELSE UNCHANGED breakerVars

(***************************************************************************)
(* before_call returns: the call may go to the upstream.                   *)
(***************************************************************************)
BeforeCall ==
  /\ ~CircuitOpen
  /\ IF state = "OPEN" THEN HalfOpen ELSE UNCHANGED breakerVars

\* Plausible fault: closing keeps the failures that opened the circuit.
Close_KeepsFailures ==
  /\ state'   = "CLOSED"
  /\ elapsed' = 0
  /\ UNCHANGED failures

Close ==
  /\ state'    = "CLOSED"
  /\ failures' = 0
  /\ elapsed'  = 0

OnSuccess ==
  \/ /\ state = "HALF_OPEN"
     /\ probeOk' = probeOk + 1
     /\ IF probeOk' >= ProbeSuccesses
        THEN Close
        ELSE UNCHANGED <<state, failures, elapsed>>
  \/ /\ state = "CLOSED"
     /\ failures' = 0
     /\ UNCHANGED <<state, probeOk, elapsed>>
  \/ state = "OPEN" /\ UNCHANGED breakerVars

Opens == state' = "OPEN" /\ elapsed' = 0

\* Plausible fault: a failure reported to an open circuit restarts its timer.
OnFailure_RestartsTimer ==
  /\ failures' = failures + 1
  /\ IF state # "CLOSED" \/ failures' >= FailureThreshold
     THEN Opens
     ELSE UNCHANGED <<state, elapsed>>
  /\ UNCHANGED probeOk

OnFailure ==
  /\ failures' = failures + 1
  /\ IF \/ state = "HALF_OPEN"
        \/ state = "CLOSED" /\ failures' >= FailureThreshold
     THEN Opens
     ELSE UNCHANGED <<state, elapsed>>
  /\ UNCHANGED probeOk

(***************************************************************************)
(* The monotonic clock advances while the timer of an open circuit runs.   *)
(***************************************************************************)
Tick ==
  /\ CircuitOpen
  /\ elapsed' = elapsed + 1
  /\ UNCHANGED <<state, failures, probeOk>>
===============================================================================
