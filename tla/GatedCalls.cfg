CONSTANTS
  FailureThreshold = 3
  RecoveryTimeout = 2
  ProbeSuccesses = 2
  MaxFaults = 8
  Calls = {c1, c2, c3}
SPECIFICATION GateFairSpec
PROPERTIES
  TripsOnlyOnFailureRun
  ClosesOnlyOnProbeRun
  OpenPeriodIsFixed
  Recovers
