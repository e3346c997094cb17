CONSTANTS
  call = call
  list = list
  ping = ping
  close = close
  None = None
  Tasks = {call, list, ping, close}
  Kind <- OneOfEach
  Sessions = {s1, s2}
  MaxAttempts = 3
  MaxCancels = 1
  FailureThreshold = 1
  RecoveryTimeout = 1
  ProbeSuccesses = 1
SPECIFICATION FairSpec
INVARIANTS
  NoLostSession
  SessionIsOpen
  ReportsOnce
PROPERTIES
  EveryOperationEnds
