CONSTANTS
  Callers = {a, b}
  Lifetimes = {2, 4}
  Buffer = 1
  Latency = 1
  MaxTime = 7
  MaxFaults = 1
  None = None
SPECIFICATION FairSpec
INVARIANTS
  TokensAreValid
PROPERTIES
  NoNeedlessRefresh
  CallersReturn
