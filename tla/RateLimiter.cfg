CONSTANTS
  t1 = t1
  t2 = t2
  Agent = agent
  LimitedTools = {t1, t2}
  Cost = 2
  Rate <- TheRates
  Capacity <- TheCapacities
  MaxTime = 5
SPECIFICATION LimiterSpec
INVARIANTS
  WindowBound
  AgentCap
