CONSTANTS
  None = None
  Chars <- Words
  Servers <- TwoServers
  Prefix <- OwnIds
  Offers <- LookalikeOffers
  Strategies = {"prefix_always", "prefix_on_conflict", "bare"}
  Policies = {"warn", "error", "suffix"}
  Syncers = {sweep}
  MaxGen = 3
  MaxChanges = 2
  MaxFaults = 1
SPECIFICATION FairSpec
INVARIANTS
  TypeOK
  AdvertisedToolsRoute
  ToolsOfOwnClient
PROPERTIES
  ConflictsSettle
  GaugeSettles
CHECK_DEADLOCK FALSE
