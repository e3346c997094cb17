CONSTANTS
  reader = reader
  ops = ops
  guest = guest
  Agents = {reader, ops, guest}
  Anonymous = Anonymous
  Forged = Forged
  None = None
  Requests = {r1}
  Tools <- TwoTools
  Policy <- Policies
  MaxVersion = 4
  MaxProgress = 2
SPECIFICATION FairSpec
CHECK_DEADLOCK FALSE
INVARIANTS
  TypeOK
  StreamIsWellFormed
  OnlyAllowedCallsPass
PROPERTIES
  BegunCallsEnd
  FinishedCallsAreAnswered
