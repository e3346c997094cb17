CONSTANTS
  Endpoints = {siem, chat, off}
  EventTypes = {ok, blocked}
  siem = siem
  chat = chat
  off = off
  ok = ok
  blocked = blocked
  Subscribed <- Subscriptions
  MaxRetries <- Retries
  PoolSize = 1
  Reliable = {siem}
  Reloaders = {sighup, post}
  MaxEvents = 2
  MaxReloads = 2
  MaxSeconds = 0
SPECIFICATION FairSpec
CHECK_DEADLOCK FALSE
INVARIANTS
  AtMostMaxRetries
  ReliableGetsItOnce
  IdsIdentify
  ReplacedIsClosed
PROPERTIES
  EveryDeliveryEnds
