SPECIFICATION FairSpec
CONSTANTS
  Failover = {0}
  Tls = {1}
  Stable = {1}
  MaxShares = 2
  MaxSessions = 2
  MaxPings = 1
INVARIANTS CreditedRight CountedOnce OwnSession
PROPERTY AllHandedOver
CHECK_DEADLOCK FALSE
