SPECIFICATION FairSpec
CONSTANTS
  Keys = {"order", "fill"}
  Limit = 1
  MaxConns = 3
  MaxFaults = 1
  MaxMessages = 2
INVARIANTS TypeOK QuietGap SubscriptionsAreFed SettledFlows
PROPERTIES RecoveryEnds GapEnds SubscribeEnds
CHECK_DEADLOCK FALSE
