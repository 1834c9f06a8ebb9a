\* A connection lost and restored.
SPECIFICATION FairSpec
CONSTANTS
  MaxDrops = 1
  MaxFaults = 0
PROPERTIES ConnectedIsSubscribed
CHECK_DEADLOCK FALSE
