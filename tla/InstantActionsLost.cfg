\* Instant actions are recorded and never projected.
SPECIFICATION FairSpec
CONSTANTS
  r1 = r1
  r2 = r2
  o1 = o1
  a1 = a1
  a2 = a2
  z1 = z1
  Robots <- NoKeys
  OrderIds <- NoKeys
  ActionIds <- TwoActions
  ZoneSetIds <- NoKeys
  TopicsSent <- InstantActionsOnly
  MaxEvents = 1
  MaxEntities = 1
  MaxFaults = 0
PROPERTIES InstantActionsAreProjected
