\* Two robots reporting connection and state, with liveness.
SPECIFICATION FairSpec
CONSTANTS
  r1 = r1
  r2 = r2
  o1 = o1
  a1 = a1
  a2 = a2
  z1 = z1
  Robots <- TwoRobots
  OrderIds <- NoKeys
  ActionIds <- NoKeys
  ZoneSetIds <- NoKeys
  TopicsSent <- SnapshotTopics
  MaxEvents = 3
  MaxEntities = 1
  MaxFaults = 2
INVARIANTS TypeOK CellsHaveProvenance
PROPERTIES NeverRegresses RecordedIsProjected ImplementsLatestView
