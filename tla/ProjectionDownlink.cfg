\* Collection messages of one or two entities, an order, a zone set and the
\* state messages of a robot, recorded by two threads.
SPECIFICATION Spec
SYMMETRY ActionSymmetry
CONSTANTS
  r1 = r1
  r2 = r2
  o1 = o1
  a1 = a1
  a2 = a2
  z1 = z1
  Robots <- OneRobot
  OrderIds <- OneOrder
  ActionIds <- TwoActions
  ZoneSetIds <- OneZoneSet
  TopicsSent <- MixedTopics
  MaxEvents = 3
  MaxEntities = 2
  MaxFaults = 1
INVARIANTS IInv RecordedRowsArePrefix
