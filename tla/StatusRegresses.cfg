\* A status shown from an older response after a newer one.
SPECIFICATION Spec
CONSTANTS
  r1 = r1
  r2 = r2
  o1 = o1
  a1 = a1
  a2 = a2
  z1 = z1
  Robots <- NoKeys
  OrderIds <- NoKeys
  ActionIds <- TwoActions
  ZoneSetIds <- NoKeys
  TopicsSent <- ResponsesOnly
  MaxEvents = 3
  MaxEntities = 2
  MaxFaults = 0
PROPERTIES EntityStatusTracksLatest
