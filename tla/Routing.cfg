\* Two robots whose names run together, topics that must be dropped, and messages
\* with any value in any field.
SPECIFICATION FairSpec
CONSTANTS
  Prefixes <- SomePrefixes
  Traffic <- SomeTraffic
  LoneTraffic <- AnyTraffic
  MaxMessages = 3
  MaxFaults = 1
INVARIANTS TypeOK ForwardedAsPublished ConformingIsForwarded RecordedReadsBack
  FailuresCostOneMessage CrossesOnceInOrder RobotIdTellsApart
PROPERTIES ReceivedIsForwarded
CHECK_DEADLOCK FALSE
