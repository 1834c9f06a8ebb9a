\* A cloud that connects after the recorder was constructed.
SPECIFICATION Spec
CONSTANTS
  MaxDrops = 0
  MaxFaults = 0
INVARIANTS ForwardedIsRecorded
CHECK_DEADLOCK FALSE
