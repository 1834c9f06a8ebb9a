\* Two lost connections and one failed call of the library.
SPECIFICATION FairSpec
CONSTANTS
  MaxDrops = 2
  MaxFaults = 1
INVARIANTS IInv HandlersRegisteredOnce NeverHalfBridged AttachedIsRecording
  BadAccessNeedsFailedSetup
PROPERTIES ShutdownCompletes ConnectedIsBridged
CHECK_DEADLOCK FALSE
