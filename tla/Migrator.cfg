\* Two processes, the five migrations of src/db/migrations, two faults, and four
\* statements on each table.
SPECIFICATION StorageFairSpec
CONSTANTS
  p1 = p1
  p2 = p2
  Processes <- TwoProcesses
  Count = 5
  MaxFaults = 2
  MaxStatements = 4
INVARIANTS IInv UpToDateIsComplete RowsFitTheirTables NoRowIsTorn
  TopicsCommute
PROPERTIES ImplementsSchemaUpgrade StartEnds LoneStartCompletes
  MessagesLeaveManagementAlone EditsAreLocal
CHECK_DEADLOCK FALSE
