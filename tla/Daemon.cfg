\* Every configuration, every start, every moment of a signal.
SPECIFICATION ProcessFairSpec
CONSTANTS
  Ports = {"http_port"}
  Plain = {"db_path", "projection_interval_ms"}
  Options = {"http_port", "db_path"}
  Default <- BuiltIn
  Stoi <- SomeStoi
  JsonNumber <- SomeJsonNumber
  Texts <- SomeTexts
  Words = {"default", "a"}
INVARIANTS IInv NothingOutlivesRun RegisteredIsAlive SuccessWasAskedFor
  UnaskedPortWasNoPort PrecedenceKeptWhenComplete
PROPERTIES SignalEnds FailureEnds
CHECK_DEADLOCK FALSE
