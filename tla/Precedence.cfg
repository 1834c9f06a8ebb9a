\* A key of each kind: a port, one with an option, one without an option.
SPECIFICATION ProcessSpec
CONSTANTS
  Ports = {"http_port"}
  Plain = {"db_path", "projection_interval_ms"}
  Options = {"http_port", "db_path"}
  Default <- BuiltIn
  Stoi <- SomeStoi
  JsonNumber <- SomeJsonNumber
  Texts <- SomeTexts
  Words = {"default", "a"}
INVARIANTS PrecedenceKept
CHECK_DEADLOCK FALSE
