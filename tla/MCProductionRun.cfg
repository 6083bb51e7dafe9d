SPECIFICATION Spec
CONSTANTS
  first = first
  second = second
  Processes = {first, second}
  Directories = {"out1"}
  Target <- OneDirectory
  Names = {"P", "Q"}
  Nobody = Nobody
  MaxRebuilds = 2
CONSTRAINT Alone
CHECK_DEADLOCK FALSE
INVARIANTS
  RunInv
  ViewableIsProjected
PROPERTIES
  SourceOfTruth
