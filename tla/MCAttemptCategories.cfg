SPECIFICATION Spec
CONSTANTS
  UnitCount = 2
  MaxWorkers = 2
INVARIANT
  AttemptsEndInOneCategory
