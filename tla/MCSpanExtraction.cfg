SPECIFICATION FairSpec
CONSTANTS
  UnitCount = 3
  MaxWorkers = 2
INVARIANTS
  ExtractionInv
  ReturnedRunValidates
  RequestsAreOnDisk
PROPERTIES
  SavedNeverRegresses
  ImplementsLedger
  ExtractionEnds
