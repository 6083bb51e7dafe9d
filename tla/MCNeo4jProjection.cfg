SPECIFICATION Spec
CONSTANTS
  Importers = {a, b}
  Earlier = earlier
  Documents <- MCDocuments
  Databases <- MCDatabases
  Contended <- MCContended
  MaxAttempts = 2
  NoGraph = NoGraph
INVARIANTS
  ProjectionInv
  PassedProvesReadBack
PROPERTIES
  ImplementsNamespace
SYMMETRY EitherImporter
