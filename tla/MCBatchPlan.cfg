SPECIFICATION PlanSpec
CONSTANTS
  NoValue = NoValue
  Prompt = "prompt"
  Batches = {b1, b2}
  Starts <- MCStarts
  b1 = b1
  b2 = b2
  Extractions <- MCExtractions
  Runtimes <- MCRuntimes
  Environments <- MCEnvironments
  Names = {"P", "Q", "R", "m1", "m2", "out", "other", "d1", "d2", "d3", "g1", "g2", "bad id"}
  Paths = {"p1", "p2"}
  MaxEdits = 1
INVARIANTS
  PlanInv
  RecordedIdentityIsSent
  ExtensionsAddOnly
