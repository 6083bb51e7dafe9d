SPECIFICATION Spec
CONSTANTS
  Count = 4
  Inputs <- MCInputs
  Responses <- MCResponses
  Equivalences = {"same_as"}
INVARIANTS
  ResolutionInv
  NodesAreComponents
  EquatedTogether
PROPERTIES
  Terminates
