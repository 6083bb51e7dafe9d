SPECIFICATION Spec
CONSTANTS
  Documents <- MCDocuments
  LastLocalId = 4
INVARIANTS
  FactGraphInv
  EdgesAreFacts
  LateFailuresExplained
