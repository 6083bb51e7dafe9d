SPECIFICATION FairBypassSpec
CONSTANTS
  Documents <- MCDocuments
  Graphs <- MCGraphs
  GraphOf <- MCGraphOf
  SpanCount <- MCSpanCount
  DocumentOrder <- MCDocumentOrder
  GlobalLimit = 3
  PerDocumentLimit = 1
  PerGraphLimit = 2
INVARIANTS
  SchedulerTypeOK
  LimitsRespected
  DocumentOrderKept
  IdleMeansAdmission
  AtMostOneBypass
PROPERTIES
  QueuesDrain
