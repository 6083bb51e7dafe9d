SPECIFICATION Spec
CONSTANTS
  Documents <- MCDocuments
  Graphs <- MCGraphs
  GraphOf <- MCGraphOf
  SpanCount <- MCSpanCount
  DocumentOrder <- MCDocumentOrder
  GraphOrder <- MCGraphOrder
  GlobalLimit = 3
  PerDocumentLimit = 2
  PerGraphLimit = 2
INVARIANT
  FailedGroupPublishesNothing
