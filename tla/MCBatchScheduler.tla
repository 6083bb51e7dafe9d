-------------------------- MODULE MCBatchScheduler --------------------------
(* Five documents in two graph groups, listed in an order that is neither   *)
(* the id order nor grouped by graph.  With one span of a document at a     *)
(* time, three documents of graph A compete for two slots, and both graphs  *)
(* together for three.                                                      *)
EXTENDS BoundedBypass

MCDocuments == 1 .. 5
MCGraphs == {"A", "B"}
MCGraphOf == [d \in MCDocuments |-> IF d \in {2, 5} THEN "B" ELSE "A"]
MCSpanCount == [d \in MCDocuments |-> IF d = 4 THEN 2 ELSE 3]
MCDocumentOrder == <<3, 1, 2, 5, 4>>
=============================================================================
