---------------------------- MODULE MCBatchRunner ----------------------------
(* Two graph groups; the first one holds two documents.  The manifest lists *)
(* the documents against their id order, and the limits bind: with three    *)
(* slots the two documents of graph A compete for two of them.              *)
EXTENDS BatchRunner

MCDocuments == 1 .. 3
MCGraphs == {"A", "B"}
MCGraphOf == [d \in MCDocuments |-> IF d = 2 THEN "B" ELSE "A"]
MCSpanCount == [d \in MCDocuments |-> IF d = 1 THEN 1 ELSE 2]
MCDocumentOrder == <<3, 2, 1>>
MCGraphOrder == <<"A", "B">>
=============================================================================
