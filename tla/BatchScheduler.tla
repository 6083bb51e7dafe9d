--------------------------- MODULE BatchScheduler ---------------------------
(***************************************************************************)
(* FairRoundRobinScheduler (src/runtime/batch_scheduler.py): the admission *)
(* queue of a batch.  Each document has a FIFO queue of its evidence       *)
(* spans; a rotation of all documents decides whose span is admitted next; *)
(* counters enforce one limit for the batch, one per document and one per  *)
(* graph group.  The caller must report every admitted span exactly once   *)
(* with complete(); `active` is the caller's record of the spans it still  *)
(* owes (the `active` dictionary of run_batch).                            *)
(*                                                                         *)
(* Document ids are numbers: the code compares them (as strings) when it   *)
(* sorts, and nothing else about them matters here.                        *)
(***************************************************************************)
EXTENDS Integers, FiniteSets, SequencesExt

CONSTANTS
  Documents,        \* the document ids of the manifest
  Graphs,           \* the graph-group ids of the manifest
  GraphOf,          \* the one graph each document belongs to
  SpanCount,        \* the number of evidence spans of each document
  DocumentOrder,    \* the documents in manifest order
  GlobalLimit,      \* global_max_in_flight
  PerDocumentLimit, \* per_document_max_in_flight
  PerGraphLimit     \* per_graph_max_in_flight

\* BatchManifest.identifiers_and_membership: every document is declared once
\* and belongs to exactly one graph.  split_unit_spans rejects a document
\* without text, so each document has at least one span.
ASSUME PlanAssumption ==
  /\ IsFiniteSet(Documents)
  /\ Documents \subseteq Int
  /\ GraphOf \in [Documents -> Graphs]
  /\ SpanCount \in [Documents -> Nat \ {0}]
  /\ DocumentOrder \in Seq(Documents)
  /\ \A d \in Documents : \E i \in DOMAIN DocumentOrder : DocumentOrder[i] = d
  /\ \A i, j \in DOMAIN DocumentOrder :
        DocumentOrder[i] = DocumentOrder[j] => i = j

\* BatchExecution: positive limits, each no larger than the one around it.
LimitsAreCoherent(perDocument, perGraph, global) ==
  /\ {perDocument, perGraph, global} \subseteq Nat \ {0}
  /\ perDocument <= perGraph
  /\ perGraph <= global

ASSUME LimitsAssumption ==
  LimitsAreCoherent(PerDocumentLimit, PerGraphLimit, GlobalLimit)

\* One item per evidence span, numbered from 1 in its document.
ItemsOf(d) == [document : {d}, order : 1 .. SpanCount[d]]
Items == UNION {ItemsOf(d) : d \in Documents}
GraphItems(g) == {it \in Items : GraphOf[it.document] = g}
-----------------------------------------------------------------------------
VARIABLES
  queues,           \* the spans of each document not yet admitted
  rotation,         \* _active_documents: who is looked at first
  documentInFlight, \* _document_in_flight
  graphInFlight,    \* _graph_in_flight (an absent key is 0)
  inFlight,         \* in_flight
  peakInFlight,     \* peak_in_flight
  active            \* spans admitted and not yet reported complete

schedulerVars ==
  <<queues, rotation, documentInFlight, graphInFlight, inFlight, peakInFlight, active>>

SchedulerInit ==
  /\ queues = [d \in Documents |->
                 [k \in 1 .. SpanCount[d] |-> [document |-> d, order |-> k]]]
  /\ rotation = DocumentOrder
  /\ documentInFlight = [d \in Documents |-> 0]
  /\ graphInFlight = [g \in Graphs |-> 0]
  /\ inFlight = 0
  /\ peakInFlight = 0
  /\ active = {}

\* The `pending` property.
Pending == \E d \in Documents : queues[d] # <<>>

\* Mutant: an off-by-one in the document limit.
Admissible_OffByOne(d) ==
  /\ queues[d] # <<>>
  /\ documentInFlight[d] + 1 < PerDocumentLimit
  /\ graphInFlight[GraphOf[d]] < PerGraphLimit

\* Mutant: the graph limit is not tested.
Admissible_NoGraphLimit(d) ==
  queues[d] # <<>> /\ documentInFlight[d] < PerDocumentLimit

\* A document whose head span acquire() may take.
Admissible(d) ==
  /\ queues[d] # <<>>
  /\ documentInFlight[d] < PerDocumentLimit
  /\ graphInFlight[GraphOf[d]] < PerGraphLimit

\* Mutant: acquire() gives up when the first document is not admissible.
FirstAdmissible_HeadOnly(i) ==
  i = 1 /\ i \in DOMAIN rotation /\ Admissible(rotation[i])

\* The rotation position acquire() settles on: the first admissible one.
FirstAdmissible(i) ==
  /\ i \in DOMAIN rotation
  /\ Admissible(rotation[i])
  /\ \A j \in 1 .. (i - 1) : ~Admissible(rotation[j])

\* acquire() returns a span, not None.
CanAcquire ==
  /\ inFlight < GlobalLimit
  /\ \E i \in DOMAIN rotation : FirstAdmissible(i)

\* Mutant: the admitted document keeps its place.
Rotated_Unmoved(i) == rotation

\* The admitted document goes to the back; the skipped ones keep their place.
Rotated(i) == Append(RemoveAt(rotation, i), rotation[i])

\* Mutant: spans leave from the wrong end of the queue.
NextSpan_Last(d) == Last(queues[d])

NextSpan(d) == Head(queues[d])

Acquire(item) ==
  /\ inFlight < GlobalLimit
  /\ \E i \in DOMAIN rotation :
       /\ FirstAdmissible(i)
       /\ item = NextSpan(rotation[i])
       /\ rotation' = Rotated(i)
  /\ queues' = [queues EXCEPT ![item.document] = Tail(@)]
  /\ documentInFlight' = [documentInFlight EXCEPT ![item.document] = @ + 1]
  /\ graphInFlight' = [graphInFlight EXCEPT ![GraphOf[item.document]] = @ + 1]
  /\ inFlight' = inFlight + 1
  /\ peakInFlight' = IF inFlight' > peakInFlight THEN inFlight' ELSE peakInFlight
  /\ active' = active \cup {item}

Complete(item) ==
  /\ item \in active
  /\ documentInFlight' = [documentInFlight EXCEPT ![item.document] = @ - 1]
  /\ graphInFlight' = [graphInFlight EXCEPT ![GraphOf[item.document]] = @ - 1]
  /\ inFlight' = inFlight - 1
  /\ active' = active \ {item}
  /\ UNCHANGED <<queues, rotation, peakInFlight>>

\* Mutant: discarding a graph also clears its in-flight counter.
DiscardGraph_ClearsCounter(g) ==
  /\ queues' = [d \in Documents |-> IF GraphOf[d] = g THEN <<>> ELSE queues[d]]
  /\ graphInFlight' = [graphInFlight EXCEPT ![g] = 0]
  /\ UNCHANGED <<rotation, documentInFlight, inFlight, peakInFlight, active>>

\* Mutant: the filter keeps the failed graph and drops the others.
DiscardGraph_Inverted(g) ==
  /\ queues' = [d \in Documents |-> IF GraphOf[d] = g THEN queues[d] ELSE <<>>]
  /\ UNCHANGED <<rotation, documentInFlight, graphInFlight, inFlight, peakInFlight, active>>

\* Spans in flight, the counters and the rotation are left alone.
DiscardGraph(g) ==
  /\ queues' = [d \in Documents |-> IF GraphOf[d] = g THEN <<>> ELSE queues[d]]
  /\ UNCHANGED <<rotation, documentInFlight, graphInFlight, inFlight, peakInFlight, active>>

SchedulerNext ==
  \/ \E item \in Items : Acquire(item)
  \/ \E item \in Items : Complete(item)
  \/ \E g \in Graphs : DiscardGraph(g)

\* The caller asks again until acquire() returns None, and every request in
\* flight ends: the HTTP client bounds each call by its timeout.
SchedulerFairness ==
  /\ WF_schedulerVars(\E item \in Items : Acquire(item))
  /\ \A item \in Items : WF_schedulerVars(Complete(item))

SchedulerSpec == SchedulerInit /\ [][SchedulerNext]_schedulerVars
FairSchedulerSpec == SchedulerSpec /\ SchedulerFairness
-----------------------------------------------------------------------------
ActiveOfDocument(d) == {it \in active : it.document = d}
ActiveOfGraph(g) == {it \in active : GraphOf[it.document] = g}

SchedulerTypeOK ==
  /\ queues \in [Documents -> Seq(Items)]
  /\ rotation \in Seq(Documents)
  /\ documentInFlight \in [Documents -> Nat]
  /\ graphInFlight \in [Graphs -> Nat]
  /\ inFlight \in Nat
  /\ peakInFlight \in Nat
  /\ active \in SUBSET Items

\* However admissions, completions and discards interleave, the requests
\* really outstanding never exceed any of the three limits, and neither does
\* the reported peak (batch_scheduler.py:48-75).
LimitsRespected ==
  /\ Cardinality(active) <= GlobalLimit
  /\ \A d \in Documents : Cardinality(ActiveOfDocument(d)) <= PerDocumentLimit
  /\ \A g \in Graphs : Cardinality(ActiveOfGraph(g)) <= PerGraphLimit
  /\ Cardinality(active) <= peakInFlight
  /\ peakInFlight <= GlobalLimit

\* The counters are what the limits are tested against: they count exactly the
\* outstanding requests, also after a graph's queue was discarded while some
\* of its requests were still in flight (batch_scheduler.py:60-84).
CountersMatchActive ==
  /\ inFlight = Cardinality(active)
  /\ \A d \in Documents : documentInFlight[d] = Cardinality(ActiveOfDocument(d))
  /\ \A g \in Graphs : graphInFlight[g] = Cardinality(ActiveOfGraph(g))

\* Spans leave a queue in document order and only once: what is queued is a
\* tail of the document, and what is in flight lies before it.
DocumentOrderKept ==
  /\ \A d \in Documents : \A k \in DOMAIN queues[d] :
       queues[d][k] = [document |-> d,
                       order    |-> SpanCount[d] - Len(queues[d]) + k]
  /\ \A item \in active :
       item.order <= SpanCount[item.document] - Len(queues[item.document])

\* The run loop leaves as soon as nothing is active, so work would be dropped
\* silently if the scheduler could refuse to admit while idle: with nothing
\* outstanding and something queued, acquire() returns a span.
IdleMeansAdmission == active = {} /\ Pending => CanAcquire

\* Every queued span is eventually admitted or discarded.
QueuesDrain == <>[](~Pending)
=============================================================================
