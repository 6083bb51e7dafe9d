----------------------------- MODULE BatchRunner -----------------------------
(***************************************************************************)
(* run_batch and _finalize_graph (src/runtime/batch_runner.py): the main   *)
(* thread admits spans from the scheduler to a thread pool, waits for the  *)
(* first futures to end, records each result or failure, and, once nothing *)
(* is queued or in flight, finalizes the graph groups one after the other. *)
(* Worker threads end their requests at any moment, in any order.          *)
(*                                                                         *)
(* Every artifact is written atomically (artifact_store._atomic_write): a  *)
(* write that raises leaves no file, or the whole one when the interrupt   *)
(* came after the rename, which is here a write and then a raise.          *)
(***************************************************************************)
EXTENDS BatchScheduler

CONSTANT
  GraphOrder  \* the graph groups in manifest order

ASSUME GraphOrderAssumption ==
  /\ GraphOrder \in Seq(Graphs)
  /\ \A g \in Graphs : \E i \in DOMAIN GraphOrder : GraphOrder[i] = g
  /\ \A i, j \in DOMAIN GraphOrder : GraphOrder[i] = GraphOrder[j] => i = j

VARIABLES
  continueOthers, \* continue_other_graphs_on_failure, fixed by the manifest
  phase,          \* where the main thread is
  outcome,        \* the state of each span's future
  done,           \* futures returned by wait() and not yet handled
  handling,       \* the future just popped from `active`, if any
  results,        \* accepted spans of each graph, in completion order
  failures,       \* failed spans of each graph, in the order handled
  stopNew,        \* stop_new
  scheduledCount, \* scheduled_count
  cursor,         \* position in GraphOrder of the graph being finalized
  embedded,       \* graphs whose entities were sent to the embedder
  published,      \* the spans in each graph's fact_graph.json, in unit order
  files,          \* artifacts in each graph's directory
  neo4j,          \* graphs whose namespace was replaced in Neo4j
  parity,         \* parity status returned by the importer
  reported,       \* what the rows of each graph in graph_reports say
  documentStatus, \* extraction_status.json of each document
  batchReport,    \* batch_report.json: none or one record
  batchCompletion \* the status in batch_completion_status.json, none or one

extractionVars == <<outcome, done, handling, results, failures, stopNew, scheduledCount>>
publicationVars == <<embedded, published, files, neo4j, parity, reported>>
batchVars == <<continueOthers, documentStatus, batchReport, batchCompletion>>
vars == <<schedulerVars, phase, extractionVars, cursor, publicationVars, batchVars>>

Future == {"unscheduled", "running", "accepted", "raised"}
Artifacts == {"fact_graph", "graph_manifest", "resolution_report",
              "neo4j_parity", "completion_status", "terminal_failure"}
ExtractionPhases == {"admit", "wait", "drain"}
FinalizePhases == {"embed", "fact_graph", "graph_manifest", "resolution_report",
                   "import", "neo4j_parity", "parity_failed", "completion_status",
                   "return"}
Phases == ExtractionPhases \cup {"select"} \cup FinalizePhases
          \cup {"report", "batch_completion_status", "finished", "crashed"}

\* A failed row names its reason: an interrupt that came once the completion
\* file was there is told apart.
Rows == {"completed", "failed", "interrupted"}

Init ==
  /\ SchedulerInit
  /\ continueOthers \in BOOLEAN
  /\ phase = "admit"
  /\ outcome = [item \in Items |-> "unscheduled"]
  /\ done = {} /\ handling = {}
  /\ results = [g \in Graphs |-> <<>>]
  /\ failures = [g \in Graphs |-> <<>>]
  /\ stopNew = FALSE
  /\ scheduledCount = 0
  /\ cursor = 1
  /\ embedded = {} /\ neo4j = {}
  /\ published = [g \in Graphs |-> <<>>]
  /\ files = [g \in Graphs |-> {}]
  /\ parity = [g \in Graphs |-> "unknown"]
  /\ reported = [g \in Graphs |-> {}]
  /\ documentStatus = [d \in Documents |-> "none"]
  /\ batchReport = {} /\ batchCompletion = {}
-----------------------------------------------------------------------------
(* Extraction: the loop of run_batch.                                      *)

Submit(item) ==
  /\ phase = "admit" /\ ~stopNew
  /\ Acquire(item)
  /\ outcome' = [outcome EXCEPT ![item] = "running"]
  /\ scheduledCount' = scheduledCount + 1
  /\ UNCHANGED <<phase, done, handling, results, failures, stopNew, cursor,
                 publicationVars, batchVars>>

\* `if not active: break`
AfterSubmitting == IF active = {} THEN "select" ELSE "wait"

\* acquire() returned None, or nothing new may start: leave if idle.
StopSubmitting ==
  /\ phase = "admit"
  /\ stopNew \/ ~CanAcquire
  /\ phase' = AfterSubmitting
  /\ UNCHANGED <<schedulerVars, extractionVars, cursor, publicationVars, batchVars>>

\* A worker thread ends: _extract_item returned or raised.
EndRequest(item, result) ==
  /\ item \in active /\ phase # "crashed"
  /\ outcome[item] = "running"
  /\ outcome' = [outcome EXCEPT ![item] = result]
  /\ UNCHANGED <<schedulerVars, phase, done, handling, results, failures, stopNew,
                 scheduledCount, cursor, publicationVars, batchVars>>

EndedFutures == {item \in active : outcome[item] # "running"}

\* wait(active, FIRST_COMPLETED) returns every future that has ended by then.
WaitFirstCompleted ==
  /\ phase = "wait"
  /\ EndedFutures # {}
  /\ done' = EndedFutures
  /\ phase' = "drain"
  /\ UNCHANGED <<schedulerVars, outcome, handling, results, failures, stopNew,
                 scheduledCount, cursor, publicationVars, batchVars>>

\* active.pop(future) and scheduler.complete(item).
ReleaseSlot(item) == Complete(item)

\* The futures of a wait are handled in the arbitrary order of a set.
PopDone(item) ==
  /\ phase = "drain" /\ handling = {}
  /\ item \in done
  /\ ReleaseSlot(item)
  /\ done' = done \ {item}
  /\ handling' = {item}
  /\ UNCHANGED <<phase, outcome, results, failures, stopNew, scheduledCount, cursor,
                 publicationVars, batchVars>>

RecordAccepted(item) ==
  /\ phase = "drain" /\ item \in handling /\ outcome[item] = "accepted"
  /\ results' = [results EXCEPT ![GraphOf[item.document]] = Append(@, item)]
  /\ handling' = {}
  /\ UNCHANGED <<schedulerVars, phase, outcome, done, failures, stopNew,
                 scheduledCount, cursor, publicationVars, batchVars>>

\* Mutant: only the queue of the failing document is discarded.
DiscardFor_Document(item) ==
  /\ queues' = [queues EXCEPT ![item.document] = <<>>]
  /\ UNCHANGED <<rotation, documentInFlight, graphInFlight, inFlight, peakInFlight, active>>

DiscardFor(item) == DiscardGraph(GraphOf[item.document])

StopAfterFailure == stopNew \/ ~continueOthers

\* future.result() raises, or an interrupt comes while it is handled: the span
\* has failed, even one that was accepted.
RecordFailure(item) ==
  /\ phase = "drain" /\ item \in handling /\ outcome[item] \in {"accepted", "raised"}
  /\ failures' = [failures EXCEPT ![GraphOf[item.document]] = Append(@, item)]
  /\ DiscardFor(item)
  /\ stopNew' = StopAfterFailure
  /\ handling' = {}
  /\ UNCHANGED <<phase, outcome, done, results, scheduledCount, cursor,
                 publicationVars, batchVars>>

WorkLeft == Pending \/ active # {}

\* The condition of the outer loop.
LoopAgain ==
  /\ phase = "drain" /\ handling = {} /\ done = {}
  /\ phase' = IF WorkLeft THEN "admit" ELSE "select"
  /\ UNCHANGED <<schedulerVars, extractionVars, cursor, publicationVars, batchVars>>
-----------------------------------------------------------------------------
(* Finalization: one graph group at a time, in manifest order.             *)

Current == GraphOrder[cursor]
Whole(g) == Len(results[g]) = Cardinality(GraphItems(g))
ItemBefore(a, b) ==
  \/ a.document < b.document
  \/ a.document = b.document /\ a.order < b.order

\* Mutant: results stay in completion order.
Ordered_AsCompleted(g) == results[g]

\* sorted(), which is stable: a result goes as far back as there are results
\* before it.
Ordered(g) ==
  LET r == results[g]
      before(k) == {j \in DOMAIN r :
                      \/ ItemBefore(r[j], r[k])
                      \/ ~ItemBefore(r[k], r[j]) /\ j < k}
  IN [i \in DOMAIN r |-> r[CHOOSE k \in DOMAIN r : Cardinality(before(k)) = i - 1]]

\* Mutant: any accepted span is enough.
Incomplete_AnySpan(g) == results[g] = <<>>

Incomplete(g) == failures[g] # <<>> \/ ~Whole(g)

AfterIncomplete == cursor' = cursor + 1 /\ UNCHANGED phase

\* A failed span, or the extraction barrier: terminal report, next graph.
ReportIncomplete ==
  /\ phase = "select" /\ cursor <= Len(GraphOrder)
  /\ Incomplete(Current)
  /\ files' = [files EXCEPT ![Current] = @ \cup {"terminal_failure"}]
  /\ reported' = [reported EXCEPT ![Current] = @ \cup {"failed"}]
  /\ AfterIncomplete
  /\ UNCHANGED <<schedulerVars, extractionVars, embedded, published, neo4j,
                 parity, batchVars>>

BeginFinalize ==
  /\ phase = "select" /\ cursor <= Len(GraphOrder)
  /\ ~Incomplete(Current)
  /\ phase' = "embed"
  /\ UNCHANGED <<schedulerVars, extractionVars, cursor, publicationVars, batchVars>>

Embed ==
  /\ phase = "embed"
  /\ embedded' = embedded \cup {Current}
  /\ phase' = "fact_graph"
  /\ UNCHANGED <<schedulerVars, extractionVars, cursor, published, files, neo4j,
                 parity, reported, batchVars>>

PersistFactGraph ==
  /\ phase = "fact_graph"
  /\ published' = [published EXCEPT ![Current] = Ordered(Current)]
  /\ files' = [files EXCEPT ![Current] = @ \cup {"fact_graph"}]
  /\ phase' = "graph_manifest"
  /\ UNCHANGED <<schedulerVars, extractionVars, cursor, embedded, neo4j, parity,
                 reported, batchVars>>

\* The two descriptive artifacts between persistence and import.
WriteDescription ==
  /\ phase \in {"graph_manifest", "resolution_report"}
  /\ files' = [files EXCEPT ![Current] = @ \cup {phase}]
  /\ phase' = IF phase = "graph_manifest" THEN "resolution_report" ELSE "import"
  /\ UNCHANGED <<schedulerVars, extractionVars, cursor, embedded, published, neo4j,
                 parity, reported, batchVars>>

Import(status) ==
  /\ phase = "import"
  /\ neo4j' = neo4j \cup {Current}
  /\ parity' = [parity EXCEPT ![Current] = status]
  /\ phase' = "neo4j_parity"
  /\ UNCHANGED <<schedulerVars, extractionVars, cursor, embedded, published, files,
                 reported, batchVars>>

AfterParity == IF parity[Current] = "passed" THEN "completion_status" ELSE "parity_failed"

WriteParity ==
  /\ phase = "neo4j_parity"
  /\ files' = [files EXCEPT ![Current] = @ \cup {"neo4j_parity"}]
  /\ phase' = AfterParity
  /\ UNCHANGED <<schedulerVars, extractionVars, cursor, embedded, published, neo4j,
                 parity, reported, batchVars>>

WriteCompletion ==
  /\ phase = "completion_status"
  /\ files' = [files EXCEPT ![Current] = @ \cup {"completion_status"}]
  /\ phase' = "return"
  /\ UNCHANGED <<schedulerVars, extractionVars, cursor, embedded, published, neo4j, parity,
                 reported, batchVars>>

\* _finalize_graph returns its row, still inside the try of run_batch.
RecordCompleted ==
  /\ phase = "return"
  /\ reported' = [reported EXCEPT ![Current] = @ \cup {"completed"}]
  /\ cursor' = cursor + 1
  /\ phase' = "select"
  /\ UNCHANGED <<schedulerVars, extractionVars, embedded, published, files, neo4j, parity,
                 batchVars>>

\* Mutant: the first failed finalization ends the loop.
AfterRaise_Break == phase' = "report" /\ UNCHANGED cursor

\* Mutant: the failed graph is tried again.
AfterRaise_SameGraph == phase' = "select" /\ UNCHANGED cursor

\* Leave the loop unless other graphs continue.
AfterRaise ==
  IF continueOthers THEN cursor' = cursor + 1 /\ phase' = "select"
  ELSE phase' = "report" /\ UNCHANGED cursor

\* What the handler adds to the rows: an interrupt after the completion file
\* may come before or after the row of the completed graph is appended.
RowsAfterRaise(rows) ==
  IF phase = "return"
  THEN {rows \cup {"interrupted"}, rows \cup {"completed", "interrupted"}}
  ELSE {rows \cup {"failed"}}

\* Any stage may raise, and the embedder and the importer may do so after
\* their effect; a failed parity always raises.  The handler catches
\* BaseException, and so the interrupt of a graph that was completed.
FinalizeRaises ==
  /\ phase \in FinalizePhases
  /\ embedded' \in {embedded, IF phase = "embed" THEN embedded \cup {Current} ELSE embedded}
  /\ neo4j' \in {neo4j, IF phase = "import" THEN neo4j \cup {Current} ELSE neo4j}
  /\ files' = [files EXCEPT ![Current] = @ \cup {"terminal_failure"}]
  /\ \E rows \in RowsAfterRaise(reported[Current]) :
       reported' = [reported EXCEPT ![Current] = rows]
  /\ AfterRaise
  /\ UNCHANGED <<schedulerVars, extractionVars, published, parity, batchVars>>

AllGraphsVisited ==
  /\ phase = "select" /\ cursor > Len(GraphOrder)
  /\ phase' = "report"
  /\ UNCHANGED <<schedulerVars, extractionVars, cursor, publicationVars, batchVars>>
-----------------------------------------------------------------------------
(* Reports, and the ways a run can stop.                                   *)

CompletedGraphs == {g \in Graphs : "completed" \in reported[g]}
AcceptedItems == UNION {ToSet(results[g]) : g \in Graphs}
FailedItems == UNION {ToSet(failures[g]) : g \in Graphs}

\* The entries of all the lists, as len() of their concatenation counts them.
Entries(lists) == UNION {{<<g, i>> : i \in DOMAIN lists[g]} : g \in Graphs}

BatchStatus ==
  IF CompletedGraphs = Graphs THEN "completed_fully"
  ELSE IF CompletedGraphs # {} THEN "completed_partially" ELSE "failed_entirely"

\* Documents get their status one after the other, in manifest order.
WriteExtractionStatus ==
  /\ phase = "report"
  /\ \E i \in DOMAIN DocumentOrder :
       LET d == DocumentOrder[i] IN
         /\ documentStatus[d] = "none"
         /\ \A j \in 1 .. (i - 1) : documentStatus[DocumentOrder[j]] # "none"
         /\ documentStatus' = [documentStatus EXCEPT ![d] =
              IF ItemsOf(d) \subseteq AcceptedItems THEN "passed" ELSE "failed"]
  /\ UNCHANGED <<schedulerVars, phase, extractionVars, cursor, publicationVars,
                 continueOthers, batchReport, batchCompletion>>

WriteBatchReport ==
  /\ phase = "report"
  /\ \A d \in Documents : documentStatus[d] # "none"
  /\ batchReport' =
       {[status           |-> BatchStatus,
        graphsCompleted   |-> Cardinality(CompletedGraphs),
        graphsFailed      |-> Cardinality(Graphs) - Cardinality(CompletedGraphs),
        accepted          |-> Cardinality(Entries(results)),
        failed            |-> Cardinality(Entries(failures)),
        scheduledRequests |-> scheduledCount]}
  /\ phase' = "batch_completion_status"
  /\ UNCHANGED <<schedulerVars, extractionVars, cursor, publicationVars,
                 continueOthers, documentStatus, batchCompletion>>

WriteBatchCompletion ==
  /\ phase = "batch_completion_status"
  /\ batchCompletion' = {BatchStatus}
  /\ phase' = "finished"
  /\ UNCHANGED <<schedulerVars, extractionVars, cursor, publicationVars,
                 continueOthers, documentStatus, batchReport>>

\* The process dies, is interrupted, or an unguarded write raises: whatever
\* is on disk and in Neo4j stays, and the output directory blocks a rerun.
Crash ==
  /\ phase \notin {"finished", "crashed"}
  /\ phase' = "crashed"
  /\ UNCHANGED <<schedulerVars, extractionVars, cursor, publicationVars, batchVars>>

Stopped == phase \in {"finished", "crashed"} /\ UNCHANGED vars

MainStep ==
  \/ \E item \in Items :
       Submit(item) \/ PopDone(item) \/ RecordAccepted(item) \/ RecordFailure(item)
  \/ StopSubmitting \/ WaitFirstCompleted \/ LoopAgain
  \/ ReportIncomplete \/ BeginFinalize \/ Embed \/ PersistFactGraph \/ WriteDescription
  \/ \E status \in {"passed", "failed"} : Import(status)
  \/ WriteParity \/ WriteCompletion \/ RecordCompleted \/ FinalizeRaises
  \/ AllGraphsVisited \/ WriteExtractionStatus \/ WriteBatchReport \/ WriteBatchCompletion

WorkerStep(item) == \E result \in {"accepted", "raised"} : EndRequest(item, result)

Next == MainStep \/ (\E item \in Items : WorkerStep(item)) \/ Crash \/ Stopped

\* The main thread keeps running, and every request ends: the HTTP client
\* bounds each call by a timeout and a worker thread runs on its own.
Fairness == WF_vars(MainStep) /\ \A item \in Items : WF_vars(WorkerStep(item))

Spec == Init /\ [][Next]_vars
FairSpec == Spec /\ Fairness
-----------------------------------------------------------------------------
TypeOK ==
  /\ SchedulerTypeOK
  /\ continueOthers \in BOOLEAN
  /\ phase \in Phases
  /\ outcome \in [Items -> Future]
  /\ done \subseteq active
  /\ handling \subseteq Items
  /\ results \in [Graphs -> Seq(Items)]
  /\ failures \in [Graphs -> Seq(Items)]
  /\ stopNew \in BOOLEAN
  /\ scheduledCount \in Nat
  /\ cursor \in 1 .. Len(GraphOrder) + 1
  /\ embedded \subseteq Graphs /\ neo4j \subseteq Graphs
  /\ published \in [Graphs -> Seq(Items)]
  /\ files \in [Graphs -> SUBSET Artifacts]
  /\ parity \in [Graphs -> {"unknown", "passed", "failed"}]
  /\ reported \in [Graphs -> SUBSET Rows]
  /\ documentStatus \in [Documents -> {"none", "passed", "failed"}]

\* Where a span is, as the loop sees it.
Places(item) ==
  {p \in {"queued", "active", "handling", "accepted", "failed"} :
     CASE p = "queued"   -> item \in ToSet(queues[item.document])
       [] p = "active"   -> item \in active
       [] p = "handling" -> item \in handling
       [] p = "accepted" -> item \in AcceptedItems
       [] p = "failed"   -> item \in FailedItems}

\* No span is lost, duplicated or recorded twice, in whatever order futures
\* end and are handled: each is in one place, and in none only when its graph
\* has failed and its queue was discarded (batch_runner.py:230-252).
NoSpanLost ==
  \A item \in Items :
    \/ Cardinality(Places(item)) = 1
    \/ Places(item) = {} /\ failures[GraphOf[item.document]] # <<>>

\* Requests in flight when the run stops admitting are awaited and recorded:
\* finalization starts with nothing outstanding, and every request ever
\* submitted is in a result or a failure list (docs/BATCH_PROCESSING.md:49-50).
AllRequestsRecorded ==
  phase \notin ExtractionPhases \cup {"crashed"} =>
    /\ active = {} /\ handling = {}
    /\ scheduledCount = Cardinality(AcceptedItems) + Cardinality(FailedItems)

\* The extraction barrier: a graph is embedded, persisted or projected only
\* when each of its spans was accepted, whichever of its requests ended first
\* and whatever happened to the other graphs (docs/BATCH_PROCESSING.md:40-42).
BarrierHolds ==
  \A g \in Graphs :
    g \in embedded \cup neo4j \/ files[g] \ {"terminal_failure"} # {} =>
      failures[g] = <<>> /\ ToSet(results[g]) = GraphItems(g)

\* Completion order never determines document-local order: a persisted graph
\* lists all spans of its documents, sorted by document and by position
\* (docs/BATCH_PROCESSING.md:38, batch_runner.py:92).
PublishedInDocumentOrder ==
  \A g \in Graphs : "fact_graph" \in files[g] =>
    /\ ToSet(published[g]) = GraphItems(g)
    /\ \A i, j \in DOMAIN published[g] :
         i < j => ItemBefore(published[g][i], published[g][j])

\* completion_status.json vouches for everything before it: the graph is
\* whole, persisted, described, and its projection passed parity; nothing but
\* an interrupt is reported of it as a failure.
CompletionVouches ==
  \A g \in Graphs : "completion_status" \in files[g] =>
    /\ Artifacts \ {"terminal_failure"} \subseteq files[g]
    /\ g \in embedded /\ g \in neo4j
    /\ parity[g] = "passed"
    /\ "failed" \notin reported[g]

\* Failure isolation: with continue_other_graphs_on_failure a graph is reported
\* as failed only for a failed span of its own or because its own finalization
\* raised; the failures of other graphs never starve it.
FailuresStayLocal ==
  continueOthers => \A g \in Graphs : reported[g] \cap {"failed", "interrupted"} # {} =>
    failures[g] # <<>> \/ ToSet(results[g]) = GraphItems(g)

Verdicts(g) == {"completion_status", "terminal_failure"} \cap files[g]

\* No graph holds two verdicts, except one that was completed when an
\* interrupt came before the loop moved on (the handler catches it and writes
\* terminal_failure.json beside completion_status.json); and a finished batch
\* leaves one for each, except that without continue_other_graphs_on_failure
\* the loop is left when a finalization raises or is interrupted, and the
\* later graphs get none (batch_runner.py:167-176, 253-288).
OneVerdict ==
  \A i \in DOMAIN GraphOrder :
    /\ Cardinality(Verdicts(GraphOrder[i])) <= 1 \/ "interrupted" \in reported[GraphOrder[i]]
    /\ phase = "finished" /\ Verdicts(GraphOrder[i]) = {} =>
         /\ ~continueOthers
         /\ \E j \in 1 .. (i - 1) :
              /\ reported[GraphOrder[j]] \cap {"failed", "interrupted"} # {}
              /\ ToSet(results[GraphOrder[j]]) = GraphItems(GraphOrder[j])

\* The aggregate report adds up: every scheduled request is an accepted or a
\* failed extraction; the graphs it counts as completed are those that hold a
\* completion file, less at most those an interrupt left with two verdicts;
\* their documents have passed, and each document has its status by then; and
\* the last file repeats the status of the report (batch_runner.py:289-333).
ReportAddsUp ==
  /\ \A report \in batchReport :
       /\ report.scheduledRequests = report.accepted + report.failed
       /\ report.graphsCompleted >= Cardinality({g \in Graphs : Verdicts(g) = {"completion_status"}})
       /\ report.graphsCompleted <= Cardinality({g \in Graphs : "completion_status" \in files[g]})
       /\ \A d \in Documents :
            \/ documentStatus[d] = "passed"
            \/ /\ documentStatus[d] = "failed"
               /\ GraphOf[d] \notin CompletedGraphs /\ report.status # "completed_fully"
  /\ \A status \in batchCompletion : \E report \in batchReport : report.status = status

\* Once a failure of a graph has been handled no span of it is admitted any
\* more, and without continue_other_graphs_on_failure none of any graph
\* (batch_runner.py:247-251, docs/BATCH_PROCESSING.md:47-50).
NothingAdmittedAfterFailure ==
  [][\A item \in active' \ active :
       /\ failures[GraphOf[item.document]] = <<>>
       /\ continueOthers \/ FailedItems = {}]_vars

\* A batch that is not killed always writes its final report: the loop never
\* waits for a future that cannot end and never spins with nothing to do.
BatchEnds == <>(phase \in {"finished", "crashed"})

\* docs/BATCH_PROCESSING.md:48-49: "A failed group does not embed, persist a
\* FinalGraph, or mutate Neo4j."
FailedGroupPublishesNothing ==
  \A g \in Graphs : "terminal_failure" \in files[g] =>
    g \notin neo4j /\ "fact_graph" \notin files[g]

\* The scheduler inside the runner is the scheduler of BatchScheduler: the
\* loop calls acquire, complete and discard_graph only as that module allows.
SchedulerRefined == SchedulerInit /\ [][SchedulerNext]_schedulerVars

\* Nothing falls between the lists: every span is in one place, every request
\* ends in one list, and the failure of one group starves no other
\* (batch_runner.py:230-288).
SpansAccounted == NoSpanLost /\ AllRequestsRecorded /\ FailuresStayLocal

\* Whatever stands in a group's directory was earned by what came before it
\* (batch_runner.py:92-173, 253-279).
PublicationEarned == BarrierHolds /\ CompletionVouches

\* What the graphs and the final report say is exact.
ReportsExact == TypeOK /\ PublishedInDocumentOrder /\ ReportAddsUp

\* The abstract batch: spans are decided when recorded, graphs by their file;
\* a completion file stands, whatever an interrupt adds beside it.
Outcome == INSTANCE BatchOutcome WITH
  Spans    <- Items,
  Groups   <- Graphs,
  SpansOf  <- [g \in Graphs |-> GraphItems(g)],
  accepted <- AcceptedItems,
  rejected <- FailedItems,
  verdict  <- [g \in Graphs |->
                 IF "completion_status" \in files[g] THEN "completed"
                 ELSE IF "terminal_failure" \in files[g] THEN "failed" ELSE "open"]

\* The runner implements the promise of BatchOutcome: whatever the threads,
\* the files and the failures do, spans and groups are decided once, in order,
\* and for the reasons the documentation gives.
ImplementsOutcome == Outcome!Spec
=============================================================================
