-------------------------- MODULE BatchRunnerProofs --------------------------
(***************************************************************************)
(* What holds of every batch, whatever the plan, the limits, the failure   *)
(* policy and the order in which requests end.  run_batch uses the         *)
(* scheduler as BatchScheduler allows, so what is proved of the scheduler  *)
(* holds here too.  The invariant then has two halves: where each span is  *)
(* while the loop extracts, and what may stand in each directory once the  *)
(* loop is over; the barrier between them is what makes the second hold.   *)
(***************************************************************************)
EXTENDS BatchRunner, BatchSchedulerProofs

\* Each step of the runner is a call of acquire, complete or discard_graph,
\* or leaves the scheduler alone.
LEMMA RunnerStepIsSchedulerStep == [Next]_vars => [SchedulerNext]_schedulerVars
<1> SUFFICES ASSUME [Next]_vars PROVE [SchedulerNext]_schedulerVars
  OBVIOUS
<1>1. ASSUME NEW item \in Items, Submit(item) PROVE SchedulerNext
  BY <1>1 DEF Submit, SchedulerNext
<1>2. ASSUME NEW item \in Items, PopDone(item) PROVE SchedulerNext
  BY <1>2 DEF PopDone, ReleaseSlot, SchedulerNext
<1>3. ASSUME NEW item \in Items, RecordFailure(item) PROVE SchedulerNext
  <2>1. GraphOf[item.document] \in Graphs
    BY ItemFacts, PlanFacts
  <2>2. QED
    BY <1>3, <2>1 DEF RecordFailure, DiscardFor, SchedulerNext
<1>4. ASSUME NEW item \in Items, RecordAccepted(item) \/ WorkerStep(item)
      PROVE  UNCHANGED schedulerVars
  BY <1>4 DEF RecordAccepted, WorkerStep, EndRequest
<1>5. CASE StopSubmitting \/ WaitFirstCompleted \/ LoopAgain
  BY <1>5 DEF StopSubmitting, WaitFirstCompleted, LoopAgain
<1>6. CASE ReportIncomplete \/ BeginFinalize \/ Embed \/ PersistFactGraph \/ WriteDescription
  BY <1>6 DEF ReportIncomplete, BeginFinalize, Embed, PersistFactGraph, WriteDescription
<1>7. CASE \/ \E status \in {"passed", "failed"} : Import(status)
           \/ WriteParity \/ WriteCompletion \/ RecordCompleted \/ FinalizeRaises
           \/ AllGraphsVisited
  BY <1>7 DEF Import, WriteParity, WriteCompletion, RecordCompleted, FinalizeRaises,
              AllGraphsVisited
<1>8. CASE \/ WriteExtractionStatus \/ WriteBatchReport \/ WriteBatchCompletion
           \/ Crash \/ Stopped \/ UNCHANGED vars
  BY <1>8 DEF WriteExtractionStatus, WriteBatchReport, WriteBatchCompletion, Crash, Stopped,
              vars
<1>9. QED
  BY <1>1, <1>2, <1>3, <1>4, <1>5, <1>6, <1>7, <1>8 DEF Next, MainStep

\* The scheduler inside run_batch behaves as the scheduler of BatchScheduler.
THEOREM RunnerRefinesScheduler == Spec => SchedulerRefined
<1>1. Init => SchedulerInit
  BY DEF Init
<1>2. QED
  BY <1>1, RunnerStepIsSchedulerStep, PTL DEF Spec, SchedulerRefined

\* So no batch ever has more requests outstanding than a limit allows.
THEOREM BatchRespectsLimits == Spec => []LimitsRespected
<1>1. SchedulerRefined <=> SchedulerSpec
  BY DEF SchedulerRefined, SchedulerSpec
<1>2. QED
  BY <1>1, RunnerRefinesScheduler, LimitsAlwaysRespected, PTL

\* Nor does any counter go wrong, or a span get admitted twice.
THEOREM BatchKeepsSchedulerInvariant == Spec => []SchedulerInv
<1>1. SchedulerRefined <=> SchedulerSpec
  BY DEF SchedulerRefined, SchedulerSpec
<1>2. QED
  BY <1>1, RunnerRefinesScheduler, SchedulerInvariant, PTL
-----------------------------------------------------------------------------
(* The inductive invariant of the runner.                                  *)

\* The types the barrier needs.  What fact_graph.json holds and what the report
\* counts follow from it, and have invariants of their own further down.
RunnerTypes ==
  /\ continueOthers \in BOOLEAN /\ stopNew \in BOOLEAN
  /\ phase \in Phases
  /\ outcome \in [Items -> Future]
  /\ done \subseteq active /\ handling \subseteq Items
  /\ results \in [Graphs -> Seq(Items)] /\ failures \in [Graphs -> Seq(Items)]
  /\ cursor \in 1 .. Len(GraphOrder) + 1
  /\ embedded \subseteq Graphs /\ neo4j \subseteq Graphs
  /\ files \in [Graphs -> SUBSET Artifacts]
  /\ parity \in [Graphs -> {"unknown", "passed", "failed"}]
  /\ reported \in [Graphs -> SUBSET Rows]

Extracting == phase \in ExtractionPhases
Finalizing == phase \notin ExtractionPhases \cup {"crashed"}

\* Futures are popped one at a time, ended, and only while draining.
FuturesFit ==
  /\ \A item \in done \cup handling : outcome[item] \in {"accepted", "raised"}
  /\ \A item \in handling : item \notin active
  /\ \A a, b \in handling : a = b
  /\ done \cup handling # {} => phase \in {"drain", "crashed"}
  /\ Finalizing => active = {}

\* The queue still holds the span: it lies in the tail that is left.
Queued(item) ==
  item.order > SpanCount[item.document] - Len(queues[item.document])

Home(item) == GraphOf[item.document]

\* A recorded span is recorded in its own graph, once it left everything else.
ResultFits(g, item) ==
  Home(item) = g /\ outcome[item] = "accepted" /\ item \notin active \cup handling
FailureFits(g, item) ==
  /\ Home(item) = g /\ outcome[item] \in {"accepted", "raised"}
  /\ item \notin active \cup handling
  /\ item \notin ToSet(results[g])

\* A started span is in flight, being handled or recorded.
Located(item) ==
  \/ item \in active \cup handling
  \/ item \in ToSet(results[Home(item)]) \cup ToSet(failures[Home(item)])

SpansFit ==
  /\ \A g \in Graphs : \A item \in ToSet(results[g]) : ResultFits(g, item)
  /\ \A g \in Graphs : \A item \in ToSet(failures[g]) : FailureFits(g, item)
  /\ \A item \in Items :
       /\ Queued(item) => outcome[item] = "unscheduled"
       /\ item \in active \cup handling => outcome[item] # "unscheduled"
       /\ outcome[item] # "unscheduled" => Located(item)
       /\ outcome[item] = "unscheduled" => Queued(item) \/ failures[Home(item)] # <<>>
       /\ failures[Home(item)] # <<>> => ~Queued(item)

Started == {item \in Items : outcome[item] # "unscheduled"}

\* No span is counted twice, in a list or as a request.
CountFits ==
  /\ scheduledCount = Cardinality(Started)
  /\ \A g \in Graphs : Len(results[g]) = Cardinality(ToSet(results[g]))

\* Admission stops for a reason, and extraction ends with nothing admissible.
StopFits ==
  /\ stopNew => ~continueOthers
  /\ stopNew => \E g \in Graphs : failures[g] # <<>>
  /\ ~stopNew /\ ~continueOthers => \A g \in Graphs : failures[g] = <<>>
  /\ Finalizing => stopNew \/ ~Pending

ExtractionFits == FuturesFit /\ SpansFit /\ CountFits /\ StopFits

AllAccepted(g) == failures[g] = <<>> /\ ToSet(results[g]) = GraphItems(g)

Untouched(g) ==
  g \notin embedded \cup neo4j /\ files[g] = {} /\ reported[g] = {}

\* One of the rows of a graph says that it failed.
FailedRow(g) == reported[g] \cap {"failed", "interrupted"} # {}

\* What stands in a group's directory, and why.
GraphFits(g) ==
  /\ g \in embedded \cup neo4j => AllAccepted(g)
  /\ files[g] \ {"terminal_failure"} # {} => AllAccepted(g)
  /\ "completed" \in reported[g] => "completion_status" \in files[g]
  /\ "terminal_failure" \in files[g] <=> FailedRow(g)
  /\ "completion_status" \in files[g] =>
       /\ Artifacts \ {"terminal_failure"} \subseteq files[g]
       /\ g \in embedded /\ g \in neo4j /\ parity[g] = "passed"
       /\ "failed" \notin reported[g]
  /\ FailedRow(g) => failures[g] # <<>> \/ AllAccepted(g) \/ stopNew

\* The stages of _finalize_graph, for the group at the cursor.
StageFits(g) ==
  /\ AllAccepted(g) /\ reported[g] = {}
  /\ phase # "embed" => g \in embedded
  /\ phase \in {"neo4j_parity", "parity_failed", "completion_status", "return"} => g \in neo4j
  /\ phase \in {"completion_status", "return"} => parity[g] = "passed"
  /\ phase \in {"embed", "fact_graph"} => files[g] = {}
  /\ phase = "graph_manifest" => files[g] = {"fact_graph"}
  /\ phase = "resolution_report" => files[g] = {"fact_graph", "graph_manifest"}
  /\ phase \in {"import", "neo4j_parity"} =>
       files[g] = {"fact_graph", "graph_manifest", "resolution_report"}
  /\ phase \in {"parity_failed", "completion_status"} =>
       files[g] = {"fact_graph", "graph_manifest", "resolution_report", "neo4j_parity"}
  /\ phase = "return" => files[g] = Artifacts \ {"terminal_failure"}

\* The loop was left because a finalization raised.
CutShort(g) == ~continueOthers /\ FailedRow(g) /\ AllAccepted(g)

\* The loop over the graphs is over.
ReportPhases == {"report", "batch_completion_status", "finished"}

PublicationFits ==
  /\ \A g \in Graphs : GraphFits(g)
  /\ Extracting => \A g \in Graphs : Untouched(g)
  /\ \A i \in 1 .. Len(GraphOrder) :
       /\ i > cursor => Untouched(GraphOrder[i])
       /\ Finalizing /\ i < cursor => reported[GraphOrder[i]] # {}
       /\ phase = "select" /\ i = cursor => Untouched(GraphOrder[i])
       /\ phase \in FinalizePhases /\ i = cursor => StageFits(GraphOrder[i])
       /\ phase \in ReportPhases /\ i = cursor => CutShort(GraphOrder[i])
  /\ Extracting => cursor = 1
  /\ phase \in FinalizePhases => cursor <= Len(GraphOrder)

RunnerInv == SchedulerInv /\ RunnerTypes /\ ExtractionFits /\ PublicationFits
-----------------------------------------------------------------------------
(* Facts about lists and spans.                                            *)

LEMMA ListFacts ==
  ASSUME NEW S, NEW s \in Seq(S)
  PROVE  /\ ToSet(s) \subseteq S
         /\ s = <<>> <=> ToSet(s) = {}
         /\ \A x \in S : /\ Append(s, x) \in Seq(S) /\ Append(s, x) # <<>>
                         /\ Len(Append(s, x)) = Len(s) + 1
                         /\ ToSet(Append(s, x)) = ToSet(s) \cup {x}
         /\ Len(s) \in Nat
<1>1. Len(s) \in Nat /\ DOMAIN s = 1 .. Len(s) /\ \A i \in 1 .. Len(s) : s[i] \in S
  BY LenProperties, ElementOfSeq
<1>2. ToSet(s) \subseteq S
  BY <1>1 DEF ToSet
<1>3. s = <<>> <=> ToSet(s) = {}
  <2>1. s = <<>> => ToSet(s) = {}
    BY DEF ToSet
  <2>2. s # <<>> => 1 \in DOMAIN s
    BY <1>1
  <2> QED BY <2>1, <2>2 DEF ToSet
<1>4. ASSUME NEW x \in S
      PROVE  /\ Append(s, x) \in Seq(S) /\ Append(s, x) # <<>>
             /\ Len(Append(s, x)) = Len(s) + 1
             /\ ToSet(Append(s, x)) = ToSet(s) \cup {x}
  <2>1. /\ Append(s, x) \in Seq(S) /\ Len(Append(s, x)) = Len(s) + 1
        /\ \A i \in 1 .. Len(s) : Append(s, x)[i] = s[i]
        /\ Append(s, x)[Len(s) + 1] = x
        /\ DOMAIN Append(s, x) = 1 .. (Len(s) + 1)
    BY <1>1
  <2>2. Append(s, x) # <<>>
    BY <2>1, <1>1, EmptySeq
  <2>3. ASSUME NEW y \in ToSet(Append(s, x)) PROVE y \in ToSet(s) \cup {x}
    <3>1. PICK i \in 1 .. (Len(s) + 1) : y = Append(s, x)[i]
      BY <2>1, <2>3 DEF ToSet
    <3>2. CASE i = Len(s) + 1 BY <3>1, <3>2, <2>1
    <3>3. CASE i # Len(s) + 1
      <4>1. i \in 1 .. Len(s) BY <3>1, <3>3, <1>1
      <4> QED BY <4>1, <3>1, <2>1, <1>1 DEF ToSet
    <3> QED BY <3>2, <3>3
  <2>4. ASSUME NEW y \in ToSet(s) \cup {x} PROVE y \in ToSet(Append(s, x))
    <3>1. CASE y = x
      <4>1. Len(s) + 1 \in 1 .. (Len(s) + 1) BY <1>1
      <4> QED BY <4>1, <3>1, <2>1 DEF ToSet
    <3>2. CASE y \in ToSet(s)
      <4>1. PICK i \in 1 .. Len(s) : y = s[i] BY <3>2, <1>1 DEF ToSet
      <4>2. i \in 1 .. (Len(s) + 1) BY <4>1, <1>1
      <4> QED BY <4>1, <4>2, <2>1 DEF ToSet
    <3> QED BY <3>1, <3>2, <2>4
  <2> QED BY <2>1, <2>2, <2>3, <2>4
<1> QED BY <1>1, <1>2, <1>3, <1>4

\* A batch has finitely many spans.
LEMMA SpansFinite == IsFiniteSet(Items)
<1>1. ASSUME NEW d \in Documents PROVE IsFiniteSet(ItemsOf(d))
  <2> DEFINE f == [k \in 1 .. SpanCount[d] |-> [document |-> d, order |-> k]]
  <2>1. SpanCount[d] \in Int /\ 1 \in Int
    BY <1>1, PlanFacts
  <2>2. IsFiniteSet(1 .. SpanCount[d])
    BY <2>1, FS_Interval
  <2>3. f \in Surjection(1 .. SpanCount[d], ItemsOf(d))
    <3>1. \A x \in ItemsOf(d) : x.order \in 1 .. SpanCount[d] /\ f[x.order] = x
      BY DEF ItemsOf
    <3>2. f \in [1 .. SpanCount[d] -> ItemsOf(d)]
      BY DEF ItemsOf
    <3> QED BY <3>1, <3>2 DEF Surjection
  <2> QED BY <2>2, <2>3, FS_Surjection
<1> DEFINE g == [d \in Documents |-> ItemsOf(d)]
           T == {ItemsOf(d) : d \in Documents}
<1>2. IsFiniteSet(Documents)
  BY PlanAssumption
<1>3. g \in Surjection(Documents, T)
  BY DEF Surjection
<1>4. IsFiniteSet(T)
  BY <1>2, <1>3, FS_Surjection
<1>5. IsFiniteSet(UNION T)
  BY <1>1, <1>4, FS_UNION
<1> QED BY <1>5 DEF Items

\* Admission takes one span from its queue; what else was queued still is.
LEMMA AdmittedSpan ==
  ASSUME SchedulerInv, NEW item \in Items, Acquire(item)
  PROVE  /\ item \notin active /\ active' = active \cup {item}
         /\ Queued(item)
         /\ \A other \in Items : Queued(other)' <=> Queued(other) /\ other # item
<1>1. SchedulerTypeOK /\ DocumentOrderKept
  BY DEF SchedulerInv
<1>2. PICK i \in DOMAIN rotation : FirstAdmissible(i) /\ item = NextSpan(rotation[i])
  BY DEF Acquire
<1> DEFINE d == item.document
<1>3. rotation[i] \in Documents /\ Admissible(rotation[i])
  BY <1>1, <1>2, LenProperties, ElementOfSeq DEF SchedulerTypeOK, FirstAdmissible
<1>4. /\ d \in Documents /\ item.order = SpanCount[d] - Len(queues[d]) + 1
      /\ item \notin active
      /\ queues[d] # <<>> /\ Len(queues[d]) \in Nat /\ Len(queues[d]) >= 1
  BY <1>1, <1>2, <1>3, NextSpanFacts DEF Admissible
<1>5. queues' = [queues EXCEPT ![d] = Tail(queues[d])] /\ active' = active \cup {item}
  BY DEF Acquire
<1> HIDE DEF d
<1>6. Len(Tail(queues[d])) = Len(queues[d]) - 1
  BY <1>1, <1>4 DEF SchedulerTypeOK
<1>7. /\ \A e \in Documents : e # d => queues'[e] = queues[e]
      /\ queues'[d] = Tail(queues[d])
  BY <1>1, <1>4, <1>5 DEF SchedulerTypeOK
<1>8. ASSUME NEW other \in Items
      PROVE  Queued(other)' <=> Queued(other) /\ other # item
  <2>1. /\ other.document \in Documents /\ other.order \in Int
        /\ other = [document |-> other.document, order |-> other.order]
        /\ item = [document |-> item.document, order |-> item.order]
        /\ item.order \in Int
    BY ItemFacts, PlanFacts
  <2>2. CASE other.document # d
    BY <2>1, <2>2, <1>7 DEF Queued, d
  <2>3. CASE other.document = d
    <3>1. other # item <=> other.order # item.order
      BY <2>1, <2>3 DEF d
    <3>2. Queued(other) <=> other.order > SpanCount[d] - Len(queues[d])
      BY <2>3 DEF Queued
    <3>3. Queued(other)' <=> other.order > SpanCount[d] - (Len(queues[d]) - 1)
      BY <2>3, <1>6, <1>7 DEF Queued
    <3>4. SpanCount[d] \in Int /\ Len(queues[d]) \in Int
      BY <1>4, PlanFacts
    <3> QED BY <3>1, <3>2, <3>3, <3>4, <1>4, <2>1
  <2> QED BY <2>2, <2>3
<1>9. Queued(item)
  BY <1>4, PlanFacts DEF Queued, d
<1> QED BY <1>4, <1>5, <1>8, <1>9

\* Discarding a graph empties its queues and no others.
LEMMA DiscardedSpans ==
  ASSUME SchedulerInv, NEW g \in Graphs, DiscardGraph(g)
  PROVE  /\ active' = active
         /\ \A item \in Items : Queued(item)' <=> Queued(item) /\ Home(item) # g
<1>1. SchedulerTypeOK
  BY DEF SchedulerInv
<1>2. active' = active
  BY DEF DiscardGraph
<1>3. ASSUME NEW item \in Items
      PROVE  Queued(item)' <=> Queued(item) /\ Home(item) # g
  <2>1. /\ item.document \in Documents /\ item.order \in 1 .. SpanCount[item.document]
        /\ SpanCount[item.document] \in Nat
    BY ItemFacts, PlanFacts
  <2>2. CASE Home(item) = g
    <3>1. queues'[item.document] = <<>>
      BY <2>1, <2>2 DEF DiscardGraph, Home
    <3>2. Len(queues'[item.document]) = 0
      BY <3>1
    <3> QED BY <3>2, <2>1, <2>2 DEF Queued
  <2>3. CASE Home(item) # g
    <3>1. queues'[item.document] = queues[item.document]
      BY <2>1, <2>3 DEF DiscardGraph, Home
    <3> QED BY <3>1, <2>3 DEF Queued
  <2> QED BY <2>2, <2>3
<1> QED BY <1>2, <1>3

\* Queued is what it says: the span is in the queue of its document.
LEMMA QueuedMeans ==
  ASSUME SchedulerInv, NEW item \in Items
  PROVE  Queued(item) <=> item \in ToSet(queues[item.document])
<1> DEFINE d == item.document
           q == queues[item.document]
<1>1. /\ d \in Documents /\ item.order \in 1 .. SpanCount[d] /\ SpanCount[d] \in Nat
      /\ item = [document |-> d, order |-> item.order]
  BY ItemFacts, PlanFacts
<1>2. /\ q \in Seq(Items) /\ Len(q) \in Nat /\ DOMAIN q = 1 .. Len(q)
      /\ \A k \in 1 .. Len(q) :
           q[k] = [document |-> d, order |-> SpanCount[d] - Len(q) + k]
  BY <1>1 DEF SchedulerInv, SchedulerTypeOK, DocumentOrderKept
<1> HIDE DEF q, d
<1>3. ASSUME item \in ToSet(q) PROVE item.order > SpanCount[d] - Len(q)
  <2>1. PICK k \in 1 .. Len(q) : item = q[k] BY <1>2, <1>3 DEF ToSet
  <2>2. item.order = SpanCount[d] - Len(q) + k BY <2>1, <1>2
  <2> QED BY <2>1, <2>2, <1>1, <1>2
<1>4. ASSUME item.order > SpanCount[d] - Len(q) PROVE item \in ToSet(q)
  <2> DEFINE k == item.order - SpanCount[d] + Len(q)
  <2>1. k \in 1 .. Len(q) /\ SpanCount[d] - Len(q) + k = item.order BY <1>1, <1>2, <1>4
  <2>2. q[k] = item BY <2>1, <1>1, <1>2
  <2> QED BY <2>1, <2>2, <1>2 DEF ToSet
<1> QED BY <1>3, <1>4 DEF Queued, q, d
\* Something is pending exactly when some span is queued.
LEMMA PendingMeans ==
  ASSUME SchedulerInv
  PROVE  \A item \in Items : Queued(item) => Pending
<1> SUFFICES ASSUME NEW item \in Items, Queued(item) PROVE Pending
  OBVIOUS
<1>1. item \in ToSet(queues[item.document]) /\ item.document \in Documents
  BY QueuedMeans, ItemFacts
<1>2. queues[item.document] # <<>>
  BY <1>1 DEF ToSet
<1> QED BY <1>1, <1>2 DEF Pending
-----------------------------------------------------------------------------
(* The steps of the extraction loop keep the first half of the invariant.  *)

LEMMA RunnerInitInv == Init => RunnerInv
<1> SUFFICES ASSUME Init PROVE RunnerInv
  OBVIOUS
<1> USE DEF Init
<1>1. SchedulerInv
  BY SchedulerInitInv
<1>2. Len(GraphOrder) \in Nat
  BY GraphOrderAssumption, LenProperties
<1>3. /\ \A g \in Graphs : results[g] = <<>> /\ failures[g] = <<>>
      /\ ToSet(<<>>) = {}
  BY DEF ToSet
<1>4. RunnerTypes
  <2>1. 1 \in 1 .. Len(GraphOrder) + 1 BY <1>2
  <2>2. results \in [Graphs -> Seq(Items)] /\ failures \in [Graphs -> Seq(Items)]
    BY EmptySeq
  <2> QED BY <2>1, <2>2 DEF RunnerTypes, Phases, ExtractionPhases, Future
<1>5. active = {} BY DEF SchedulerInit
<1>6. FuturesFit
  BY <1>5 DEF FuturesFit, Finalizing, ExtractionPhases
<1>7. \A item \in Items : Queued(item) /\ outcome[item] = "unscheduled"
  <2> TAKE item \in Items
  <2>1. /\ item.document \in Documents /\ item.order \in 1 .. SpanCount[item.document]
        /\ SpanCount[item.document] \in Nat
    BY ItemFacts, PlanFacts
  <2>2. Len(queues[item.document]) = SpanCount[item.document]
    <3>1. /\ queues[item.document] \in Seq(Items)
          /\ DOMAIN queues[item.document] = 1 .. SpanCount[item.document]
      BY <2>1, <1>1 DEF SchedulerInit, SchedulerInv, SchedulerTypeOK
    <3> QED BY <3>1, <2>1, LenProperties
  <2> QED BY <2>1, <2>2 DEF Queued
<1>8. SpansFit
  <2>1. \A item \in Items : Home(item) \in Graphs
    BY ItemFacts, PlanFacts DEF Home
  <2> QED BY <2>1, <1>3, <1>5, <1>7 DEF SpansFit
<1>9. CountFits
  <2>1. Started = {} /\ Cardinality(Started) = 0
    BY <1>7, FS_EmptySet DEF Started
  <2> QED BY <2>1, <1>3, FS_EmptySet DEF CountFits
<1>10. StopFits
  BY <1>3 DEF StopFits, Finalizing, ExtractionPhases
<1>11. PublicationFits
  <2>1. \A g \in Graphs : Untouched(g) BY DEF Untouched
  <2>2. \A g \in Graphs : GraphFits(g) BY DEF GraphFits, FailedRow
  <2>3. \A i \in 1 .. Len(GraphOrder) : GraphOrder[i] \in Graphs
    BY GraphOrderAssumption, ElementOfSeq
  <2> QED
    BY <2>1, <2>2, <2>3
       DEF PublicationFits, Finalizing, ExtractionPhases, FinalizePhases, ReportPhases
<1> QED BY <1>1, <1>4, <1>6, <1>8, <1>9, <1>10, <1>11 DEF RunnerInv, ExtractionFits

LEMMA HomeType == \A item \in Items : Home(item) \in Graphs
BY ItemFacts, PlanFacts DEF Home

LEMMA StartedFinite == IsFiniteSet(Started) /\ Started \subseteq Items
BY SpansFinite, FS_Subset DEF Started

LEMMA SubmitFits ==
  ASSUME RunnerInv, NEW item \in Items, Submit(item)
  PROVE  RunnerTypes' /\ ExtractionFits'
<1>1. /\ SchedulerInv /\ RunnerTypes
      /\ FuturesFit /\ SpansFit /\ CountFits /\ StopFits
  BY DEF RunnerInv, ExtractionFits
<1>2. /\ item \notin active /\ active' = active \cup {item} /\ Queued(item)
      /\ \A other \in Items : Queued(other)' <=> Queued(other) /\ other # item
  BY <1>1, AdmittedSpan DEF Submit
<1>3. /\ phase = "admit" /\ ~stopNew
      /\ outcome' = [outcome EXCEPT ![item] = "running"]
      /\ scheduledCount' = scheduledCount + 1
      /\ UNCHANGED <<phase, done, handling, results, failures, stopNew, cursor,
                     publicationVars, batchVars>>
  BY DEF Submit
<1>4. /\ outcome[item] = "unscheduled" /\ item \notin active \cup handling
      /\ outcome'[item] = "running"
      /\ \A other \in Items : other # item => outcome'[other] = outcome[other]
  BY <1>1, <1>2, <1>3 DEF SpansFit, RunnerTypes
<1>5. RunnerTypes'
  BY <1>1, <1>2, <1>3 DEF RunnerTypes, Future, publicationVars, batchVars
<1>6. FuturesFit'
  BY <1>1, <1>2, <1>3, <1>4 DEF FuturesFit, RunnerTypes, Finalizing, ExtractionPhases
<1>7. SpansFit'
  <2>1. \A g \in Graphs : ToSet(results[g]) \subseteq Items /\ ToSet(failures[g]) \subseteq Items
    BY <1>1, ListFacts DEF RunnerTypes
  <2>2. \A g \in Graphs : \A it \in ToSet(results'[g]) : ResultFits(g, it)'
    BY <1>1, <1>2, <1>3, <1>4, <2>1 DEF SpansFit, ResultFits, Home
  <2>3. \A g \in Graphs : \A it \in ToSet(failures'[g]) : FailureFits(g, it)'
    BY <1>1, <1>2, <1>3, <1>4, <2>1 DEF SpansFit, FailureFits, Home
  <2>4. ASSUME NEW it \in Items
        PROVE  /\ Queued(it)' => outcome'[it] = "unscheduled"
               /\ it \in active' \cup handling' => outcome'[it] # "unscheduled"
               /\ outcome'[it] # "unscheduled" => Located(it)'
               /\ outcome'[it] = "unscheduled" => Queued(it)' \/ failures'[Home(it)] # <<>>
               /\ failures'[Home(it)] # <<>> => ~Queued(it)'
    BY <1>1, <1>2, <1>3, <1>4 DEF SpansFit, Located, Home
  <2> QED BY <2>2, <2>3, <2>4 DEF SpansFit, Home
<1>8. CountFits'
  <2>1. Started' = Started \cup {item} /\ item \notin Started
    BY <1>1, <1>3, <1>4 DEF Started, RunnerTypes
  <2>2. Cardinality(Started') = Cardinality(Started) + 1
    BY <2>1, StartedFinite, FS_AddElement
  <2> QED BY <2>2, <1>1, <1>3 DEF CountFits
<1>9. StopFits'
  BY <1>1, <1>3 DEF StopFits, Finalizing, ExtractionPhases, batchVars
<1> QED BY <1>5, <1>6, <1>7, <1>8, <1>9 DEF ExtractionFits

\* Nothing but the phase changes, and the loop is left only when idle.
LEMMA PhaseOnlyFits ==
  ASSUME RunnerInv, UNCHANGED <<schedulerVars, extractionVars, cursor, publicationVars, batchVars>>,
         phase' \in Phases,
         phase' \notin {"drain", "crashed"} => done = {} /\ handling = {},
         phase' \notin ExtractionPhases \cup {"crashed"} =>
           active = {} /\ (stopNew \/ ~Pending)
  PROVE  RunnerTypes' /\ ExtractionFits'
<1>1. /\ RunnerTypes /\ FuturesFit /\ SpansFit /\ CountFits /\ StopFits
  BY DEF RunnerInv, ExtractionFits
<1> USE DEF schedulerVars, extractionVars, publicationVars, batchVars
<1>2. RunnerTypes'
  BY <1>1 DEF RunnerTypes
<1>3. FuturesFit'
  BY <1>1 DEF FuturesFit, Finalizing
<1>4. SpansFit'
  BY <1>1 DEF SpansFit, ResultFits, FailureFits, Located, Queued, Home
<1>5. CountFits' /\ StopFits'
  BY <1>1 DEF CountFits, StopFits, Started, Finalizing, Pending
<1> QED BY <1>2, <1>3, <1>4, <1>5 DEF ExtractionFits

LEMMA StopSubmittingFits ==
  ASSUME RunnerInv, StopSubmitting
  PROVE  RunnerTypes' /\ ExtractionFits'
<1>1. /\ UNCHANGED <<schedulerVars, extractionVars, cursor, publicationVars, batchVars>>
      /\ phase = "admit" /\ (stopNew \/ ~CanAcquire)
      /\ phase' = IF active = {} THEN "select" ELSE "wait"
  BY DEF StopSubmitting, AfterSubmitting
<1>2. SchedulerInv /\ FuturesFit
  BY DEF RunnerInv, ExtractionFits
<1>3. done = {} /\ handling = {}
  BY <1>1, <1>2 DEF FuturesFit
<1>4. active = {} => stopNew \/ ~Pending
  BY <1>1, <1>2, IdleAdmits
<1>5. phase' \in Phases
  BY <1>1 DEF Phases, ExtractionPhases
<1>6. phase' \notin ExtractionPhases \cup {"crashed"} => active = {} /\ (stopNew \/ ~Pending)
  BY <1>1, <1>4 DEF ExtractionPhases
<1> QED BY <1>1, <1>3, <1>5, <1>6, PhaseOnlyFits

LEMMA LoopAgainFits ==
  ASSUME RunnerInv, LoopAgain
  PROVE  RunnerTypes' /\ ExtractionFits'
<1>1. /\ UNCHANGED <<schedulerVars, extractionVars, cursor, publicationVars, batchVars>>
      /\ done = {} /\ handling = {}
      /\ phase' = IF Pending \/ active # {} THEN "admit" ELSE "select"
  BY DEF LoopAgain, WorkLeft
<1>2. phase' \in Phases
  BY <1>1 DEF Phases, ExtractionPhases
<1>3. phase' \notin ExtractionPhases \cup {"crashed"} => active = {} /\ (stopNew \/ ~Pending)
  BY <1>1 DEF ExtractionPhases
<1> QED BY <1>1, <1>2, <1>3, PhaseOnlyFits

LEMMA CrashFits ==
  ASSUME RunnerInv, Crash
  PROVE  RunnerTypes' /\ ExtractionFits'
<1>1. /\ UNCHANGED <<schedulerVars, extractionVars, cursor, publicationVars, batchVars>>
      /\ phase' = "crashed"
  BY DEF Crash
<1> QED BY <1>1, PhaseOnlyFits DEF Phases

LEMMA EndRequestFits ==
  ASSUME RunnerInv, NEW item \in Items, NEW result \in {"accepted", "raised"},
         EndRequest(item, result)
  PROVE  RunnerTypes' /\ ExtractionFits'
<1>1. RunnerTypes /\ FuturesFit /\ SpansFit /\ CountFits /\ StopFits
  BY DEF RunnerInv, ExtractionFits
<1>2. /\ item \in active /\ outcome[item] = "running" /\ phase # "crashed"
      /\ outcome' = [outcome EXCEPT ![item] = result]
      /\ UNCHANGED <<schedulerVars, phase, done, handling, results, failures, stopNew,
                     scheduledCount, cursor, publicationVars, batchVars>>
  BY DEF EndRequest
<1>3. /\ outcome'[item] = result
      /\ \A other \in Items : other # item => outcome'[other] = outcome[other]
  BY <1>1, <1>2 DEF RunnerTypes
<1>4. RunnerTypes'
  BY <1>1, <1>2 DEF RunnerTypes, Future, schedulerVars, publicationVars, batchVars
<1>5. item \notin done \cup handling /\ done \cup handling \subseteq Items
  BY <1>1, <1>2, ItemFacts DEF FuturesFit, RunnerTypes, RunnerInv, SchedulerInv, SchedulerTypeOK
<1>6. FuturesFit'
  BY <1>1, <1>2, <1>3, <1>5 DEF FuturesFit, Finalizing, schedulerVars
<1>7. SpansFit'
  <2>1. \A g \in Graphs : ToSet(results[g]) \subseteq Items /\ ToSet(failures[g]) \subseteq Items
    BY <1>1, ListFacts DEF RunnerTypes
  <2>2. \A g \in Graphs : \A it \in ToSet(results'[g]) : ResultFits(g, it)'
    BY <1>1, <1>2, <1>3, <2>1 DEF SpansFit, ResultFits, Home, schedulerVars
  <2>3. \A g \in Graphs : \A it \in ToSet(failures'[g]) : FailureFits(g, it)'
    BY <1>1, <1>2, <1>3, <2>1 DEF SpansFit, FailureFits, Home, schedulerVars
  <2>4. \A it \in Items : Queued(it)' <=> Queued(it)
    BY <1>2 DEF Queued, schedulerVars
  <2>5. \A it \in Items : Located(it)' <=> Located(it)
    BY <1>2 DEF Located, Home, schedulerVars
  <2>6. \A it \in Items : outcome'[it] = "unscheduled" <=> outcome[it] = "unscheduled"
    BY <1>2, <1>3
  <2> QED BY <2>2, <2>3, <2>4, <2>5, <2>6, <1>1, <1>2 DEF SpansFit, Home, schedulerVars
<1>8. CountFits'
  <2>1. Started' = Started
    BY <1>2, <1>3 DEF Started
  <2> QED BY <2>1, <1>1, <1>2 DEF CountFits
<1>9. StopFits'
  BY <1>1, <1>2 DEF StopFits, Finalizing, Pending, schedulerVars, batchVars
<1> QED BY <1>4, <1>6, <1>7, <1>8, <1>9 DEF ExtractionFits

LEMMA WaitFits ==
  ASSUME RunnerInv, WaitFirstCompleted
  PROVE  RunnerTypes' /\ ExtractionFits'
<1>1. RunnerTypes /\ FuturesFit /\ SpansFit /\ CountFits /\ StopFits /\ active \subseteq Items
  BY DEF RunnerInv, ExtractionFits, SchedulerInv, SchedulerTypeOK
<1>2. /\ phase = "wait" /\ phase' = "drain"
      /\ done' = {item \in active : outcome[item] # "running"}
      /\ UNCHANGED <<schedulerVars, outcome, handling, results, failures, stopNew,
                     scheduledCount, cursor, publicationVars, batchVars>>
  BY DEF WaitFirstCompleted, EndedFutures
<1>3. RunnerTypes'
  BY <1>1, <1>2 DEF RunnerTypes, Phases, ExtractionPhases, schedulerVars, publicationVars, batchVars
<1>4. \A item \in done' : outcome[item] \in {"accepted", "raised"}
  BY <1>1, <1>2 DEF SpansFit, RunnerTypes, Future
<1>5. FuturesFit'
  BY <1>1, <1>2, <1>4 DEF FuturesFit, Finalizing, ExtractionPhases, schedulerVars
<1>6. SpansFit'
  BY <1>1, <1>2 DEF SpansFit, ResultFits, FailureFits, Located, Queued, Home, schedulerVars
<1>7. CountFits' /\ StopFits'
  BY <1>1, <1>2
     DEF CountFits, StopFits, Started, Finalizing, ExtractionPhases, schedulerVars, batchVars
<1> QED BY <1>3, <1>5, <1>6, <1>7 DEF ExtractionFits

LEMMA PopDoneFits ==
  ASSUME RunnerInv, NEW item \in Items, PopDone(item)
  PROVE  RunnerTypes' /\ ExtractionFits'
<1>1. RunnerTypes /\ FuturesFit /\ SpansFit /\ CountFits /\ StopFits
  BY DEF RunnerInv, ExtractionFits
<1>2. /\ phase = "drain" /\ handling = {} /\ item \in done /\ item \in active
      /\ done' = done \ {item} /\ handling' = {item} /\ active' = active \ {item}
      /\ UNCHANGED queues
      /\ UNCHANGED <<phase, outcome, results, failures, stopNew, scheduledCount, cursor,
                     publicationVars, batchVars>>
  BY DEF PopDone, ReleaseSlot, Complete
<1>3. active' \cup handling' = active \cup handling
  BY <1>2
<1>4. RunnerTypes'
  BY <1>1, <1>2 DEF RunnerTypes, publicationVars, batchVars
<1>5. FuturesFit'
  BY <1>1, <1>2 DEF FuturesFit, Finalizing, ExtractionPhases
<1>6. SpansFit'
  <2>1. \A it \in Items : Queued(it)' <=> Queued(it)
    BY <1>2 DEF Queued
  <2>2. \A it \in Items : Located(it)' <=> Located(it)
    BY <1>2, <1>3 DEF Located, Home
  <2>3. \A g \in Graphs : \A it \in ToSet(results'[g]) : ResultFits(g, it)'
    BY <1>1, <1>2, <1>3 DEF SpansFit, ResultFits, Home
  <2>4. \A g \in Graphs : \A it \in ToSet(failures'[g]) : FailureFits(g, it)'
    BY <1>1, <1>2, <1>3 DEF SpansFit, FailureFits, Home
  <2> QED BY <2>1, <2>2, <2>3, <2>4, <1>1, <1>2, <1>3 DEF SpansFit, Home
<1>7. CountFits' /\ StopFits'
  BY <1>1, <1>2 DEF CountFits, StopFits, Started, Finalizing, ExtractionPhases, batchVars
<1> QED BY <1>4, <1>5, <1>6, <1>7 DEF ExtractionFits


LEMMA RecordAcceptedFits ==
  ASSUME RunnerInv, NEW item \in Items, RecordAccepted(item)
  PROVE  RunnerTypes' /\ ExtractionFits'
<1> DEFINE g == Home(item)
<1>1. RunnerTypes /\ FuturesFit /\ SpansFit /\ CountFits /\ StopFits /\ g \in Graphs
  BY HomeType DEF RunnerInv, ExtractionFits
<1>2. /\ phase = "drain" /\ item \in handling /\ outcome[item] = "accepted"
      /\ results' = [results EXCEPT ![g] = Append(results[g], item)]
      /\ handling' = {}
      /\ UNCHANGED <<schedulerVars, phase, outcome, done, failures, stopNew,
                     scheduledCount, cursor, publicationVars, batchVars>>
  BY DEF RecordAccepted, Home
<1> HIDE DEF g
<1>3. /\ results'[g] = Append(results[g], item)
      /\ Append(results[g], item) \in Seq(Items)
      /\ Len(results'[g]) = Len(results[g]) + 1
      /\ ToSet(results'[g]) = ToSet(results[g]) \cup {item}
      /\ \A h \in Graphs : h # g => results'[h] = results[h]
  BY <1>1, <1>2, ListFacts DEF RunnerTypes
<1>4. /\ handling = {item} /\ item \notin active
      /\ \A h \in Graphs : item \notin ToSet(results[h]) /\ item \notin ToSet(failures[h])
  BY <1>1, <1>2 DEF FuturesFit, SpansFit, ResultFits, FailureFits
<1>5. RunnerTypes'
  <2>1. results' \in [Graphs -> Seq(Items)]
    BY <1>1, <1>2, <1>3 DEF RunnerTypes
  <2> QED BY <2>1, <1>1, <1>2 DEF RunnerTypes, schedulerVars, publicationVars, batchVars
<1>6. FuturesFit'
  BY <1>1, <1>2 DEF FuturesFit, Finalizing, ExtractionPhases, schedulerVars
<1>7. SpansFit'
  <2>1. ASSUME NEW h \in Graphs, NEW it \in ToSet(results'[h])
        PROVE  ResultFits(h, it)'
    <3>1. CASE it \in ToSet(results[h])
      BY <3>1, <1>1, <1>2, <1>4 DEF SpansFit, ResultFits, Home, schedulerVars
    <3>2. CASE it \notin ToSet(results[h])
      <4>1. h = g /\ it = item BY <3>2, <2>1, <1>3
      <4> QED BY <4>1, <1>2, <1>4 DEF ResultFits, Home, schedulerVars, g
    <3> QED BY <3>1, <3>2
  <2>2. \A h \in Graphs : \A it \in ToSet(failures'[h]) : FailureFits(h, it)'
    BY <1>1, <1>2, <1>3, <1>4 DEF SpansFit, FailureFits, Home, schedulerVars
  <2>3. \A it \in Items : Queued(it)' <=> Queued(it)
    BY <1>2 DEF Queued, schedulerVars
  <2>4. ASSUME NEW it \in Items PROVE Located(it) => Located(it)'
    <3>1. Home(it) \in Graphs /\ Home(it)' = Home(it) BY HomeType DEF Home
    <3>2. it = item => Home(it) = g BY DEF g
    <3> QED BY <3>1, <3>2, <1>2, <1>3, <1>4 DEF Located, schedulerVars
  <2>5. active' \cup handling' \subseteq active \cup handling
    BY <1>2 DEF schedulerVars
  <2> QED BY <2>1, <2>2, <2>3, <2>4, <2>5, <1>1, <1>2 DEF SpansFit, Home
<1>8. CountFits'
  <2>1. ASSUME NEW h \in Graphs PROVE Len(results'[h]) = Cardinality(ToSet(results'[h]))
    <3>1. Len(results[h]) = Cardinality(ToSet(results[h]))
      BY <1>1 DEF CountFits
    <3>2. IsFiniteSet(ToSet(results[g]))
      BY <1>1, ListFacts, SpansFinite, FS_Subset DEF RunnerTypes
    <3>3. Cardinality(ToSet(results[g]) \cup {item}) = Cardinality(ToSet(results[g])) + 1
      BY <3>2, <1>1, <1>4, FS_AddElement
    <3> QED BY <3>1, <3>3, <1>3
  <2> QED BY <2>1, <1>1, <1>2 DEF CountFits, Started
<1>9. StopFits'
  BY <1>1, <1>2 DEF StopFits, Finalizing, ExtractionPhases, batchVars
<1> QED BY <1>5, <1>6, <1>7, <1>8, <1>9 DEF ExtractionFits

LEMMA RecordFailureFits ==
  ASSUME RunnerInv, NEW item \in Items, RecordFailure(item)
  PROVE  RunnerTypes' /\ ExtractionFits'
<1> DEFINE g == Home(item)
<1>1. RunnerTypes /\ FuturesFit /\ SpansFit /\ CountFits /\ StopFits /\ g \in Graphs
  BY HomeType DEF RunnerInv, ExtractionFits
<1>2. /\ phase = "drain" /\ item \in handling /\ outcome[item] \in {"accepted", "raised"}
      /\ failures' = [failures EXCEPT ![g] = Append(failures[g], item)]
      /\ handling' = {} /\ DiscardGraph(g)
      /\ stopNew' = (stopNew \/ ~continueOthers)
      /\ UNCHANGED <<phase, outcome, done, results, scheduledCount, cursor,
                     publicationVars, batchVars>>
  BY DEF RecordFailure, DiscardFor, StopAfterFailure, Home
<1>3. /\ active' = active
      /\ \A it \in Items : Queued(it)' <=> Queued(it) /\ Home(it) # g
  BY <1>1, <1>2, DiscardedSpans DEF RunnerInv
<1> HIDE DEF g
<1>4. /\ failures'[g] = Append(failures[g], item)
      /\ Append(failures[g], item) \in Seq(Items) /\ failures'[g] # <<>>
      /\ ToSet(failures'[g]) = ToSet(failures[g]) \cup {item}
      /\ \A h \in Graphs : h # g => failures'[h] = failures[h]
  <2>1. failures \in [Graphs -> Seq(Items)] /\ failures[g] \in Seq(Items)
    BY <1>1 DEF RunnerTypes
  <2>2. /\ Append(failures[g], item) \in Seq(Items) /\ Append(failures[g], item) # <<>>
        /\ ToSet(Append(failures[g], item)) = ToSet(failures[g]) \cup {item}
    BY <2>1, ListFacts
  <2>3. /\ failures'[g] = Append(failures[g], item)
        /\ \A h \in Graphs : h # g => failures'[h] = failures[h]
    BY <2>1, <1>1, <1>2
  <2> QED BY <2>2, <2>3
<1>5. handling = {item} /\ item \notin active /\ item \notin ToSet(results[g])
  BY <1>1, <1>2 DEF FuturesFit, SpansFit, ResultFits
<1>6. RunnerTypes'
  <2>1. failures' \in [Graphs -> Seq(Items)]
    BY <1>1, <1>2, <1>4 DEF RunnerTypes
  <2>2. stopNew' \in BOOLEAN
    BY <1>2
  <2> QED BY <2>1, <2>2, <1>1, <1>2, <1>3 DEF RunnerTypes, publicationVars, batchVars
<1>7. FuturesFit'
  BY <1>1, <1>2, <1>3 DEF FuturesFit, Finalizing, ExtractionPhases
<1>8. SpansFit'
  <2>1. \A h \in Graphs : \A it \in ToSet(results'[h]) : ResultFits(h, it)'
    BY <1>1, <1>2, <1>3, <1>5 DEF SpansFit, ResultFits, Home
  <2>2. ASSUME NEW h \in Graphs, NEW it \in ToSet(failures'[h])
        PROVE  FailureFits(h, it)'
    <3>1. CASE it \in ToSet(failures[h])
      BY <3>1, <1>1, <1>2, <1>3, <1>5 DEF SpansFit, FailureFits, Home
    <3>2. CASE it \notin ToSet(failures[h])
      <4>1. h = g /\ it = item BY <3>2, <2>2, <1>4
      <4> QED BY <4>1, <1>2, <1>3, <1>5 DEF FailureFits, Home, g
    <3> QED BY <3>1, <3>2
  <2>3. ASSUME NEW it \in Items
        PROVE  /\ Home(it) \in Graphs /\ Home(it)' = Home(it)
               /\ Located(it) => Located(it)'
               /\ failures[Home(it)] # <<>> => failures'[Home(it)] # <<>>
               /\ failures'[Home(it)] # <<>> => Home(it) = g \/ failures[Home(it)] # <<>>
    <3>1. Home(it) \in Graphs /\ Home(it)' = Home(it) BY HomeType DEF Home
    <3>2. it = item => Home(it) = g BY DEF g
    <3> QED BY <3>1, <3>2, <1>2, <1>3, <1>4, <1>5 DEF Located
  <2>4. ASSUME NEW it \in Items
        PROVE  /\ Queued(it)' => outcome'[it] = "unscheduled"
               /\ it \in active' \cup handling' => outcome'[it] # "unscheduled"
               /\ outcome'[it] # "unscheduled" => Located(it)'
               /\ outcome'[it] = "unscheduled" => Queued(it)' \/ failures'[Home(it)] # <<>>
               /\ failures'[Home(it)] # <<>> => ~Queued(it)'
    BY <2>3, <1>1, <1>2, <1>3, <1>4 DEF SpansFit
  <2>5. \A it \in Items : Home(it)' = Home(it)
    BY DEF Home
  <2> QED BY <2>1, <2>2, <2>4, <2>5 DEF SpansFit
<1>9. CountFits'
  BY <1>1, <1>2 DEF CountFits, Started
<1>10. StopFits'
  <2>1. phase' = "drain" /\ continueOthers' = continueOthers
    BY <1>2 DEF batchVars
  <2>2. stopNew' => ~continueOthers'
    BY <2>1, <1>1, <1>2 DEF StopFits
  <2>3. stopNew' => \E h \in Graphs : failures'[h] # <<>>
    BY <1>1, <1>4
  <2>4. ~stopNew' /\ ~continueOthers' => \A h \in Graphs : failures'[h] = <<>>
    BY <2>1, <1>2
  <2> QED BY <2>1, <2>2, <2>3, <2>4 DEF StopFits, Finalizing, ExtractionPhases
<1> QED BY <1>6, <1>7, <1>8, <1>9, <1>10 DEF ExtractionFits
-----------------------------------------------------------------------------
(* Finalization: the steps of the second half.                             *)

LEMMA OrderFacts ==
  /\ Len(GraphOrder) \in Nat
  /\ \A i \in 1 .. Len(GraphOrder) : GraphOrder[i] \in Graphs
  /\ \A i, j \in 1 .. Len(GraphOrder) : GraphOrder[i] = GraphOrder[j] => i = j
  /\ \A g \in Graphs : \E i \in 1 .. Len(GraphOrder) : GraphOrder[i] = g
BY GraphOrderAssumption, LenProperties, ElementOfSeq

\* Before finalization no directory holds anything, so recording a span
\* cannot disturb what is said of the directories.
LEMMA ExtractingKeepsPublication ==
  ASSUME RunnerInv, Extracting, UNCHANGED <<cursor, publicationVars>>,
         phase' \in ExtractionPhases \cup {"select"}
  PROVE  PublicationFits'
<1>1. /\ \A g \in Graphs : Untouched(g) /\ GraphFits(g)
      /\ cursor = 1
  BY DEF RunnerInv, PublicationFits
<1>2. UNCHANGED <<cursor, embedded, files, neo4j, parity, reported>>
  BY DEF publicationVars
<1>3. \A g \in Graphs : Untouched(g)'
  BY <1>1, <1>2 DEF Untouched
<1>4. \A g \in Graphs : GraphFits(g)'
  BY <1>1, <1>2 DEF Untouched, GraphFits, FailedRow
<1>5. \A i \in 1 .. Len(GraphOrder) : GraphOrder[i] \in Graphs
  BY OrderFacts
<1>6. \A i \in 1 .. Len(GraphOrder) : ~(i < cursor')
  BY <1>1, <1>2, OrderFacts
<1>7. phase' \notin FinalizePhases /\ phase' \notin ReportPhases
  BY DEF ExtractionPhases, FinalizePhases, ReportPhases
<1> QED BY <1>1, <1>2, <1>3, <1>4, <1>5, <1>6, <1>7 DEF PublicationFits

LEMMA CrashKeepsPublication ==
  ASSUME RunnerInv, Crash
  PROVE  PublicationFits'
<1>1. /\ phase' = "crashed"
      /\ UNCHANGED <<cursor, embedded, files, neo4j, parity, reported, results, failures,
                     stopNew, continueOthers>>
  BY DEF Crash, publicationVars, extractionVars, batchVars
<1>2. \A g \in Graphs : GraphFits(g)'
  BY <1>1 DEF RunnerInv, PublicationFits, GraphFits, FailedRow, AllAccepted, GraphItems
<1>3. \A g \in Graphs : Untouched(g)' <=> Untouched(g)
  BY <1>1 DEF Untouched
<1>4. \A i \in 1 .. Len(GraphOrder) : i > cursor' => Untouched(GraphOrder[i])'
  BY <1>1, <1>3, OrderFacts DEF RunnerInv, PublicationFits
<1> QED
  BY <1>1, <1>2, <1>4
     DEF PublicationFits, Extracting, Finalizing, ExtractionPhases, FinalizePhases, ReportPhases

\* Extraction is over and nothing of it changes any more.
LEMMA ExtractionOver ==
  ASSUME RunnerInv, Finalizing, phase' \notin ExtractionPhases \cup {"crashed"},
         UNCHANGED <<schedulerVars, extractionVars, continueOthers>>
  PROVE  ExtractionFits'
<1> USE DEF schedulerVars, extractionVars
<1>1. FuturesFit /\ SpansFit /\ CountFits /\ StopFits
  BY DEF RunnerInv, ExtractionFits
<1>2. FuturesFit'
  BY <1>1 DEF FuturesFit, Finalizing, ExtractionPhases
<1>3. SpansFit'
  BY <1>1 DEF SpansFit, ResultFits, FailureFits, Located, Queued, Home
<1>4. CountFits' /\ StopFits'
  BY <1>1 DEF CountFits, StopFits, Started, Finalizing, Pending
<1> QED BY <1>2, <1>3, <1>4 DEF ExtractionFits

\* Without a failure that concerns it, a graph has all its spans accepted when
\* extraction is over.
LEMMA BarrierReason ==
  ASSUME RunnerInv, Finalizing, NEW g \in Graphs
  PROVE  /\ ~stopNew /\ failures[g] = <<>> => AllAccepted(g)
         /\ AllAccepted(g) <=> ~Incomplete(g)
<1>1. /\ SchedulerInv /\ RunnerTypes
      /\ FuturesFit /\ SpansFit /\ CountFits /\ StopFits
  BY DEF RunnerInv, ExtractionFits
<1>2. /\ ToSet(results[g]) \subseteq GraphItems(g)
      /\ Len(results[g]) = Cardinality(ToSet(results[g]))
      /\ failures[g] = <<>> => ToSet(failures[g]) = {}
  <2>1. ToSet(results[g]) \subseteq Items /\ \A item \in ToSet(results[g]) : Home(item) = g
    BY <1>1, ListFacts DEF RunnerTypes, SpansFit, ResultFits
  <2> QED BY <2>1, <1>1, ListFacts DEF GraphItems, CountFits, RunnerTypes, Home
<1>3. ASSUME ~stopNew, failures[g] = <<>>, NEW item \in GraphItems(g)
      PROVE  item \in ToSet(results[g])
  <2>1. item \in Items /\ Home(item) = g
    BY DEF GraphItems, Home
  <2>2. ~Queued(item)
    BY <1>1, <1>3, <2>1, PendingMeans DEF StopFits
  <2>3. active \cup handling = {}
    BY <1>1 DEF FuturesFit, Finalizing, ExtractionPhases
  <2> QED BY <2>1, <2>2, <2>3, <1>1, <1>2, <1>3 DEF SpansFit, Located
<1>4. IsFiniteSet(GraphItems(g))
  BY SpansFinite, FS_Subset DEF GraphItems
<1>5. Whole(g) <=> ToSet(results[g]) = GraphItems(g)
  BY <1>2, <1>4, FS_Subset DEF Whole
<1> QED BY <1>2, <1>3, <1>5 DEF AllAccepted, Incomplete

\* Nothing that is said of graph h changes.
SameAt(h) ==
  /\ h \in embedded' <=> h \in embedded
  /\ h \in neo4j' <=> h \in neo4j
  /\ files'[h] = files[h] /\ parity'[h] = parity[h] /\ reported'[h] = reported[h]

\* A step of the finalization of the graph at the cursor: it stays within the
\* graph, decides it, or decides it and leaves the loop.
LEMMA StepAtCursor ==
  ASSUME RunnerInv, Finalizing, cursor <= Len(GraphOrder),
         NEW g, g = Current,
         UNCHANGED <<schedulerVars, extractionVars, continueOthers>>,
         \A h \in Graphs : h # g => SameAt(h),
         GraphFits(g)',
         \/ cursor' = cursor /\ phase' \in FinalizePhases /\ StageFits(g)'
         \/ cursor' = cursor + 1 /\ phase' = "select" /\ reported'[g] # {}
         \/ cursor' = cursor /\ phase' = "report" /\ CutShort(g)'
  PROVE  ExtractionFits' /\ PublicationFits'
<1>1. /\ \A h \in Graphs : GraphFits(h)
      /\ \A i \in 1 .. Len(GraphOrder) :
           /\ i > cursor => Untouched(GraphOrder[i])
           /\ i < cursor => reported[GraphOrder[i]] # {}
  BY DEF RunnerInv, PublicationFits
<1>2. cursor \in 1 .. Len(GraphOrder) /\ cursor \in Int /\ g = GraphOrder[cursor]
  BY OrderFacts DEF Current, RunnerInv, RunnerTypes
<1>3. \A i \in 1 .. Len(GraphOrder) : i # cursor =>
        GraphOrder[i] \in Graphs /\ GraphOrder[i] # g
  BY <1>2, OrderFacts DEF Current
<1>4. ASSUME NEW h \in Graphs, h # g
      PROVE  GraphFits(h)' /\ (Untouched(h) => Untouched(h)') /\ reported'[h] = reported[h]
  <2>1. SameAt(h) /\ GraphFits(h)
    BY <1>1, <1>4
  <2>2. UNCHANGED <<results, failures, stopNew>>
    BY DEF extractionVars
  <2>3. GraphFits(h)'
    BY <2>1, <2>2 DEF SameAt, GraphFits, FailedRow, AllAccepted, GraphItems
  <2> QED BY <2>1, <2>3 DEF SameAt, Untouched
<1>5. \A h \in Graphs : GraphFits(h)'
  BY <1>4
<1>6. phase' \notin ExtractionPhases \cup {"crashed"}
  BY DEF ExtractionPhases, FinalizePhases
<1>7. ExtractionFits'
  BY <1>6, ExtractionOver
<1>8. \A i \in 1 .. Len(GraphOrder) :
        /\ i > cursor => Untouched(GraphOrder[i])'
        /\ i < cursor => reported'[GraphOrder[i]] # {}
  BY <1>1, <1>2, <1>3, <1>4
<1>9. ~Extracting'
  BY <1>6 DEF Extracting
<1>10. CASE cursor' = cursor /\ phase' \in FinalizePhases /\ StageFits(g)'
  <2>1. phase' # "select" /\ phase' \notin ReportPhases
    BY <1>10 DEF FinalizePhases, ReportPhases
  <2> QED BY <1>10, <2>1, <1>2, <1>5, <1>7, <1>8, <1>9 DEF PublicationFits
<1>11. CASE cursor' = cursor + 1 /\ phase' = "select" /\ reported'[g] # {}
  <2>1. phase' \notin FinalizePhases /\ phase' \notin ReportPhases
    BY <1>11 DEF FinalizePhases, ReportPhases
  <2>2. \A i \in 1 .. Len(GraphOrder) :
          /\ i > cursor + 1 => Untouched(GraphOrder[i])'
          /\ i < cursor + 1 => reported'[GraphOrder[i]] # {}
          /\ i = cursor + 1 => Untouched(GraphOrder[i])'
    <3> TAKE i \in 1 .. Len(GraphOrder)
    <3>1. i < cursor + 1 => i < cursor \/ i = cursor
      BY <1>2
    <3>2. i = cursor + 1 \/ i > cursor + 1 => i > cursor
      BY <1>2
    <3> QED BY <3>1, <3>2, <1>2, <1>8, <1>11
  <2> QED BY <1>11, <2>1, <2>2, <1>5, <1>7, <1>9 DEF PublicationFits
<1>12. CASE cursor' = cursor /\ phase' = "report" /\ CutShort(g)'
  <2>1. phase' \notin FinalizePhases \cup {"select"}
    BY <1>12 DEF FinalizePhases
  <2> QED BY <1>12, <2>1, <1>2, <1>5, <1>7, <1>8, <1>9 DEF PublicationFits
<1> QED BY <1>10, <1>11, <1>12

LEMMA AtStage ==
  ASSUME RunnerInv, phase \in FinalizePhases \/ (phase = "select" /\ cursor <= Len(GraphOrder)),
         NEW g, g = Current
  PROVE  /\ g \in Graphs /\ Finalizing /\ GraphFits(g)
         /\ cursor \in 1 .. Len(GraphOrder) /\ cursor + 1 \in 1 .. Len(GraphOrder) + 1
         /\ phase = "select" => Untouched(g)
         /\ phase \in FinalizePhases => StageFits(g)
<1>1. Finalizing
  BY DEF Finalizing, ExtractionPhases, FinalizePhases
<1>2. cursor \in 1 .. Len(GraphOrder)
  BY OrderFacts DEF RunnerInv, RunnerTypes, PublicationFits
<1>3. cursor + 1 \in 1 .. Len(GraphOrder) + 1 /\ cursor = cursor
  BY <1>2, OrderFacts
<1>4. g \in Graphs /\ g = GraphOrder[cursor]
  BY <1>2, OrderFacts DEF Current
<1> QED BY <1>1, <1>2, <1>3, <1>4 DEF RunnerInv, PublicationFits

LEMMA ReportIncompleteInv ==
  ASSUME RunnerInv, ReportIncomplete
  PROVE  RunnerTypes' /\ ExtractionFits' /\ PublicationFits'
<1>1. PICK g : g = Current OBVIOUS
<1>2. /\ phase = "select" /\ cursor <= Len(GraphOrder) /\ Incomplete(g)
      /\ files' = [files EXCEPT ![g] = files[g] \cup {"terminal_failure"}]
      /\ reported' = [reported EXCEPT ![g] = reported[g] \cup {"failed"}]
      /\ cursor' = cursor + 1 /\ phase' = phase
      /\ UNCHANGED <<schedulerVars, extractionVars, embedded, published, neo4j, parity, batchVars>>
  BY <1>1 DEF ReportIncomplete, AfterIncomplete
<1>3. /\ g \in Graphs /\ Finalizing /\ GraphFits(g) /\ Untouched(g) /\ RunnerTypes
      /\ cursor + 1 \in 1 .. Len(GraphOrder) + 1
  BY <1>1, <1>2, AtStage DEF RunnerInv
<1>4. RunnerTypes'
  BY <1>2, <1>3 DEF RunnerTypes, Artifacts, Rows, schedulerVars, extractionVars, batchVars
<1>5. \A h \in Graphs : h # g => SameAt(h)
  BY <1>2, <1>3 DEF SameAt, RunnerTypes
<1>6. files'[g] = {"terminal_failure"} /\ reported'[g] = {"failed"} /\ g \notin embedded \cup neo4j
  BY <1>2, <1>3 DEF Untouched, RunnerTypes
<1>7. failures[g] # <<>> \/ AllAccepted(g) \/ stopNew
  BY <1>3, BarrierReason
<1>8. GraphFits(g)'
  BY <1>2, <1>6, <1>7 DEF GraphFits, FailedRow, AllAccepted, GraphItems, extractionVars
<1>9. continueOthers' = continueOthers /\ reported'[g] # {}
  BY <1>2, <1>6 DEF batchVars
<1> QED BY <1>1, <1>2, <1>3, <1>4, <1>5, <1>8, <1>9, StepAtCursor

\* A stage that succeeds: the group stays at the cursor.
LEMMA StageStep ==
  ASSUME RunnerInv, NEW g, g = Current,
         phase \in FinalizePhases \/ (phase = "select" /\ cursor <= Len(GraphOrder)),
         UNCHANGED <<schedulerVars, extractionVars, cursor, reported, batchVars>>,
         phase' \in FinalizePhases,
         embedded' \in SUBSET Graphs, neo4j' \in SUBSET Graphs,
         files' \in [Graphs -> SUBSET Artifacts],
         parity' \in [Graphs -> {"unknown", "passed", "failed"}],
         \A h \in Graphs : h # g => SameAt(h),
         StageFits(g)'
  PROVE  RunnerTypes' /\ ExtractionFits' /\ PublicationFits'
<1>1. /\ g \in Graphs /\ Finalizing /\ RunnerTypes /\ cursor <= Len(GraphOrder)
  BY AtStage, OrderFacts DEF RunnerInv
<1>2. RunnerTypes'
  BY <1>1 DEF RunnerTypes, Phases, schedulerVars, extractionVars, batchVars
<1>3. GraphFits(g)'
  <2>1. AllAccepted(g)' /\ reported'[g] = {}
    BY DEF StageFits
  <2>2. "terminal_failure" \notin files'[g]
    BY DEF StageFits, FinalizePhases
  <2>3. "completion_status" \in files'[g] =>
          /\ files'[g] = Artifacts \ {"terminal_failure"}
          /\ g \in embedded' /\ g \in neo4j' /\ parity'[g] = "passed"
    BY DEF StageFits, FinalizePhases
  <2> QED BY <2>1, <2>2, <2>3 DEF GraphFits, FailedRow
<1>4. continueOthers' = continueOthers
  BY DEF batchVars
<1> QED BY <1>1, <1>2, <1>3, <1>4, StepAtCursor

LEMMA BeginFinalizeInv ==
  ASSUME RunnerInv, BeginFinalize
  PROVE  RunnerTypes' /\ ExtractionFits' /\ PublicationFits'
<1>1. PICK g : g = Current OBVIOUS
<1>2. /\ phase = "select" /\ cursor <= Len(GraphOrder) /\ ~Incomplete(g) /\ phase' = "embed"
      /\ UNCHANGED <<schedulerVars, extractionVars, cursor, embedded, published, files, neo4j,
                     parity, reported, batchVars>>
  BY <1>1 DEF BeginFinalize, publicationVars
<1>3. g \in Graphs /\ Finalizing /\ Untouched(g) /\ RunnerTypes
  BY <1>1, <1>2, AtStage DEF RunnerInv
<1>4. AllAccepted(g)
  BY <1>2, <1>3, BarrierReason
<1>5. StageFits(g)'
  BY <1>2, <1>3, <1>4 DEF StageFits, Untouched, AllAccepted, GraphItems, extractionVars
<1>6. \A h \in Graphs : SameAt(h)
  BY <1>2 DEF SameAt
<1>7. /\ phase' \in FinalizePhases
      /\ embedded' \in SUBSET Graphs /\ neo4j' \in SUBSET Graphs
      /\ files' \in [Graphs -> SUBSET Artifacts]
      /\ parity' \in [Graphs -> {"unknown", "passed", "failed"}]
  BY <1>2, <1>3 DEF RunnerTypes, FinalizePhases
<1> QED BY <1>1, <1>2, <1>5, <1>6, <1>7, StageStep

LEMMA EmbedInv ==
  ASSUME RunnerInv, Embed
  PROVE  RunnerTypes' /\ ExtractionFits' /\ PublicationFits'
<1>1. PICK g : g = Current OBVIOUS
<1>2. /\ phase = "embed" /\ phase' = "fact_graph" /\ embedded' = embedded \cup {g}
      /\ UNCHANGED <<schedulerVars, extractionVars, cursor, published, files, neo4j,
                     parity, reported, batchVars>>
  BY <1>1 DEF Embed
<1>3. phase \in FinalizePhases /\ phase' \in FinalizePhases
  BY <1>2 DEF FinalizePhases
<1>4. g \in Graphs /\ StageFits(g) /\ RunnerTypes
  BY <1>1, <1>3, AtStage DEF RunnerInv
<1>5. StageFits(g)'
  BY <1>2, <1>4 DEF StageFits, AllAccepted, GraphItems, extractionVars
<1>6. \A h \in Graphs : h # g => SameAt(h)
  BY <1>2 DEF SameAt
<1>7. /\ embedded' \in SUBSET Graphs /\ neo4j' \in SUBSET Graphs
      /\ files' \in [Graphs -> SUBSET Artifacts]
      /\ parity' \in [Graphs -> {"unknown", "passed", "failed"}]
  BY <1>2, <1>4 DEF RunnerTypes
<1> QED BY <1>1, <1>2, <1>3, <1>5, <1>6, <1>7, StageStep

LEMMA PersistFactGraphInv ==
  ASSUME RunnerInv, PersistFactGraph
  PROVE  RunnerTypes' /\ ExtractionFits' /\ PublicationFits'
<1>1. PICK g : g = Current OBVIOUS
<1>2. /\ phase = "fact_graph" /\ phase' = "graph_manifest"
      /\ files' = [files EXCEPT ![g] = files[g] \cup {"fact_graph"}]
      /\ UNCHANGED <<schedulerVars, extractionVars, cursor, embedded, neo4j, parity,
                     reported, batchVars>>
  BY <1>1 DEF PersistFactGraph
<1>3. phase \in FinalizePhases /\ phase' \in FinalizePhases
  BY <1>2 DEF FinalizePhases
<1>4. g \in Graphs /\ StageFits(g) /\ RunnerTypes
  BY <1>1, <1>3, AtStage DEF RunnerInv
<1>5. /\ files'[g] = {"fact_graph"} /\ \A h \in Graphs : h # g => files'[h] = files[h]
      /\ files' \in [Graphs -> SUBSET Artifacts]
  BY <1>2, <1>4 DEF StageFits, RunnerTypes, Artifacts
<1>6. StageFits(g)'
  BY <1>2, <1>4, <1>5 DEF StageFits, AllAccepted, GraphItems, extractionVars
<1>7. \A h \in Graphs : h # g => SameAt(h)
  BY <1>2, <1>5 DEF SameAt
<1>8. /\ embedded' \in SUBSET Graphs /\ neo4j' \in SUBSET Graphs
      /\ parity' \in [Graphs -> {"unknown", "passed", "failed"}]
  BY <1>2, <1>4 DEF RunnerTypes
<1> QED BY <1>1, <1>2, <1>3, <1>5, <1>6, <1>7, <1>8, StageStep

LEMMA WriteDescriptionInv ==
  ASSUME RunnerInv, WriteDescription
  PROVE  RunnerTypes' /\ ExtractionFits' /\ PublicationFits'
<1>1. PICK g : g = Current OBVIOUS
<1>2. /\ phase \in {"graph_manifest", "resolution_report"}
      /\ phase' = IF phase = "graph_manifest" THEN "resolution_report" ELSE "import"
      /\ files' = [files EXCEPT ![g] = files[g] \cup {phase}]
      /\ UNCHANGED <<schedulerVars, extractionVars, cursor, embedded, published, neo4j,
                     parity, reported, batchVars>>
  BY <1>1 DEF WriteDescription
<1>3. phase \in FinalizePhases /\ phase' \in FinalizePhases
  BY <1>2 DEF FinalizePhases
<1>4. g \in Graphs /\ StageFits(g) /\ RunnerTypes
  BY <1>1, <1>3, AtStage DEF RunnerInv
<1>5. /\ files'[g] = files[g] \cup {phase}
      /\ \A h \in Graphs : h # g => files'[h] = files[h]
      /\ files' \in [Graphs -> SUBSET Artifacts]
  BY <1>2, <1>4 DEF RunnerTypes, Artifacts
<1>6. AllAccepted(g)' /\ reported'[g] = {} /\ g \in embedded'
  BY <1>2, <1>4 DEF StageFits, AllAccepted, GraphItems, extractionVars
<1>7. StageFits(g)'
  <2>1. CASE phase = "graph_manifest"
    <3>1. files'[g] = {"fact_graph", "graph_manifest"} /\ phase' = "resolution_report"
      BY <1>2, <1>4, <1>5, <2>1 DEF StageFits
    <3> QED BY <3>1, <1>6 DEF StageFits
  <2>2. CASE phase = "resolution_report"
    <3>1. files'[g] = {"fact_graph", "graph_manifest", "resolution_report"} /\ phase' = "import"
      BY <1>2, <1>4, <1>5, <2>2 DEF StageFits
    <3> QED BY <3>1, <1>6 DEF StageFits
  <2> QED BY <2>1, <2>2, <1>2
<1>8. \A h \in Graphs : h # g => SameAt(h)
  BY <1>2, <1>5 DEF SameAt
<1>9. /\ embedded' \in SUBSET Graphs /\ neo4j' \in SUBSET Graphs
      /\ parity' \in [Graphs -> {"unknown", "passed", "failed"}]
  BY <1>2, <1>4 DEF RunnerTypes
<1> QED BY <1>1, <1>2, <1>3, <1>5, <1>7, <1>8, <1>9, StageStep

LEMMA ImportInv ==
  ASSUME RunnerInv, NEW status \in {"passed", "failed"}, Import(status)
  PROVE  RunnerTypes' /\ ExtractionFits' /\ PublicationFits'
<1>1. PICK g : g = Current OBVIOUS
<1>2. /\ phase = "import" /\ phase' = "neo4j_parity" /\ neo4j' = neo4j \cup {g}
      /\ parity' = [parity EXCEPT ![g] = status]
      /\ UNCHANGED <<schedulerVars, extractionVars, cursor, embedded, published, files,
                     reported, batchVars>>
  BY <1>1 DEF Import
<1>3. phase \in FinalizePhases /\ phase' \in FinalizePhases
  BY <1>2 DEF FinalizePhases
<1>4. g \in Graphs /\ StageFits(g) /\ RunnerTypes
  BY <1>1, <1>3, AtStage DEF RunnerInv
<1>5. StageFits(g)'
  BY <1>2, <1>4 DEF StageFits, AllAccepted, GraphItems, extractionVars
<1>6. \A h \in Graphs : h # g => SameAt(h)
  BY <1>2, <1>4 DEF SameAt, RunnerTypes
<1>7. /\ embedded' \in SUBSET Graphs /\ neo4j' \in SUBSET Graphs
      /\ files' \in [Graphs -> SUBSET Artifacts]
      /\ parity' \in [Graphs -> {"unknown", "passed", "failed"}]
  BY <1>2, <1>4 DEF RunnerTypes
<1> QED BY <1>1, <1>2, <1>3, <1>5, <1>6, <1>7, StageStep

LEMMA WriteParityInv ==
  ASSUME RunnerInv, WriteParity
  PROVE  RunnerTypes' /\ ExtractionFits' /\ PublicationFits'
<1>1. PICK g : g = Current OBVIOUS
<1>2. /\ phase = "neo4j_parity"
      /\ phase' = IF parity[g] = "passed" THEN "completion_status" ELSE "parity_failed"
      /\ files' = [files EXCEPT ![g] = files[g] \cup {"neo4j_parity"}]
      /\ UNCHANGED <<schedulerVars, extractionVars, cursor, embedded, published, neo4j,
                     parity, reported, batchVars>>
  BY <1>1 DEF WriteParity, AfterParity
<1>3. phase \in FinalizePhases /\ phase' \in FinalizePhases
  BY <1>2 DEF FinalizePhases
<1>4. g \in Graphs /\ StageFits(g) /\ RunnerTypes
  BY <1>1, <1>3, AtStage DEF RunnerInv
<1>5. /\ files'[g] = {"fact_graph", "graph_manifest", "resolution_report", "neo4j_parity"}
      /\ \A h \in Graphs : h # g => files'[h] = files[h]
      /\ files' \in [Graphs -> SUBSET Artifacts]
  BY <1>2, <1>4 DEF StageFits, RunnerTypes, Artifacts
<1>6. StageFits(g)'
  BY <1>2, <1>4, <1>5 DEF StageFits, AllAccepted, GraphItems, extractionVars
<1>7. \A h \in Graphs : h # g => SameAt(h)
  BY <1>2, <1>5 DEF SameAt
<1>8. /\ embedded' \in SUBSET Graphs /\ neo4j' \in SUBSET Graphs
      /\ parity' \in [Graphs -> {"unknown", "passed", "failed"}]
  BY <1>2, <1>4 DEF RunnerTypes
<1> QED BY <1>1, <1>2, <1>3, <1>5, <1>6, <1>7, <1>8, StageStep

LEMMA WriteCompletionInv ==
  ASSUME RunnerInv, WriteCompletion
  PROVE  RunnerTypes' /\ ExtractionFits' /\ PublicationFits'
<1>1. PICK g : g = Current OBVIOUS
<1>2. /\ phase = "completion_status" /\ phase' = "return"
      /\ files' = [files EXCEPT ![g] = files[g] \cup {"completion_status"}]
      /\ UNCHANGED <<schedulerVars, extractionVars, cursor, embedded, published, neo4j,
                     parity, reported, batchVars>>
  BY <1>1 DEF WriteCompletion
<1>3. phase \in FinalizePhases /\ phase' \in FinalizePhases
  BY <1>2 DEF FinalizePhases
<1>4. g \in Graphs /\ StageFits(g) /\ RunnerTypes
  BY <1>1, <1>3, AtStage DEF RunnerInv
<1>5. /\ files'[g] = Artifacts \ {"terminal_failure"}
      /\ \A h \in Graphs : h # g => files'[h] = files[h]
      /\ files' \in [Graphs -> SUBSET Artifacts]
  BY <1>2, <1>4 DEF StageFits, RunnerTypes, Artifacts
<1>6. StageFits(g)'
  BY <1>2, <1>4, <1>5 DEF StageFits, AllAccepted, GraphItems, extractionVars
<1>7. \A h \in Graphs : h # g => SameAt(h)
  BY <1>2, <1>5 DEF SameAt
<1>8. /\ embedded' \in SUBSET Graphs /\ neo4j' \in SUBSET Graphs
      /\ parity' \in [Graphs -> {"unknown", "passed", "failed"}]
  BY <1>2, <1>4 DEF RunnerTypes
<1> QED BY <1>1, <1>2, <1>3, <1>5, <1>6, <1>7, <1>8, StageStep

LEMMA RecordCompletedInv ==
  ASSUME RunnerInv, RecordCompleted
  PROVE  RunnerTypes' /\ ExtractionFits' /\ PublicationFits'
<1>1. PICK g : g = Current OBVIOUS
<1>2. /\ phase = "return" /\ phase' = "select" /\ cursor' = cursor + 1
      /\ reported' = [reported EXCEPT ![g] = reported[g] \cup {"completed"}]
      /\ UNCHANGED <<schedulerVars, extractionVars, embedded, published, files, neo4j, parity,
                     batchVars>>
  BY <1>1 DEF RecordCompleted
<1>3. phase \in FinalizePhases
  BY <1>2 DEF FinalizePhases
<1>4. /\ g \in Graphs /\ StageFits(g) /\ RunnerTypes /\ Finalizing
      /\ cursor <= Len(GraphOrder) /\ cursor + 1 \in 1 .. Len(GraphOrder) + 1
  BY <1>1, <1>3, AtStage, OrderFacts DEF RunnerInv
<1>5. /\ files'[g] = Artifacts \ {"terminal_failure"} /\ reported'[g] = {"completed"}
      /\ \A h \in Graphs : h # g => files'[h] = files[h] /\ reported'[h] = reported[h]
      /\ reported' \in [Graphs -> SUBSET Rows]
  BY <1>2, <1>4 DEF StageFits, RunnerTypes, Rows
<1>6. RunnerTypes'
  BY <1>2, <1>4, <1>5 DEF RunnerTypes, Phases, schedulerVars, extractionVars, batchVars
<1>7. GraphFits(g)'
  <2>1. /\ AllAccepted(g)' /\ g \in embedded' /\ g \in neo4j' /\ parity'[g] = "passed"
    BY <1>2, <1>4 DEF StageFits, AllAccepted, GraphItems, extractionVars
  <2>2. "completion_status" \in files'[g] /\ "terminal_failure" \notin files'[g]
    BY <1>5 DEF Artifacts
  <2> QED BY <2>1, <2>2, <1>5 DEF GraphFits, FailedRow
<1>8. \A h \in Graphs : h # g => SameAt(h)
  BY <1>2, <1>5 DEF SameAt
<1>9. continueOthers' = continueOthers /\ reported'[g] # {}
  BY <1>2, <1>5 DEF batchVars
<1> QED BY <1>1, <1>2, <1>4, <1>6, <1>7, <1>8, <1>9, StepAtCursor

\* A raise leaves a failed row, and an interrupted one only beside the
\* completion file.
LEMMA RaiseFits ==
  ASSUME RunnerInv, FinalizeRaises, NEW g, g = Current
  PROVE  /\ reported' \in [Graphs -> SUBSET Rows]
         /\ \A h \in Graphs : h # g => reported'[h] = reported[h]
         /\ reported'[g] \cap {"failed", "interrupted"} # {}
         /\ "completion_status" \in files[g] => "failed" \notin reported'[g]
         /\ "completed" \in reported'[g] => "completion_status" \in files[g]
<1>1. phase \in FinalizePhases
  BY DEF FinalizeRaises
<1>2. g \in Graphs /\ StageFits(g) /\ RunnerTypes
  BY <1>1, AtStage DEF RunnerInv
<1>3. PICK rows \in RowsAfterRaise(reported[g]) : reported' = [reported EXCEPT ![g] = rows]
  BY DEF FinalizeRaises
<1>4. reported[g] = {} /\ reported'[g] = rows
      /\ \A h \in Graphs : h # g => reported'[h] = reported[h]
  BY <1>2, <1>3 DEF StageFits, RunnerTypes
<1>5. CASE phase = "return"
  <2>1. rows \in {{"interrupted"}, {"completed", "interrupted"}}
    BY <1>3, <1>4, <1>5 DEF RowsAfterRaise
  <2>2. "completion_status" \in files[g]
    BY <1>2, <1>5 DEF StageFits, Artifacts
  <2>3. rows \in SUBSET Rows
    BY <2>1 DEF Rows
  <2>4. reported' \in [Graphs -> SUBSET Rows]
    BY <2>3, <1>2, <1>3 DEF RunnerTypes
  <2> QED BY <2>1, <2>2, <2>4, <1>4
<1>6. CASE phase # "return"
  <2>1. rows = {"failed"}
    BY <1>3, <1>4, <1>6 DEF RowsAfterRaise
  <2>2. "completion_status" \notin files[g]
    BY <1>1, <1>2, <1>6 DEF StageFits, FinalizePhases
  <2>3. rows \in SUBSET Rows
    BY <2>1 DEF Rows
  <2>4. reported' \in [Graphs -> SUBSET Rows]
    BY <2>3, <1>2, <1>3 DEF RunnerTypes
  <2> QED BY <2>1, <2>2, <2>4, <1>4
<1> QED BY <1>5, <1>6

LEMMA FinalizeRaisesInv ==
  ASSUME RunnerInv, FinalizeRaises
  PROVE  RunnerTypes' /\ ExtractionFits' /\ PublicationFits'
<1>1. PICK g : g = Current OBVIOUS
<1>2. /\ phase \in FinalizePhases
      /\ embedded' \in {embedded, embedded \cup {g}}
      /\ neo4j' \in {neo4j, neo4j \cup {g}}
      /\ files' = [files EXCEPT ![g] = files[g] \cup {"terminal_failure"}]
      /\ UNCHANGED <<schedulerVars, extractionVars, published, parity, batchVars>>
  BY <1>1 DEF FinalizeRaises
<1>3. \/ continueOthers /\ cursor' = cursor + 1 /\ phase' = "select"
      \/ ~continueOthers /\ phase' = "report" /\ cursor' = cursor
  BY DEF FinalizeRaises, AfterRaise
<1>4. /\ g \in Graphs /\ StageFits(g) /\ GraphFits(g) /\ RunnerTypes /\ Finalizing
      /\ cursor <= Len(GraphOrder) /\ cursor + 1 \in 1 .. Len(GraphOrder) + 1
  BY <1>1, <1>2, AtStage, OrderFacts DEF RunnerInv
<1>5. /\ files'[g] = files[g] \cup {"terminal_failure"}
      /\ \A h \in Graphs : h # g => files'[h] = files[h]
      /\ files' \in [Graphs -> SUBSET Artifacts]
      /\ embedded' \subseteq Graphs /\ neo4j' \subseteq Graphs
      /\ embedded \subseteq embedded' /\ neo4j \subseteq neo4j'
  BY <1>2, <1>4 DEF RunnerTypes, Artifacts
<1>6. /\ reported' \in [Graphs -> SUBSET Rows]
      /\ \A h \in Graphs : h # g => reported'[h] = reported[h]
      /\ reported'[g] \cap {"failed", "interrupted"} # {}
      /\ "completion_status" \in files[g] => "failed" \notin reported'[g]
      /\ "completed" \in reported'[g] => "completion_status" \in files[g]
  BY <1>1, RaiseFits
<1>7. RunnerTypes'
  BY <1>2, <1>3, <1>4, <1>5, <1>6
     DEF RunnerTypes, Phases, schedulerVars, extractionVars, batchVars
<1>8. AllAccepted(g) /\ AllAccepted(g)'
  BY <1>2, <1>4 DEF StageFits, AllAccepted, GraphItems, extractionVars
<1>9. GraphFits(g)'
  <2>1. "completion_status" \in files'[g] <=> "completion_status" \in files[g]
    BY <1>5
  <2>2. "completion_status" \in files[g] =>
          /\ Artifacts \ {"terminal_failure"} \subseteq files'[g]
          /\ g \in embedded' /\ g \in neo4j' /\ parity'[g] = "passed"
    BY <1>2, <1>4, <1>5 DEF GraphFits
  <2>3. "terminal_failure" \in files'[g]
    BY <1>5
  <2> QED BY <2>1, <2>2, <2>3, <1>6, <1>8 DEF GraphFits, FailedRow
<1>10. \A h \in Graphs : h # g => SameAt(h)
  BY <1>2, <1>5, <1>6 DEF SameAt
<1>11. continueOthers' = continueOthers /\ reported'[g] # {}
  BY <1>2, <1>6 DEF batchVars
<1>12. ~continueOthers => CutShort(g)'
  BY <1>6, <1>8, <1>11 DEF CutShort, FailedRow
<1> QED BY <1>1, <1>2, <1>3, <1>4, <1>7, <1>9, <1>10, <1>11, <1>12, StepAtCursor

\* The reports change nothing the invariant speaks of.
LEMMA ReportStep ==
  ASSUME RunnerInv, UNCHANGED <<schedulerVars, extractionVars, cursor, publicationVars, continueOthers>>,
         \/ phase = "select" /\ cursor > Len(GraphOrder) /\ phase' = "report"
         \/ phase \in ReportPhases /\ phase' \in ReportPhases
  PROVE  RunnerTypes' /\ ExtractionFits' /\ PublicationFits'
<1>1. RunnerTypes /\ PublicationFits
  BY DEF RunnerInv
<1>2. /\ Finalizing /\ Finalizing' /\ ~Extracting'
      /\ phase \notin FinalizePhases /\ phase' \notin FinalizePhases
      /\ phase' \in Phases /\ phase' # "select" /\ phase' \notin ExtractionPhases \cup {"crashed"}
  BY DEF Finalizing, Extracting, ExtractionPhases, FinalizePhases, Phases, ReportPhases
<1>3. UNCHANGED <<embedded, files, neo4j, parity, reported, results, failures, stopNew,
                  outcome, done, handling, active>>
  BY DEF publicationVars, extractionVars, schedulerVars
<1>4. RunnerTypes'
  BY <1>1, <1>2, <1>3 DEF RunnerTypes
<1>5. ExtractionFits'
  BY <1>2, ExtractionOver
<1>6. \A h \in Graphs : GraphFits(h)'
  BY <1>1, <1>3 DEF PublicationFits, GraphFits, FailedRow, AllAccepted, GraphItems
<1>7. ASSUME NEW i \in 1 .. Len(GraphOrder)
      PROVE  /\ i > cursor' => Untouched(GraphOrder[i])'
             /\ i < cursor' => reported'[GraphOrder[i]] # {}
             /\ i = cursor' => CutShort(GraphOrder[i])'
  <2>1. /\ i > cursor => Untouched(GraphOrder[i])
        /\ i < cursor => reported[GraphOrder[i]] # {}
    BY <1>1, <1>2 DEF PublicationFits
  <2>2. i = cursor => phase \in ReportPhases
    BY <1>1, OrderFacts DEF RunnerTypes
  <2>3. i = cursor => CutShort(GraphOrder[i])
    BY <2>2, <1>1 DEF PublicationFits
  <2> QED BY <2>1, <2>3, <1>3 DEF Untouched, CutShort, FailedRow, AllAccepted, GraphItems
<1>8. PublicationFits'
  BY <1>2, <1>6, <1>7 DEF PublicationFits
<1> QED BY <1>4, <1>5, <1>8

LEMMA RunnerStutterInv ==
  ASSUME RunnerInv, UNCHANGED vars
  PROVE  RunnerTypes' /\ ExtractionFits' /\ PublicationFits'
<1> USE DEF vars, schedulerVars, extractionVars, publicationVars, batchVars
<1>1. RunnerTypes /\ FuturesFit /\ SpansFit /\ CountFits /\ StopFits /\ PublicationFits
  BY DEF RunnerInv, ExtractionFits
<1>2. RunnerTypes' /\ FuturesFit'
  BY <1>1 DEF RunnerTypes, FuturesFit, Finalizing
<1>3. SpansFit'
  BY <1>1 DEF SpansFit, ResultFits, FailureFits, Located, Queued, Home
<1>4. CountFits' /\ StopFits'
  BY <1>1 DEF CountFits, StopFits, Started, Finalizing, Pending
<1>5. \A h \in Graphs : GraphFits(h)'
  BY <1>1 DEF PublicationFits, GraphFits, FailedRow, AllAccepted, GraphItems
<1>6. ASSUME NEW h \in Graphs
      PROVE  /\ Untouched(h) => Untouched(h)'
             /\ StageFits(h) => StageFits(h)'
             /\ CutShort(h) => CutShort(h)'
             /\ reported'[h] = reported[h]
  <2>1. AllAccepted(h)' <=> AllAccepted(h)
    BY DEF AllAccepted, GraphItems
  <2>2. Untouched(h) => Untouched(h)'
    BY DEF Untouched
  <2>3. StageFits(h) => StageFits(h)'
    BY <2>1 DEF StageFits
  <2>4. CutShort(h) => CutShort(h)'
    BY <2>1 DEF CutShort, FailedRow
  <2> QED BY <2>2, <2>3, <2>4
<1>7. phase' = phase /\ cursor' = cursor
  OBVIOUS
<1> HIDE DEF vars, schedulerVars, extractionVars, publicationVars, batchVars
<1>8. ASSUME NEW i \in 1 .. Len(GraphOrder)
      PROVE  /\ i > cursor' => Untouched(GraphOrder[i])'
             /\ Finalizing' /\ i < cursor' => reported'[GraphOrder[i]] # {}
             /\ phase' = "select" /\ i = cursor' => Untouched(GraphOrder[i])'
             /\ phase' \in FinalizePhases /\ i = cursor' => StageFits(GraphOrder[i])'
             /\ phase' \in ReportPhases /\ i = cursor' => CutShort(GraphOrder[i])'
  <2>1. GraphOrder[i] \in Graphs
    BY OrderFacts
  <2>2. /\ i > cursor => Untouched(GraphOrder[i])
        /\ Finalizing /\ i < cursor => reported[GraphOrder[i]] # {}
        /\ phase = "select" /\ i = cursor => Untouched(GraphOrder[i])
        /\ phase \in FinalizePhases /\ i = cursor => StageFits(GraphOrder[i])
        /\ phase \in ReportPhases /\ i = cursor => CutShort(GraphOrder[i])
    BY <1>1 DEF PublicationFits
  <2>3. Finalizing' <=> Finalizing
    BY <1>7 DEF Finalizing
  <2>4. /\ Untouched(GraphOrder[i]) => Untouched(GraphOrder[i])'
        /\ StageFits(GraphOrder[i]) => StageFits(GraphOrder[i])'
        /\ CutShort(GraphOrder[i]) => CutShort(GraphOrder[i])'
        /\ reported'[GraphOrder[i]] = reported[GraphOrder[i]]
    BY <2>1, <1>6
  <2> QED BY <2>2, <2>3, <2>4, <1>7
<1>9. PublicationFits'
  <2>1. Extracting' => \A h \in Graphs : Untouched(h)'
    BY <1>1, <1>6, <1>7 DEF PublicationFits, Extracting
  <2>2. /\ Extracting' => cursor' = 1
        /\ phase' \in FinalizePhases => cursor' <= Len(GraphOrder)
    BY <1>1, <1>7 DEF PublicationFits, Extracting
  <2> QED BY <2>1, <2>2, <1>5, <1>8 DEF PublicationFits
<1> QED BY <1>2, <1>3, <1>4, <1>9 DEF ExtractionFits

LEMMA RunnerStepInv == RunnerInv /\ [Next]_vars => RunnerInv'
<1> SUFFICES ASSUME RunnerInv, [Next]_vars PROVE RunnerInv'
  OBVIOUS
<1>1. SchedulerInv'
  BY RunnerStepIsSchedulerStep, SchedulerStepInv DEF RunnerInv
<1>2. ASSUME phase \in ExtractionPhases, UNCHANGED <<cursor, publicationVars>>,
             phase' \in ExtractionPhases \cup {"select"}
      PROVE  PublicationFits'
  BY <1>2, ExtractingKeepsPublication DEF Extracting
<1>3. ASSUME NEW item \in Items, Submit(item) PROVE RunnerInv'
  <2>1. phase' = "admit" /\ phase = "admit" /\ UNCHANGED <<cursor, publicationVars>>
    BY <1>3 DEF Submit
  <2> QED BY <2>1, <1>1, <1>2, <1>3, SubmitFits DEF RunnerInv, ExtractionPhases
<1>4. ASSUME NEW item \in Items, PopDone(item) \/ RecordAccepted(item) \/ RecordFailure(item)
      PROVE  RunnerInv'
  <2>1. phase' = "drain" /\ phase = "drain" /\ UNCHANGED <<cursor, publicationVars>>
    BY <1>4 DEF PopDone, RecordAccepted, RecordFailure
  <2>2. RunnerTypes' /\ ExtractionFits'
    BY <1>4, PopDoneFits, RecordAcceptedFits, RecordFailureFits
  <2> QED BY <2>1, <2>2, <1>1, <1>2 DEF RunnerInv, ExtractionPhases
<1>5. ASSUME NEW item \in Items, NEW result \in {"accepted", "raised"}, EndRequest(item, result)
      PROVE  RunnerInv'
  <2>1. phase' = phase /\ UNCHANGED <<cursor, publicationVars>> /\ item \in active /\ phase # "crashed"
    BY <1>5 DEF EndRequest
  <2>2. phase \in ExtractionPhases
    BY <2>1 DEF RunnerInv, ExtractionFits, FuturesFit, Finalizing
  <2> QED BY <2>1, <2>2, <1>1, <1>2, <1>5, EndRequestFits DEF RunnerInv
<1>6. CASE StopSubmitting
  <2>1. phase = "admit" /\ phase' \in {"select", "wait"} /\ UNCHANGED <<cursor, publicationVars>>
    BY <1>6 DEF StopSubmitting, AfterSubmitting
  <2> QED BY <2>1, <1>1, <1>2, <1>6, StopSubmittingFits DEF RunnerInv, ExtractionPhases
<1>7. CASE WaitFirstCompleted
  <2>1. phase = "wait" /\ phase' = "drain" /\ UNCHANGED <<cursor, publicationVars>>
    BY <1>7 DEF WaitFirstCompleted
  <2> QED BY <2>1, <1>1, <1>2, <1>7, WaitFits DEF RunnerInv, ExtractionPhases
<1>8. CASE LoopAgain
  <2>1. phase = "drain" /\ phase' \in {"admit", "select"} /\ UNCHANGED <<cursor, publicationVars>>
    BY <1>8 DEF LoopAgain
  <2> QED BY <2>1, <1>1, <1>2, <1>8, LoopAgainFits DEF RunnerInv, ExtractionPhases
<1>9. CASE ReportIncomplete \/ BeginFinalize \/ Embed \/ PersistFactGraph \/ WriteDescription
  BY <1>1, <1>9, ReportIncompleteInv, BeginFinalizeInv, EmbedInv, PersistFactGraphInv,
     WriteDescriptionInv DEF RunnerInv
<1>10. ASSUME NEW status \in {"passed", "failed"}, Import(status) PROVE RunnerInv'
  BY <1>1, <1>10, ImportInv DEF RunnerInv
<1>11. CASE WriteParity \/ WriteCompletion \/ RecordCompleted \/ FinalizeRaises
  BY <1>1, <1>11, WriteParityInv, WriteCompletionInv, RecordCompletedInv, FinalizeRaisesInv
     DEF RunnerInv
<1>12. CASE \/ AllGraphsVisited \/ WriteExtractionStatus \/ WriteBatchReport
            \/ WriteBatchCompletion
  <2>1. /\ UNCHANGED <<schedulerVars, extractionVars, cursor, publicationVars, continueOthers>>
        /\ \/ phase = "select" /\ cursor > Len(GraphOrder) /\ phase' = "report"
           \/ phase \in ReportPhases /\ phase' \in ReportPhases
    BY <1>12 DEF AllGraphsVisited, WriteExtractionStatus, WriteBatchReport,
                 WriteBatchCompletion, batchVars, ReportPhases
  <2> QED BY <2>1, <1>1, ReportStep DEF RunnerInv
<1>13. CASE Crash
  BY <1>1, <1>13, CrashFits, CrashKeepsPublication DEF RunnerInv
<1>14. CASE Stopped \/ UNCHANGED vars
  <2>1. UNCHANGED vars
    BY <1>14 DEF Stopped
  <2>2. RunnerTypes' /\ ExtractionFits' /\ PublicationFits'
    BY <2>1, RunnerStutterInv
  <2> QED BY <2>2, <1>1 DEF RunnerInv
<1> QED
  BY <1>3, <1>4, <1>5, <1>6, <1>7, <1>8, <1>9, <1>10, <1>11, <1>12, <1>13, <1>14
     DEF Next, MainStep, WorkerStep

\* The inductive invariant holds throughout every batch.
THEOREM RunnerInvariant == Spec => []RunnerInv
BY RunnerInitInv, RunnerStepInv, PTL DEF Spec
-----------------------------------------------------------------------------
(* What follows from the invariant.                                        *)

\* Where a span is recorded can be read off the lists of its own graph.
LEMMA RecordedMeans ==
  ASSUME RunnerInv
  PROVE  /\ AcceptedItems \subseteq Items /\ FailedItems \subseteq Items
         /\ \A item \in Items :
              /\ item \in AcceptedItems <=> item \in ToSet(results[Home(item)])
              /\ item \in FailedItems <=> item \in ToSet(failures[Home(item)])
              /\ item \in AcceptedItems =>
                   outcome[item] = "accepted" /\ item \notin active \cup handling
              /\ item \in FailedItems =>
                   /\ outcome[item] \in {"accepted", "raised"}
                   /\ item \notin active \cup handling
                   /\ item \notin AcceptedItems
<1>1. RunnerTypes /\ SpansFit
  BY DEF RunnerInv, ExtractionFits
<1>2. \A g \in Graphs : ToSet(results[g]) \subseteq Items /\ ToSet(failures[g]) \subseteq Items
  BY <1>1, ListFacts DEF RunnerTypes
<1>3. ASSUME NEW item \in Items
      PROVE  /\ item \in AcceptedItems <=> item \in ToSet(results[Home(item)])
             /\ item \in FailedItems <=> item \in ToSet(failures[Home(item)])
  BY <1>1, HomeType DEF AcceptedItems, FailedItems, SpansFit, ResultFits, FailureFits
<1>4. \A item \in Items :
        /\ item \in ToSet(results[Home(item)]) => ResultFits(Home(item), item)
        /\ item \in ToSet(failures[Home(item)]) => FailureFits(Home(item), item)
  BY <1>1, HomeType DEF SpansFit
<1>5. AcceptedItems \subseteq Items /\ FailedItems \subseteq Items
  BY <1>2 DEF AcceptedItems, FailedItems
<1> QED BY <1>3, <1>4, <1>5 DEF ResultFits, FailureFits

\* Every span is in one place, and in none only when it was discarded.
LEMMA InvNoSpanLost == RunnerInv => NoSpanLost
<1> SUFFICES ASSUME RunnerInv, NEW item \in Items
             PROVE  \/ Cardinality(Places(item)) = 1
                    \/ Places(item) = {} /\ failures[Home(item)] # <<>>
  BY DEF NoSpanLost, Home
<1> DEFINE inQueue == item \in ToSet(queues[item.document])
<1>1. SpansFit /\ FuturesFit /\ SchedulerInv
  BY DEF RunnerInv, ExtractionFits
<1>2. inQueue <=> Queued(item)
  BY <1>1, QueuedMeans
<1>3. /\ inQueue => item \notin active /\ item \notin handling
                    /\ item \notin AcceptedItems /\ item \notin FailedItems
      /\ item \in active => item \notin handling
      /\ item \in active \/ item \in handling =>
           item \notin AcceptedItems /\ item \notin FailedItems
      /\ item \in AcceptedItems => item \notin FailedItems
  BY <1>1, <1>2, RecordedMeans DEF SpansFit, FuturesFit
<1>4. \/ inQueue \/ item \in active \/ item \in handling
      \/ item \in AcceptedItems \/ item \in FailedItems
      \/ failures[Home(item)] # <<>>
  BY <1>1, <1>2, RecordedMeans DEF SpansFit, Located
<1>5. \A p : p \in Places(item) <=>
        \/ p = "queued" /\ inQueue
        \/ p = "active" /\ item \in active
        \/ p = "handling" /\ item \in handling
        \/ p = "accepted" /\ item \in AcceptedItems
        \/ p = "failed" /\ item \in FailedItems
  BY DEF Places
<1> HIDE DEF inQueue
<1>6. (\E p : Places(item) = {p}) \/ Places(item) = {}
  <2>1. CASE inQueue
    <3>1. Places(item) = {"queued"} BY <2>1, <1>3, <1>5
    <3> QED BY <3>1
  <2>2. CASE item \in active
    <3>1. Places(item) = {"active"} BY <2>2, <1>3, <1>5
    <3> QED BY <3>1
  <2>3. CASE item \in handling
    <3>1. Places(item) = {"handling"} BY <2>3, <1>3, <1>5
    <3> QED BY <3>1
  <2>4. CASE item \in AcceptedItems
    <3>1. Places(item) = {"accepted"} BY <2>4, <1>3, <1>5
    <3> QED BY <3>1
  <2>5. CASE item \in FailedItems
    <3>1. Places(item) = {"failed"} BY <2>5, <1>3, <1>5
    <3> QED BY <3>1
  <2> QED BY <2>1, <2>2, <2>3, <2>4, <2>5, <1>5
<1>7. CASE Places(item) = {}
  <2>1. failures[Home(item)] # <<>>
    BY <1>4, <1>5, <1>7
  <2> QED BY <2>1, <1>7
<1>8. CASE \E p : Places(item) = {p}
  BY <1>8, FS_Singleton
<1> QED BY <1>6, <1>7, <1>8

\* The requests submitted are the spans recorded, once extraction is over.
LEMMA InvAllRecorded == RunnerInv => AllRequestsRecorded
<1> SUFFICES ASSUME RunnerInv, Finalizing
             PROVE  /\ active = {} /\ handling = {}
                    /\ scheduledCount = Cardinality(AcceptedItems) + Cardinality(FailedItems)
  BY DEF AllRequestsRecorded, Finalizing
<1>1. SpansFit /\ FuturesFit /\ CountFits
  BY DEF RunnerInv, ExtractionFits
<1>2. active = {} /\ handling = {}
  BY <1>1 DEF FuturesFit, Finalizing, ExtractionPhases
<1>3. Started = AcceptedItems \cup FailedItems /\ AcceptedItems \cap FailedItems = {}
  BY <1>1, <1>2, RecordedMeans DEF Started, SpansFit, Located
<1>4. IsFiniteSet(AcceptedItems) /\ IsFiniteSet(FailedItems)
  BY RecordedMeans, SpansFinite, FS_Subset
<1>5. Cardinality(Started) = Cardinality(AcceptedItems) + Cardinality(FailedItems)
  <2>1. Cardinality(AcceptedItems \cup FailedItems) =
          Cardinality(AcceptedItems) + Cardinality(FailedItems)
          - Cardinality(AcceptedItems \cap FailedItems)
    BY <1>4, FS_Union
  <2>2. Cardinality(AcceptedItems \cap FailedItems) = 0
    BY <1>3, FS_EmptySet
  <2>3. Cardinality(AcceptedItems) \in Nat /\ Cardinality(FailedItems) \in Nat
    BY <1>4, FS_CardinalityType
  <2> QED BY <2>1, <2>2, <2>3, <1>3
<1> QED BY <1>1, <1>2, <1>5 DEF CountFits

LEMMA InvFailuresLocal == RunnerInv => FailuresStayLocal
<1> SUFFICES ASSUME RunnerInv, continueOthers, NEW g \in Graphs,
                    reported[g] \cap {"failed", "interrupted"} # {}
             PROVE  failures[g] # <<>> \/ ToSet(results[g]) = GraphItems(g)
  BY DEF FailuresStayLocal
<1>1. ~stopNew
  BY DEF RunnerInv, ExtractionFits, StopFits
<1> QED BY <1>1 DEF RunnerInv, PublicationFits, GraphFits, FailedRow, AllAccepted

\* Nothing falls between the lists, for every plan, policy and interleaving:
\* every span is in one place, every request ends in one list, and the failure
\* of one group starves no other (batch_runner.py:230-288).
THEOREM SpansAlwaysAccounted == Spec => []SpansAccounted
<1>1. RunnerInv => SpansAccounted
  BY InvNoSpanLost, InvAllRecorded, InvFailuresLocal DEF SpansAccounted
<1> QED BY <1>1, RunnerInvariant, PTL

\* Whatever stands in a group's directory was earned: nothing is embedded,
\* written or projected before every span of the group was accepted, and a
\* completion file vouches for all the rest (batch_runner.py:92-173, 253-279).
THEOREM PublicationAlwaysEarned == Spec => []PublicationEarned
<1>1. RunnerInv => BarrierHolds
  BY DEF RunnerInv, PublicationFits, GraphFits, AllAccepted, BarrierHolds
<1>2. RunnerInv => CompletionVouches
  BY DEF RunnerInv, PublicationFits, GraphFits, CompletionVouches
<1>3. RunnerInv => PublicationEarned
  BY <1>1, <1>2 DEF PublicationEarned
<1> QED BY <1>3, RunnerInvariant, PTL

\* No graph holds two verdicts but one that an interrupt reached after its
\* completion file; and a finished batch leaves a verdict for each, except for
\* the graphs after the one whose finalization ended the loop.
THEOREM VerdictsUnique == Spec => []OneVerdict
<1>1. ASSUME RunnerInv, NEW i \in 1 .. Len(GraphOrder)
      PROVE  /\ \/ Cardinality(Verdicts(GraphOrder[i])) <= 1
                \/ "interrupted" \in reported[GraphOrder[i]]
             /\ phase = "finished" /\ Verdicts(GraphOrder[i]) = {} =>
                  /\ ~continueOthers
                  /\ \E j \in 1 .. (i - 1) :
                       /\ reported[GraphOrder[j]] \cap {"failed", "interrupted"} # {}
                       /\ ToSet(results[GraphOrder[j]]) = GraphItems(GraphOrder[j])
  <2> DEFINE g == GraphOrder[i]
  <2>1. g \in Graphs
    BY OrderFacts
  <2> HIDE DEF g
  <2>2. GraphFits(g) /\ RunnerTypes
    BY <1>1, <2>1 DEF RunnerInv, PublicationFits
  <2>3. "completion_status" \in files[g] /\ "terminal_failure" \in files[g] =>
          "interrupted" \in reported[g]
    BY <2>2 DEF GraphFits, FailedRow
  <2>4. Cardinality(Verdicts(g)) <= 1 \/ "interrupted" \in reported[g]
    <3> SUFFICES ASSUME "interrupted" \notin reported[g] PROVE Cardinality(Verdicts(g)) <= 1
      OBVIOUS
    <3>1. Verdicts(g) = {} \/ \E v : Verdicts(g) = {v}
      BY <2>3 DEF Verdicts
    <3>2. Cardinality(Verdicts(g)) = 0 \/ Cardinality(Verdicts(g)) = 1
      BY <3>1, FS_EmptySet, FS_Singleton
    <3> QED BY <3>2
  <2>5. ASSUME phase = "finished", Verdicts(g) = {}
        PROVE  /\ ~continueOthers
               /\ \E j \in 1 .. (i - 1) :
                    /\ reported[GraphOrder[j]] \cap {"failed", "interrupted"} # {}
                    /\ ToSet(results[GraphOrder[j]]) = GraphItems(GraphOrder[j])
    <3>1. reported[g] = {}
      <4>1. "completed" \notin reported[g] /\ ~FailedRow(g)
        BY <2>2, <2>5 DEF GraphFits, Verdicts
      <4>2. reported[g] \subseteq Rows
        BY <2>1, <2>2 DEF RunnerTypes
      <4> QED BY <4>1, <4>2 DEF FailedRow, Rows
    <3>2. Finalizing
      BY <2>5 DEF Finalizing, ExtractionPhases
    <3>3. /\ i < cursor => reported[GraphOrder[i]] # {}
          /\ \A j \in 1 .. Len(GraphOrder) : j = cursor => CutShort(GraphOrder[j])
      BY <1>1, <2>5, <3>2 DEF RunnerInv, PublicationFits, ReportPhases
    <3>4. cursor \in 1 .. Len(GraphOrder) + 1 /\ Len(GraphOrder) \in Nat
      BY <2>2, OrderFacts DEF RunnerTypes
    <3>5. ~(i < cursor) /\ cursor \in 1 .. Len(GraphOrder)
      BY <3>1, <3>3, <3>4 DEF g
    <3>6. CutShort(GraphOrder[cursor])
      BY <3>3, <3>5
    <3>7. i # cursor
      BY <3>1, <3>6 DEF CutShort, FailedRow, g
    <3>8. cursor \in 1 .. (i - 1)
      BY <3>4, <3>5, <3>7
    <3> QED BY <3>6, <3>8 DEF CutShort, FailedRow, AllAccepted
  <2> QED BY <2>4, <2>5 DEF g
<1>2. DOMAIN GraphOrder = 1 .. Len(GraphOrder)
  BY GraphOrderAssumption, LenProperties
<1>3. RunnerInv => OneVerdict
  BY <1>1, <1>2 DEF OneVerdict
<1> QED BY <1>3, RunnerInvariant, PTL

\* Only acquire() puts a span in flight.
LEMMA OnlySubmitAdmits ==
  ASSUME Next, NEW item \in active' \ active
  PROVE  item \in Items /\ Submit(item)
<1>1. ASSUME NEW other \in Items, Submit(other) PROVE item = other
  BY <1>1 DEF Submit, Acquire
<1>2. ASSUME NEW other \in Items,
             PopDone(other) \/ RecordAccepted(other) \/ RecordFailure(other) \/ WorkerStep(other)
      PROVE  FALSE
  BY <1>2 DEF PopDone, ReleaseSlot, Complete, RecordAccepted, RecordFailure, DiscardFor,
              DiscardGraph, WorkerStep, EndRequest, schedulerVars
<1>3. CASE StopSubmitting \/ WaitFirstCompleted \/ LoopAgain
  BY <1>3 DEF StopSubmitting, WaitFirstCompleted, LoopAgain, schedulerVars
<1>4. CASE ReportIncomplete \/ BeginFinalize \/ Embed \/ PersistFactGraph \/ WriteDescription
  BY <1>4 DEF ReportIncomplete, BeginFinalize, Embed, PersistFactGraph, WriteDescription,
              schedulerVars
<1>5. CASE \/ \E status \in {"passed", "failed"} : Import(status)
           \/ WriteParity \/ WriteCompletion \/ RecordCompleted \/ FinalizeRaises
           \/ AllGraphsVisited
  BY <1>5 DEF Import, WriteParity, WriteCompletion, RecordCompleted, FinalizeRaises,
              AllGraphsVisited, schedulerVars
<1>6. CASE \/ WriteExtractionStatus \/ WriteBatchReport \/ WriteBatchCompletion
           \/ Crash \/ Stopped
  BY <1>6 DEF WriteExtractionStatus, WriteBatchReport, WriteBatchCompletion, Crash, Stopped,
              vars, schedulerVars
<1> QED BY <1>1, <1>2, <1>3, <1>4, <1>5, <1>6 DEF Next, MainStep

\* Once a failure of a graph has been handled no span of it is admitted any
\* more, and without continue_other_graphs_on_failure none of any graph.
THEOREM NothingAdmittedLate == Spec => NothingAdmittedAfterFailure
<1> DEFINE Late == \A item \in active' \ active :
                     /\ failures[GraphOf[item.document]] = <<>>
                     /\ continueOthers \/ FailedItems = {}
<1>1. RunnerInv /\ Next => Late
  <2> SUFFICES ASSUME RunnerInv, Next, NEW item \in active' \ active
               PROVE  /\ failures[GraphOf[item.document]] = <<>>
                      /\ continueOthers \/ FailedItems = {}
    OBVIOUS
  <2>1. item \in Items /\ Submit(item)
    BY OnlySubmitAdmits
  <2>2. Queued(item) /\ ~stopNew
    BY <2>1, AdmittedSpan DEF Submit, RunnerInv
  <2>3. failures[Home(item)] = <<>>
    BY <2>1, <2>2 DEF RunnerInv, ExtractionFits, SpansFit
  <2>4. continueOthers \/ \A g \in Graphs : failures[g] = <<>>
    BY <2>2 DEF RunnerInv, ExtractionFits, StopFits
  <2>5. continueOthers \/ FailedItems = {}
    BY <2>4 DEF FailedItems, ToSet
  <2> QED BY <2>3, <2>5 DEF Home
<1>2. RunnerInv /\ [Next]_vars => [Late]_vars
  BY <1>1
<1> QED BY <1>2, RunnerInvariant, PTL DEF Spec, NothingAdmittedAfterFailure
-----------------------------------------------------------------------------
(* The runner implements BatchOutcome.                                     *)

\* The verdict of a graph, as the refinement reads it off the directory.
Verdict ==
  [g \in Graphs |->
     IF "completion_status" \in files[g] THEN "completed"
     ELSE IF "terminal_failure" \in files[g] THEN "failed" ELSE "open"]

\* A step that touches no list of spans and no verdict file is a stutter.
LEMMA OutcomeStutter ==
  ASSUME UNCHANGED <<continueOthers, results, failures>>,
         \A g \in Graphs : \A v \in {"completion_status", "terminal_failure"} :
           v \in files'[g] <=> v \in files[g]
  PROVE  UNCHANGED Outcome!outcomeVars
<1>1. UNCHANGED <<AcceptedItems, FailedItems>>
  BY DEF AcceptedItems, FailedItems
<1>2. Verdict' = Verdict
  BY DEF Verdict
<1> QED BY <1>1, <1>2 DEF Outcome!outcomeVars, Verdict

LEMMA OutcomeAccept ==
  ASSUME RunnerInv, NEW item \in Items, RecordAccepted(item)
  PROVE  Outcome!Accept(item)
<1> DEFINE g == Home(item)
<1>1. RunnerTypes /\ FuturesFit /\ g \in Graphs
  BY HomeType DEF RunnerInv, ExtractionFits
<1>2. /\ phase = "drain" /\ item \in handling
      /\ results' = [results EXCEPT ![g] = Append(results[g], item)]
      /\ UNCHANGED <<failures, files, continueOthers>>
  BY DEF RecordAccepted, Home, publicationVars, batchVars
<1> HIDE DEF g
<1>3. ToSet(results'[g]) = ToSet(results[g]) \cup {item}
      /\ \A h \in Graphs : h # g => results'[h] = results[h]
  <2>1. results[g] \in Seq(Items) /\ results'[g] = Append(results[g], item)
    BY <1>1, <1>2 DEF RunnerTypes
  <2> QED BY <2>1, <1>1, <1>2, ListFacts DEF RunnerTypes
<1>4. AcceptedItems' = AcceptedItems \cup {item}
  BY <1>1, <1>3 DEF AcceptedItems
<1>5. \A h \in Graphs : files[h] = {}
  BY <1>2 DEF RunnerInv, PublicationFits, Untouched, Extracting, ExtractionPhases
<1>6. item \notin AcceptedItems \cup FailedItems
  BY <1>2, RecordedMeans
<1>7. UNCHANGED <<continueOthers, FailedItems, Verdict>>
  BY <1>2 DEF FailedItems, Verdict
<1> QED
  BY <1>4, <1>5, <1>6, <1>7
     DEF Outcome!Accept, Outcome!Extracting, Outcome!Undecided, Verdict

LEMMA OutcomeReject ==
  ASSUME RunnerInv, NEW item \in Items, RecordFailure(item)
  PROVE  Outcome!Reject(item)
<1> DEFINE g == Home(item)
<1>1. RunnerTypes /\ FuturesFit /\ g \in Graphs
  BY HomeType DEF RunnerInv, ExtractionFits
<1>2. /\ phase = "drain" /\ item \in handling
      /\ failures' = [failures EXCEPT ![g] = Append(failures[g], item)]
      /\ UNCHANGED <<results, files, continueOthers>>
  BY DEF RecordFailure, Home, publicationVars, batchVars
<1> HIDE DEF g
<1>3. ToSet(failures'[g]) = ToSet(failures[g]) \cup {item}
      /\ \A h \in Graphs : h # g => failures'[h] = failures[h]
  <2>1. failures[g] \in Seq(Items) /\ failures'[g] = Append(failures[g], item)
    BY <1>1, <1>2 DEF RunnerTypes
  <2> QED BY <2>1, <1>1, <1>2, ListFacts DEF RunnerTypes
<1>4. FailedItems' = FailedItems \cup {item}
  BY <1>1, <1>3 DEF FailedItems
<1>5. \A h \in Graphs : files[h] = {}
  BY <1>2 DEF RunnerInv, PublicationFits, Untouched, Extracting, ExtractionPhases
<1>6. item \notin AcceptedItems \cup FailedItems
  BY <1>2, RecordedMeans
<1>7. UNCHANGED <<continueOthers, AcceptedItems, Verdict>>
  BY <1>2 DEF AcceptedItems, Verdict
<1> QED
  BY <1>4, <1>5, <1>6, <1>7
     DEF Outcome!Reject, Outcome!Extracting, Outcome!Undecided, Verdict

\* Writing a verdict file decides a graph that was open.
LEMMA OutcomeDecide ==
  ASSUME RunnerInv, NEW g \in Graphs,
         "completion_status" \notin files[g], "terminal_failure" \notin files[g],
         NEW file \in {"completion_status", "terminal_failure"},
         files' = [files EXCEPT ![g] = files[g] \cup {file}],
         UNCHANGED <<continueOthers, results, failures>>
  PROVE  Outcome!Decide(g, IF file = "completion_status" THEN "completed" ELSE "failed")
<1>1. RunnerTypes
  BY DEF RunnerInv
<1>2. "completion_status" \notin files[g] /\ "terminal_failure" \notin files[g]
  OBVIOUS
<1>3. /\ files'[g] = files[g] \cup {file}
      /\ \A h \in Graphs : h # g => files'[h] = files[h]
  BY <1>1 DEF RunnerTypes
<1>4. Verdict[g] = "open"
  BY <1>2 DEF Verdict
<1>5. Verdict' = [Verdict EXCEPT ![g] = IF file = "completion_status" THEN "completed" ELSE "failed"]
  BY <1>2, <1>3 DEF Verdict
<1>6. UNCHANGED <<AcceptedItems, FailedItems>>
  BY DEF AcceptedItems, FailedItems
<1> QED BY <1>4, <1>5, <1>6 DEF Outcome!Decide, Verdict

\* A graph whose spans were all accepted, seen from the sets of spans.
LEMMA AcceptedMeans ==
  ASSUME RunnerInv, NEW g \in Graphs
  PROVE  /\ AllAccepted(g) => GraphItems(g) \subseteq AcceptedItems
         /\ GraphItems(g) \subseteq AcceptedItems => AllAccepted(g) \/ failures[g] # <<>>
         /\ failures[g] # <<>> => GraphItems(g) \cap FailedItems # {}
<1>1. RunnerTypes /\ SpansFit
  BY DEF RunnerInv, ExtractionFits
<1>2. AllAccepted(g) => GraphItems(g) \subseteq AcceptedItems
  BY DEF AllAccepted, AcceptedItems
<1>3. ASSUME GraphItems(g) \subseteq AcceptedItems, failures[g] = <<>>
      PROVE  AllAccepted(g)
  <2>1. \A item \in GraphItems(g) : item \in Items /\ Home(item) = g
    BY DEF GraphItems, Home
  <2>2. GraphItems(g) \subseteq ToSet(results[g])
    BY <2>1, <1>3, RecordedMeans
  <2>3. ToSet(results[g]) \subseteq GraphItems(g)
    BY <1>1, ListFacts DEF RunnerTypes, SpansFit, ResultFits, GraphItems, Home
  <2> QED BY <2>2, <2>3, <1>3 DEF AllAccepted
<1>4. ASSUME failures[g] # <<>> PROVE GraphItems(g) \cap FailedItems # {}
  <2>1. failures[g] \in Seq(Items)
    BY <1>1 DEF RunnerTypes
  <2>2. PICK item \in ToSet(failures[g]) : TRUE
    BY <2>1, <1>4, ListFacts
  <2>3. item \in Items /\ Home(item) = g
    BY <2>1, <2>2, <1>1, ListFacts DEF SpansFit, FailureFits
  <2> QED BY <2>2, <2>3 DEF GraphItems, Home, FailedItems
<1> QED BY <1>2, <1>3, <1>4

LEMMA OutcomeFinalize ==
  ASSUME RunnerInv, ReportIncomplete \/ WriteCompletion \/ FinalizeRaises, phase # "return"
  PROVE  Outcome!Next
<1>1. PICK g : g = Current OBVIOUS
<1> DEFINE spansOf == [h \in Graphs |-> GraphItems(h)]
<1>2. phase \in FinalizePhases \/ (phase = "select" /\ cursor <= Len(GraphOrder))
  BY DEF ReportIncomplete, WriteCompletion, FinalizeRaises, FinalizePhases
<1>3. /\ g \in Graphs /\ Finalizing
      /\ phase = "select" => Untouched(g)
      /\ phase \in FinalizePhases => StageFits(g)
  BY <1>1, <1>2, AtStage
<1>4. spansOf[g] = GraphItems(g)
  BY <1>3
<1>5. CASE WriteCompletion
  <2>1. /\ phase \in FinalizePhases
        /\ files' = [files EXCEPT ![g] = files[g] \cup {"completion_status"}]
        /\ UNCHANGED <<continueOthers, results, failures>>
    BY <1>1, <1>5 DEF WriteCompletion, FinalizePhases, extractionVars, batchVars
  <2>4. "completion_status" \notin files[g] /\ "terminal_failure" \notin files[g]
    BY <2>1, <1>3 DEF StageFits, FinalizePhases
  <2>2. Outcome!Decide(g, "completed")
    BY <2>1, <2>4, <1>3, OutcomeDecide
  <2>3. GraphItems(g) \subseteq AcceptedItems
    BY <2>1, <1>3, AcceptedMeans DEF StageFits
  <2> QED BY <2>2, <2>3, <1>3, <1>4 DEF Outcome!Next, Outcome!CompleteGroup
<1>6. CASE FinalizeRaises
  <2>1. /\ phase \in FinalizePhases
        /\ files' = [files EXCEPT ![g] = files[g] \cup {"terminal_failure"}]
        /\ UNCHANGED <<continueOthers, results, failures>>
    BY <1>1, <1>6 DEF FinalizeRaises, extractionVars, batchVars
  <2>4. "completion_status" \notin files[g] /\ "terminal_failure" \notin files[g]
    BY <2>1, <1>3 DEF StageFits, FinalizePhases
  <2>2. Outcome!Decide(g, "failed")
    BY <2>1, <2>4, <1>3, OutcomeDecide
  <2>3. GraphItems(g) \subseteq AcceptedItems
    BY <2>1, <1>3, AcceptedMeans DEF StageFits
  <2> QED BY <2>2, <2>3, <1>3, <1>4 DEF Outcome!Next, Outcome!FailFinalization
<1>7. CASE ReportIncomplete
  <2>1. /\ phase = "select" /\ Incomplete(g)
        /\ files' = [files EXCEPT ![g] = files[g] \cup {"terminal_failure"}]
        /\ UNCHANGED <<continueOthers, results, failures>>
    BY <1>1, <1>7 DEF ReportIncomplete, extractionVars, batchVars
  <2>2. Outcome!Decide(g, "failed")
    <3>1. files[g] = {}
      BY <2>1, <1>3 DEF Untouched
    <3> QED BY <2>1, <3>1, <1>3, OutcomeDecide
  <2>3. CASE failures[g] # <<>>
    <3>1. GraphItems(g) \cap FailedItems # {}
      BY <2>3, <1>3, AcceptedMeans
    <3> QED BY <2>2, <3>1, <1>3, <1>4 DEF Outcome!Next, Outcome!FailExtraction
  <2>4. CASE failures[g] = <<>>
    <3>1. ~AllAccepted(g) /\ stopNew
      BY <2>1, <2>4, <1>3, BarrierReason
    <3>2. ~(GraphItems(g) \subseteq AcceptedItems)
      BY <3>1, <2>4, <1>3, AcceptedMeans
    <3>3. ~continueOthers /\ \E h \in Graphs : failures[h] # <<>>
      BY <3>1 DEF RunnerInv, ExtractionFits, StopFits
    <3>4. FailedItems # {}
      BY <3>3, AcceptedMeans
    <3> QED BY <2>2, <3>2, <3>3, <3>4, <1>3, <1>4 DEF Outcome!Next, Outcome!Abandon
  <2> QED BY <2>3, <2>4
<1> QED BY <1>5, <1>6, <1>7

\* An interrupt after the completion file changes no verdict.
LEMMA OutcomeInterrupted ==
  ASSUME RunnerInv, FinalizeRaises, phase = "return"
  PROVE  UNCHANGED Outcome!outcomeVars
<1>1. PICK g : g = Current OBVIOUS
<1>2. g \in Graphs /\ "completion_status" \in files[g] /\ RunnerTypes
  <2>1. g \in Graphs /\ StageFits(g)
    BY <1>1, AtStage DEF FinalizePhases
  <2> QED BY <2>1 DEF StageFits, Artifacts, RunnerInv
<1>3. files' = [files EXCEPT ![g] = files[g] \cup {"terminal_failure"}]
  BY <1>1 DEF FinalizeRaises
<1>4. Verdict' = Verdict
  BY <1>2, <1>3 DEF Verdict, RunnerTypes
<1>5. UNCHANGED <<continueOthers, AcceptedItems, FailedItems>>
  BY DEF FinalizeRaises, extractionVars, batchVars, AcceptedItems, FailedItems
<1> QED BY <1>4, <1>5 DEF Outcome!outcomeVars, Verdict

LEMMA OutcomeStep == RunnerInv /\ [Next]_vars => [Outcome!Next]_(Outcome!outcomeVars)
<1> SUFFICES ASSUME RunnerInv, [Next]_vars PROVE [Outcome!Next]_(Outcome!outcomeVars)
  OBVIOUS
<1> USE DEF publicationVars, extractionVars, batchVars
<1>1. ASSUME NEW item \in Items, Submit(item) \/ PopDone(item) \/ WorkerStep(item)
      PROVE  UNCHANGED Outcome!outcomeVars
  BY <1>1, OutcomeStutter DEF Submit, PopDone, WorkerStep, EndRequest
<1>2. ASSUME NEW item \in Items, RecordAccepted(item) \/ RecordFailure(item)
      PROVE  Outcome!Next
  BY <1>2, OutcomeAccept, OutcomeReject DEF Outcome!Next
<1>3. CASE StopSubmitting \/ WaitFirstCompleted \/ LoopAgain \/ BeginFinalize \/ Embed
  BY <1>3, OutcomeStutter DEF StopSubmitting, WaitFirstCompleted, LoopAgain, BeginFinalize, Embed
<1>4. CASE PersistFactGraph \/ WriteDescription \/ WriteParity
  <2>1. PICK file \in {"fact_graph", "graph_manifest", "resolution_report", "neo4j_parity"} :
          files' = [files EXCEPT ![Current] = @ \cup {file}]
    BY <1>4 DEF PersistFactGraph, WriteDescription, WriteParity
  <2>2. UNCHANGED <<continueOthers, results, failures>>
    BY <1>4 DEF PersistFactGraph, WriteDescription, WriteParity
  <2>3. \A g \in Graphs : \A v \in {"completion_status", "terminal_failure"} :
          v \in files'[g] <=> v \in files[g]
    BY <2>1 DEF RunnerInv, RunnerTypes
  <2> QED BY <2>2, <2>3, OutcomeStutter
<1>5. CASE ReportIncomplete \/ WriteCompletion \/ FinalizeRaises
  <2>1. CASE phase # "return"
    BY <1>5, <2>1, OutcomeFinalize
  <2>2. CASE phase = "return"
    <3>1. FinalizeRaises
      BY <1>5, <2>2 DEF ReportIncomplete, WriteCompletion
    <3> QED BY <2>2, <3>1, OutcomeInterrupted
  <2> QED BY <2>1, <2>2
<1>6. CASE (\E status \in {"passed", "failed"} : Import(status)) \/ RecordCompleted \/ AllGraphsVisited
  BY <1>6, OutcomeStutter DEF Import, RecordCompleted, AllGraphsVisited
<1>7. CASE \/ WriteExtractionStatus \/ WriteBatchReport \/ WriteBatchCompletion
           \/ Crash \/ Stopped \/ UNCHANGED vars
  BY <1>7, OutcomeStutter DEF WriteExtractionStatus, WriteBatchReport, WriteBatchCompletion,
                              Crash, Stopped, vars
<1> QED
  BY <1>1, <1>2, <1>3, <1>4, <1>5, <1>6, <1>7 DEF Next, MainStep

\* For every plan, every limit and both policies, whatever the threads, the
\* files and the failures do: spans and groups are decided once, in the order
\* and for the reasons docs/BATCH_PROCESSING.md gives.
THEOREM OutcomeImplemented == Spec => ImplementsOutcome
<1>1. Init => Outcome!Init
  <2> SUFFICES ASSUME Init PROVE Outcome!Init
    OBVIOUS
  <2>1. \A g \in Graphs : ToSet(results[g]) = {} /\ ToSet(failures[g]) = {}
    BY DEF Init, ToSet
  <2>2. AcceptedItems = {} /\ FailedItems = {}
    BY <2>1 DEF AcceptedItems, FailedItems
  <2>3. continueOthers \in BOOLEAN /\ \A g \in Graphs : files[g] = {}
    BY DEF Init
  <2> QED BY <2>2, <2>3 DEF Outcome!Init
<1> QED
  BY <1>1, OutcomeStep, RunnerInvariant, PTL DEF Spec, ImplementsOutcome, Outcome!Spec

-----------------------------------------------------------------------------
(* Sorting: what the ranks of a strict total order do.                     *)

NoneTwice(q) == \A i, j \in DOMAIN q : q[i] = q[j] => i = j

\* Sorting the results of a graph, none there twice, lists them in order: each
\* position has its own rank, and a larger rank comes later.
LEMMA OrderedSorts ==
  ASSUME NEW g \in Graphs, results[g] \in Seq(Items), NoneTwice(results[g])
  PROVE  /\ Ordered(g) \in Seq(Items)
         /\ ToSet(Ordered(g)) = ToSet(results[g])
         /\ \A i, j \in DOMAIN Ordered(g) : i < j => ItemBefore(Ordered(g)[i], Ordered(g)[j])
<1> DEFINE r == results[g]
           n == Len(r)
           D == DOMAIN r
           before(k) == {j \in DOMAIN r :
                           \/ ItemBefore(r[j], r[k])
                           \/ ~ItemBefore(r[k], r[j]) /\ j < k}
           below == [k \in D |-> before(k)]
           place == [i \in D |-> CHOOSE k \in D : Cardinality(before(k)) = i - 1]
           R == {p \in D \X D : ItemBefore(r[p[1]], r[p[2]])}
           size == [k \in D |-> Cardinality(below[k])]
<1>1. n \in Nat /\ D = 1 .. n /\ \A i \in D : r[i] \in Items
  BY LenProperties, ElementOfSeq
<1>2. \A a \in Items : a.document \in Int /\ a.order \in Int /\ a = [document |-> a.document, order |-> a.order]
  <2>1. \A d \in Documents : d \in Int
    BY PlanAssumption
  <2>2. \A a \in Items : a.order \in Int
    BY ItemFacts, PlanFacts
  <2> QED BY <2>1, <2>2, ItemFacts
<1>3. \A j, k \in D : j # k => ItemBefore(r[j], r[k]) \/ ItemBefore(r[k], r[j])
  BY <1>1, <1>2, SMTT(40) DEF NoneTwice, ItemBefore
<1>4. \A j, k \in D : ItemBefore(r[j], r[k]) => ~ItemBefore(r[k], r[j])
  BY <1>1, <1>2, SMTT(40) DEF ItemBefore
<1>5. \A i, j, k \in D :
        ItemBefore(r[i], r[j]) /\ ItemBefore(r[j], r[k]) => ItemBefore(r[i], r[k])
  <2>1. \A a, b, c \in Items : ItemBefore(a, b) /\ ItemBefore(b, c) => ItemBefore(a, c)
    BY <1>2 DEF ItemBefore
  <2> QED BY <1>1, <2>1
<1>6. Ordered(g) = [i \in D |-> r[place[i]]]
  BY DEF Ordered
<1>7. \A j, k \in D : <<j, k>> \in R <=> ItemBefore(r[j], r[k])
  OBVIOUS
<1>8. \A k \in D : \A j : j \in below[k] <=> j \in D /\ <<j, k>> \in R
  <2> SUFFICES ASSUME NEW k \in D, NEW j
               PROVE  j \in below[k] <=> j \in D /\ <<j, k>> \in R
    OBVIOUS
  <2>1. j \in below[k] <=>
          j \in D /\ (ItemBefore(r[j], r[k]) \/ (~ItemBefore(r[k], r[j]) /\ j < k))
    OBVIOUS
  <2> HIDE DEF r, below, R
  <2>2. CASE j = k
    BY <1>1, <1>4, <1>7, <2>1, <2>2
  <2>3. CASE j # k
    BY <1>3, <1>4, <1>7, <2>1, <2>3
  <2> QED BY <2>2, <2>3
<1>9. \A i \in D : place[i] = CHOOSE k \in D : Cardinality(below[k]) = i - 1
  OBVIOUS
<1> HIDE DEF r, n, D, below, place, R
<1>10. /\ \A k \in D : <<k, k>> \notin R
       /\ \A i, j, k \in D : <<i, j>> \in R /\ <<j, k>> \in R => <<i, k>> \in R
       /\ \A j, k \in D : j # k => <<j, k>> \in R \/ <<k, j>> \in R
  BY <1>3, <1>4, <1>5, <1>7
<1>11. IsFiniteSet(D) /\ Cardinality(D) = n
  BY <1>1, FS_Interval
<1>12. ASSUME NEW k \in D
      PROVE  /\ below[k] \subseteq D \ {k} /\ IsFiniteSet(below[k])
             /\ size[k] = Cardinality(below[k]) /\ size[k] \in Nat
  <2>1. below[k] \subseteq D \ {k} /\ below[k] \in SUBSET D
    BY <1>8, <1>10
  <2>2. IsFiniteSet(below[k])
    BY <1>11, <2>1, FS_Subset
  <2> QED BY <2>1, <2>2, FS_CardinalityType
<1> HIDE DEF size
<1>13. ASSUME NEW k \in D PROVE size[k] + 1 \in D
  <2>1. IsFiniteSet(D \ {k}) /\ Cardinality(D \ {k}) = n - 1
    <3>1. IsFiniteSet(D \ {k}) /\ Cardinality(D \ {k}) = Cardinality(D) - 1
      <4> QED BY <1>11, FS_RemoveElement
    <3> QED BY <1>11, <3>1
  <2>2. below[k] \in SUBSET (D \ {k})
    BY <1>12
  <2>3. Cardinality(below[k]) <= n - 1
    BY <2>1, <2>2, FS_Subset
  <2>4. size[k] <= n - 1 /\ size[k] \in Nat
    BY <1>12, <2>3
  <2> QED BY <1>1, <2>4
<1>14. ASSUME NEW j \in D, NEW k \in D, <<j, k>> \in R
      PROVE  size[j] < size[k]
  <2>1. below[j] \subseteq below[k] /\ j \in below[k] /\ j \notin below[j]
    BY <1>14, <1>8, <1>10
  <2>2. below[j] \in SUBSET below[k] /\ below[j] # below[k]
    BY <2>1
  <2>3. IsFiniteSet(below[k])
    BY <1>12
  <2>4. Cardinality(below[j]) <= Cardinality(below[k]) /\ Cardinality(below[j]) # Cardinality(below[k])
    BY <2>2, <2>3, FS_Subset
  <2>5. /\ size[j] \in Nat /\ size[k] \in Nat
        /\ size[j] = Cardinality(below[j]) /\ size[k] = Cardinality(below[k])
    BY <1>12
  <2> QED BY <2>4, <2>5
<1>15. ASSUME NEW j \in D, NEW k \in D, size[j] = size[k] PROVE j = k
  <2>1. size[j] \in Nat
    BY <1>12
  <2>2. ~(<<j, k>> \in R) /\ ~(<<k, j>> \in R)
    BY <1>14, <1>15, <2>1
  <2> QED BY <1>10, <2>2
<1>16. ASSUME NEW i \in D PROVE \E k \in D : size[k] = i - 1
  <2> DEFINE rank == [k \in D |-> size[k] + 1]
  <2>1. rank \in [D -> D]
    BY <1>13
  <2>2. \A j, k \in D : rank[j] = rank[k] => j = k
    <3> SUFFICES ASSUME NEW j \in D, NEW k \in D, rank[j] = rank[k] PROVE j = k
      OBVIOUS
    <3>1. size[j] \in Nat /\ size[k] \in Nat
      BY <1>12
    <3>2. size[j] = size[k]
      BY <3>1
    <3> QED BY <1>15, <3>2
  <2>3. rank \in Injection(D, D)
    BY <2>1, <2>2 DEF Injection, IsInjective
  <2>4. rank \in Surjection(D, D)
    BY <1>11, <2>3, FS_Injection
  <2>5. PICK k \in D : rank[k] = i
    BY <2>4 DEF Surjection
  <2>6. size[k] \in Nat /\ size[k] + 1 = i
    BY <1>12, <2>5
  <2> HIDE DEF rank
  <2>7. size[k] = i - 1
    BY <2>6
  <2> QED BY <2>7
<1>17. ASSUME NEW i \in D PROVE place[i] \in D /\ size[place[i]] = i - 1
  <2>1. PICK k \in D : size[k] = i - 1
    BY <1>16
  <2>2. Cardinality(below[k]) = i - 1
    BY <1>12, <2>1
  <2>3. place[i] \in D /\ Cardinality(below[place[i]]) = i - 1
    BY <1>9, <2>2
  <2> QED BY <1>12, <2>3
<1>18. ASSUME NEW k \in D PROVE \E i \in D : place[i] = k
  <2>1. size[k] + 1 \in D /\ size[k] \in Nat
    BY <1>12, <1>13
  <2>2. place[size[k] + 1] \in D /\ size[place[size[k] + 1]] = size[k]
    BY <1>17, <2>1
  <2>3. place[size[k] + 1] = k
    BY <1>15, <2>2
  <2> QED BY <2>1, <2>3
<1>19. ASSUME NEW i \in D, NEW j \in D, i < j PROVE <<place[i], place[j]>> \in R
  <2>1. /\ place[i] \in D /\ place[j] \in D
        /\ size[place[i]] = i - 1 /\ size[place[j]] = j - 1
    BY <1>17
  <2>2. size[place[i]] < size[place[j]]
    BY <1>1, <1>19, <2>1
  <2>3. i \in Nat /\ j \in Nat
    BY <1>1
  <2>4. place[i] # place[j]
    BY <1>19, <2>1, <2>3
  <2>5. ~(<<place[j], place[i]>> \in R)
    <3>1. ASSUME <<place[j], place[i]>> \in R PROVE FALSE
      <4>1. size[place[j]] < size[place[i]]
        BY <1>14, <2>1, <3>1
      <4> QED BY <1>19, <2>1, <2>3, <4>1
    <3> QED BY <3>1
  <2> QED BY <1>10, <2>1, <2>4, <2>5
<1>20. Ordered(g) \in Seq(Items) /\ DOMAIN Ordered(g) = D
  BY <1>1, <1>6, <1>17
<1>21. ToSet(Ordered(g)) = ToSet(r)
  <2> DEFINE q == Ordered(g)
  <2>1. \A i \in D : q[i] = r[place[i]] /\ place[i] \in D
    BY <1>6, <1>17
  <2>2. DOMAIN q = D /\ DOMAIN r = D
    BY <1>20 DEF D
  <2> HIDE DEF q
  <2>3. ToSet(q) \subseteq ToSet(r)
    BY <2>1, <2>2 DEF ToSet
  <2>4. ToSet(r) \subseteq ToSet(q)
    <3> SUFFICES ASSUME NEW x \in ToSet(r) PROVE x \in ToSet(q)
      OBVIOUS
    <3>1. PICK k \in D : x = r[k]
      BY <2>2 DEF ToSet
    <3>2. PICK i \in D : place[i] = k
      BY <1>18
    <3>3. q[i] = x
      BY <2>1, <3>1, <3>2
    <3> QED BY <2>2, <3>3 DEF ToSet
  <2> QED BY <2>3, <2>4 DEF q
<1>22. \A i, j \in D : i < j => ItemBefore(Ordered(g)[i], Ordered(g)[j])
  <2> SUFFICES ASSUME NEW i \in D, NEW j \in D, i < j
               PROVE  ItemBefore(Ordered(g)[i], Ordered(g)[j])
    OBVIOUS
  <2>1. ItemBefore(r[place[i]], r[place[j]])
    BY <1>7, <1>17, <1>19
  <2>2. Ordered(g)[i] = r[place[i]] /\ Ordered(g)[j] = r[place[j]]
    BY <1>6
  <2> QED BY <2>1, <2>2
<1> QED BY <1>20, <1>21, <1>22 DEF r
-----------------------------------------------------------------------------
(* What the graphs and the final report say.                               *)

\* No span is recorded twice in a list.
ListsDistinct == \A g \in Graphs : NoneTwice(results[g]) /\ NoneTwice(failures[g])

LEMMA AppendedOnce ==
  ASSUME NEW q \in Seq(Items), NEW x \in Items, NoneTwice(q), x \notin ToSet(q)
  PROVE  NoneTwice(Append(q, x))
<1>1. Len(q) \in Nat /\ DOMAIN q = 1 .. Len(q)
  BY LenProperties
<1>2. DOMAIN Append(q, x) = 1 .. Len(q) + 1
  BY <1>1
<1>3. \A k \in 1 .. Len(q) : Append(q, x)[k] = q[k] /\ q[k] # x
  BY <1>1 DEF ToSet
<1>4. Append(q, x)[Len(q) + 1] = x
  OBVIOUS
<1> SUFFICES ASSUME NEW j \in 1 .. Len(q) + 1, NEW k \in 1 .. Len(q) + 1,
                    Append(q, x)[j] = Append(q, x)[k]
             PROVE  j = k
  BY <1>2 DEF NoneTwice
<1>5. CASE j = Len(q) + 1
  BY <1>1, <1>3, <1>4, <1>5
<1>6. CASE k = Len(q) + 1
  BY <1>1, <1>3, <1>4, <1>6
<1>7. CASE j \in 1 .. Len(q) /\ k \in 1 .. Len(q)
  BY <1>1, <1>3, <1>7 DEF NoneTwice
<1> QED BY <1>1, <1>5, <1>6, <1>7

LEMMA ListsStep ==
  ASSUME RunnerInv, ListsDistinct, [Next]_vars
  PROVE  ListsDistinct'
<1>1. RunnerTypes /\ SpansFit
  BY DEF RunnerInv, ExtractionFits
<1>2. ASSUME NEW item \in Items, RecordAccepted(item) PROVE ListsDistinct'
  <2> DEFINE h == Home(item)
  <2>1. h \in Graphs /\ item \notin ToSet(results[h])
    BY <1>1, <1>2, HomeType DEF RecordAccepted, SpansFit, ResultFits
  <2>2. /\ results' = [results EXCEPT ![h] = Append(results[h], item)] /\ failures' = failures
    BY <1>2 DEF RecordAccepted, Home
  <2> HIDE DEF h
  <2>3. NoneTwice(Append(results[h], item))
    BY <1>1, <2>1, AppendedOnce DEF RunnerTypes, ListsDistinct
  <2>4. \A g \in Graphs : results'[g] = IF g = h THEN Append(results[h], item) ELSE results[g]
    BY <1>1, <2>2 DEF RunnerTypes
  <2> QED BY <2>2, <2>3, <2>4 DEF ListsDistinct
<1>3. ASSUME NEW item \in Items, RecordFailure(item) PROVE ListsDistinct'
  <2> DEFINE h == Home(item)
  <2>1. h \in Graphs /\ item \notin ToSet(failures[h])
    BY <1>1, <1>3, HomeType DEF RecordFailure, SpansFit, FailureFits
  <2>2. /\ failures' = [failures EXCEPT ![h] = Append(failures[h], item)] /\ results' = results
    BY <1>3 DEF RecordFailure, Home
  <2> HIDE DEF h
  <2>3. NoneTwice(Append(failures[h], item))
    BY <1>1, <2>1, AppendedOnce DEF RunnerTypes, ListsDistinct
  <2>4. \A g \in Graphs : failures'[g] = IF g = h THEN Append(failures[h], item) ELSE failures[g]
    BY <1>1, <2>2 DEF RunnerTypes
  <2> QED BY <2>2, <2>3, <2>4 DEF ListsDistinct
<1>4. CASE results' = results /\ failures' = failures
  BY <1>4 DEF ListsDistinct
<1>5. \/ \E item \in Items : RecordAccepted(item) \/ RecordFailure(item)
      \/ results' = results /\ failures' = failures
  <2>1. ASSUME NEW item \in Items, Submit(item) \/ PopDone(item) \/ WorkerStep(item)
        PROVE  results' = results /\ failures' = failures
    BY <2>1 DEF Submit, PopDone, WorkerStep, EndRequest
  <2>2. CASE StopSubmitting \/ WaitFirstCompleted \/ LoopAgain
    BY <2>2 DEF StopSubmitting, WaitFirstCompleted, LoopAgain, extractionVars
  <2>3. CASE ReportIncomplete \/ BeginFinalize \/ Embed \/ PersistFactGraph \/ WriteDescription
    BY <2>3 DEF ReportIncomplete, BeginFinalize, Embed, PersistFactGraph, WriteDescription, extractionVars
  <2>4. CASE \/ \E status \in {"passed", "failed"} : Import(status)
             \/ WriteParity \/ WriteCompletion \/ RecordCompleted \/ FinalizeRaises
             \/ AllGraphsVisited
    BY <2>4 DEF Import, WriteParity, WriteCompletion, RecordCompleted, FinalizeRaises,
                AllGraphsVisited, extractionVars
  <2>5. CASE \/ WriteExtractionStatus \/ WriteBatchReport \/ WriteBatchCompletion
             \/ Crash \/ Stopped \/ UNCHANGED vars
    BY <2>5 DEF WriteExtractionStatus, WriteBatchReport, WriteBatchCompletion, Crash, Stopped,
                vars, extractionVars
  <2> QED BY <2>1, <2>2, <2>3, <2>4, <2>5 DEF Next, MainStep
<1> QED BY <1>2, <1>3, <1>4, <1>5

\* Lists of different graphs share no span, so their entries are their spans.
LEMMA EntriesCount ==
  ASSUME NEW lists \in [Graphs -> Seq(Items)],
         \A g \in Graphs : NoneTwice(lists[g]),
         \A g \in Graphs : \A item \in ToSet(lists[g]) : Home(item) = g
  PROVE  Cardinality(Entries(lists)) = Cardinality(UNION {ToSet(lists[g]) : g \in Graphs})
<1> DEFINE E == Entries(lists)
           U == UNION {ToSet(lists[g]) : g \in Graphs}
           f == [e \in E |-> lists[e[1]][e[2]]]
<1>1. U \subseteq Items
  BY ListFacts
<1>2. IsFiniteSet(U)
  BY <1>1, SpansFinite, FS_Subset
<1>3. \A e \in E : /\ e = <<e[1], e[2]>> /\ e[1] \in Graphs /\ e[2] \in DOMAIN lists[e[1]]
  BY DEF Entries
<1>4. \A g \in Graphs : \A i \in DOMAIN lists[g] : <<g, i>> \in E /\ lists[g][i] \in ToSet(lists[g])
  BY DEF Entries, ToSet
<1> HIDE DEF E
<1>5. f \in [E -> U]
  BY <1>3, <1>4
<1>6. \A d, e \in E : f[d] = f[e] => d = e
  <2> SUFFICES ASSUME NEW d \in E, NEW e \in E, f[d] = f[e] PROVE d = e
    OBVIOUS
  <2>1. f[d] \in ToSet(lists[d[1]]) /\ f[e] \in ToSet(lists[e[1]])
    BY <1>3, <1>4
  <2>2. d[1] = e[1]
    BY <1>3, <2>1
  <2>3. d[2] = e[2]
    BY <1>3, <2>2 DEF NoneTwice
  <2> QED BY <1>3, <2>2, <2>3
<1>7. \A x \in U : \E e \in E : f[e] = x
  <2> SUFFICES ASSUME NEW x \in U PROVE \E e \in E : f[e] = x
    OBVIOUS
  <2>1. PICK g \in Graphs : x \in ToSet(lists[g])
    OBVIOUS
  <2>2. PICK i \in DOMAIN lists[g] : x = lists[g][i]
    BY <2>1 DEF ToSet
  <2>3. <<g, i>> \in E /\ f[<<g, i>>] = x
    BY <1>4, <2>2
  <2> QED BY <2>3
<1> HIDE DEF U, f
<1>8. f \in Injection(E, U)
  BY <1>5, <1>6 DEF Injection, IsInjective
<1>9. f \in Surjection(E, U)
  BY <1>5, <1>7 DEF Surjection
<1>10. Cardinality(E) = Cardinality(U)
  BY <1>2, <1>8, <1>9, FS_Injection
<1> QED BY <1>10 DEF E, U

PublishedInv == published \in [Graphs -> Seq(Items)] /\ PublishedInDocumentOrder

\* What extraction_status.json says of a document.
StatusOf(d) == IF ItemsOf(d) \subseteq AcceptedItems THEN "passed" ELSE "failed"

\* The files of the report appear in their order.
ReportInv ==
  /\ documentStatus \in [Documents -> {"none", "passed", "failed"}]
  /\ \A d \in Documents : documentStatus[d] # "none" =>
       documentStatus[d] = StatusOf(d) /\ phase \in ReportPhases \cup {"crashed"}
  /\ batchReport # {} => phase \in {"batch_completion_status", "finished", "crashed"}
  /\ phase = "batch_completion_status" =>
       \E report \in batchReport : report.status = BatchStatus
  /\ batchCompletion # {} => phase \in {"finished", "crashed"}
  /\ ReportAddsUp

\* fact_graph.json is written once, from all results of the graph.
LEMMA PublishedStep ==
  ASSUME RunnerInv, ListsDistinct, PublishedInv, [Next]_vars
  PROVE  PublishedInv'
<1>1. RunnerTypes /\ PublicationFits /\ published \in [Graphs -> Seq(Items)]
  BY DEF RunnerInv, PublishedInv
<1>2. CASE PersistFactGraph
  <2> DEFINE c == Current
  <2>1. phase = "fact_graph" /\ cursor \in 1 .. Len(GraphOrder)
    BY <1>1, <1>2, OrderFacts DEF PersistFactGraph, PublicationFits, FinalizePhases, RunnerTypes
  <2>2. c \in Graphs /\ AllAccepted(c)
    <3>1. GraphOrder[cursor] \in Graphs
      BY <2>1, OrderFacts
    <3>2. StageFits(GraphOrder[cursor])
      BY <1>1, <2>1 DEF PublicationFits, FinalizePhases
    <3> QED BY <3>1, <3>2 DEF StageFits, Current
  <2>3. /\ published' = [published EXCEPT ![c] = Ordered(c)]
        /\ files' = [files EXCEPT ![c] = files[c] \cup {"fact_graph"}]
    BY <1>2 DEF PersistFactGraph
  <2> HIDE DEF c
  <2>4. /\ Ordered(c) \in Seq(Items)
        /\ ToSet(Ordered(c)) = GraphItems(c)
        /\ \A i, j \in DOMAIN Ordered(c) : i < j => ItemBefore(Ordered(c)[i], Ordered(c)[j])
    <3>1. results[c] \in Seq(Items) /\ NoneTwice(results[c])
      BY <1>1, <2>2 DEF RunnerTypes, ListsDistinct
    <3>2. ToSet(results[c]) = GraphItems(c)
      BY <2>2 DEF AllAccepted
    <3> QED BY <2>2, <3>1, <3>2, OrderedSorts
  <2>5. \A g \in Graphs : /\ published'[g] = IF g = c THEN Ordered(c) ELSE published[g]
                          /\ g # c => files'[g] = files[g]
    BY <1>1, <2>3 DEF RunnerTypes
  <2>6. published' \in [Graphs -> Seq(Items)]
    BY <1>1, <2>3, <2>4
  <2>7. ASSUME NEW g \in Graphs, "fact_graph" \in files'[g]
        PROVE  /\ ToSet(published'[g]) = GraphItems(g)
               /\ \A i, j \in DOMAIN published'[g] :
                    i < j => ItemBefore(published'[g][i], published'[g][j])
    <3>1. CASE g = c
      BY <2>4, <2>5, <3>1
    <3>2. CASE g # c
      BY <2>5, <2>7, <3>2 DEF PublishedInv, PublishedInDocumentOrder
    <3> QED BY <3>1, <3>2
  <2> QED BY <2>6, <2>7 DEF PublishedInv, PublishedInDocumentOrder
<1>3. CASE published' = published /\ \A g \in Graphs : "fact_graph" \in files'[g] => "fact_graph" \in files[g]
  BY <1>3 DEF PublishedInv, PublishedInDocumentOrder
<1>4. \/ PersistFactGraph
      \/ published' = published /\ \A g \in Graphs : "fact_graph" \in files'[g] => "fact_graph" \in files[g]
  <2>1. ASSUME NEW item \in Items,
               Submit(item) \/ PopDone(item) \/ RecordAccepted(item) \/ RecordFailure(item) \/ WorkerStep(item)
        PROVE  published' = published /\ files' = files
    BY <2>1 DEF Submit, PopDone, RecordAccepted, RecordFailure, WorkerStep, EndRequest, publicationVars
  <2>2. CASE StopSubmitting \/ WaitFirstCompleted \/ LoopAgain \/ BeginFinalize \/ Embed
    BY <2>2 DEF StopSubmitting, WaitFirstCompleted, LoopAgain, BeginFinalize, Embed, publicationVars
  <2>3. CASE ReportIncomplete \/ WriteDescription \/ WriteParity \/ WriteCompletion \/ FinalizeRaises
    <3>1. published' = published
      BY <2>3 DEF ReportIncomplete, WriteDescription, WriteParity, WriteCompletion, FinalizeRaises
    <3>2. \E file \in Artifacts \ {"fact_graph"} : files' = [files EXCEPT ![Current] = @ \cup {file}]
      <4>1. CASE ReportIncomplete \/ FinalizeRaises
        <5>1. files' = [files EXCEPT ![Current] = @ \cup {"terminal_failure"}]
          BY <4>1 DEF ReportIncomplete, FinalizeRaises
        <5> QED BY <5>1 DEF Artifacts
      <4>2. CASE WriteDescription
        <5>1. files' = [files EXCEPT ![Current] = @ \cup {phase}]
          BY <4>2 DEF WriteDescription
        <5>2. phase \in Artifacts \ {"fact_graph"}
          BY <4>2 DEF WriteDescription, Artifacts
        <5> QED BY <5>1, <5>2
      <4>3. CASE WriteParity
        <5>1. files' = [files EXCEPT ![Current] = @ \cup {"neo4j_parity"}]
          BY <4>3 DEF WriteParity
        <5> QED BY <5>1 DEF Artifacts
      <4>4. CASE WriteCompletion
        <5>1. files' = [files EXCEPT ![Current] = @ \cup {"completion_status"}]
          BY <4>4 DEF WriteCompletion
        <5> QED BY <5>1 DEF Artifacts
      <4> QED BY <2>3, <4>1, <4>2, <4>3, <4>4
    <3>3. PICK file \in Artifacts \ {"fact_graph"} : files' = [files EXCEPT ![Current] = @ \cup {file}]
      BY <3>2
    <3>4. \A g \in Graphs : files'[g] \subseteq files[g] \cup {file}
      BY <1>1, <3>3 DEF RunnerTypes
    <3> QED BY <3>1, <3>4
  <2>4. CASE \/ AllGraphsVisited \/ RecordCompleted
             \/ \E status \in {"passed", "failed"} : Import(status)
    BY <2>4 DEF Import, RecordCompleted, AllGraphsVisited, publicationVars
  <2>5. CASE \/ WriteExtractionStatus \/ WriteBatchReport \/ WriteBatchCompletion
             \/ Crash \/ Stopped \/ UNCHANGED vars
    BY <2>5 DEF WriteExtractionStatus, WriteBatchReport, WriteBatchCompletion, Crash, Stopped,
                vars, publicationVars
  <2> QED BY <2>1, <2>2, <2>3, <2>4, <2>5 DEF Next, MainStep
<1> QED BY <1>2, <1>3, <1>4

LEMMA GraphsFinite == IsFiniteSet(Graphs)
<1> DEFINE D == 1 .. Len(GraphOrder)
           f == [i \in D |-> GraphOrder[i]]
<1>1. IsFiniteSet(D)
  BY OrderFacts, FS_Interval
<1>2. f \in [D -> Graphs]
  BY OrderFacts
<1>3. \A g \in Graphs : \E i \in D : f[i] = g
  BY OrderFacts
<1>4. f \in Surjection(D, Graphs)
  BY <1>2, <1>3 DEF Surjection
<1> QED BY <1>1, <1>4, FS_Surjection

\* When the loop is over the graphs reported as completed hold a completion
\* file, and those that hold no other verdict are reported.
LEMMA CompletedMeans ==
  ASSUME RunnerInv, phase \in ReportPhases
  PROVE  /\ CompletedGraphs \subseteq {g \in Graphs : "completion_status" \in files[g]}
         /\ {g \in Graphs : Verdicts(g) = {"completion_status"}} \subseteq CompletedGraphs
         /\ \A g \in CompletedGraphs : AllAccepted(g)
<1>1. RunnerTypes /\ PublicationFits /\ Finalizing
  BY DEF RunnerInv, ReportPhases, Finalizing, ExtractionPhases
<1>2. CompletedGraphs \subseteq {g \in Graphs : "completion_status" \in files[g]}
  BY <1>1 DEF PublicationFits, GraphFits, CompletedGraphs
<1>3. ASSUME NEW g \in Graphs, Verdicts(g) = {"completion_status"} PROVE g \in CompletedGraphs
  <2>1. "completion_status" \in files[g] /\ "terminal_failure" \notin files[g]
    BY <1>3 DEF Verdicts
  <2>2. PICK i \in 1 .. Len(GraphOrder) : GraphOrder[i] = g
    BY OrderFacts
  <2>3. ~FailedRow(g)
    BY <1>1, <2>1 DEF PublicationFits, GraphFits
  <2>4. ~(i > cursor) /\ ~(i = cursor)
    BY <1>1, <2>1, <2>2, <2>3 DEF PublicationFits, Untouched, CutShort
  <2>5. i < cursor
    BY <1>1, <2>4, OrderFacts DEF RunnerTypes
  <2>6. reported[g] # {} /\ reported[g] \subseteq Rows
    BY <1>1, <2>2, <2>5 DEF PublicationFits, RunnerTypes
  <2> QED BY <2>3, <2>6 DEF FailedRow, Rows, CompletedGraphs
<1>4. ASSUME NEW g \in CompletedGraphs PROVE AllAccepted(g)
  <2>1. g \in Graphs /\ "completion_status" \in files[g]
    BY <1>2
  <2> QED BY <1>1, <2>1 DEF PublicationFits, GraphFits
<1> QED BY <1>2, <1>3, <1>4

\* The documents of a completed graph have passed.
LEMMA StatusMeans ==
  ASSUME RunnerInv, phase \in ReportPhases, NEW d \in Documents
  PROVE  /\ StatusOf(d) \in {"passed", "failed"}
         /\ StatusOf(d) = "failed" => GraphOf[d] \notin CompletedGraphs /\ BatchStatus # "completed_fully"
<1>1. ASSUME GraphOf[d] \in CompletedGraphs PROVE ItemsOf(d) \subseteq AcceptedItems
  <2>1. AllAccepted(GraphOf[d]) /\ GraphOf[d] \in Graphs
    BY <1>1, CompletedMeans DEF CompletedGraphs
  <2>2. ItemsOf(d) \subseteq GraphItems(GraphOf[d])
    BY DEF GraphItems, Items, ItemsOf
  <2>3. GraphItems(GraphOf[d]) \subseteq AcceptedItems
    BY <2>1 DEF AllAccepted, AcceptedItems
  <2> QED BY <2>2, <2>3
<1>2. GraphOf[d] \in Graphs
  BY PlanFacts
<1> QED BY <1>1, <1>2 DEF StatusOf, BatchStatus

\* One document after the other gets the status its spans give it.
LEMMA StatusWritten ==
  ASSUME RunnerInv, ReportInv, WriteExtractionStatus
  PROVE  ReportInv'
<1>1. /\ phase = "report" /\ phase' = "report"
      /\ UNCHANGED <<results, failures, files, reported, batchReport, batchCompletion>>
  BY DEF WriteExtractionStatus, extractionVars, publicationVars
<1>2. PICK i \in DOMAIN DocumentOrder :
        documentStatus' = [documentStatus EXCEPT ![DocumentOrder[i]] = StatusOf(DocumentOrder[i])]
  BY DEF WriteExtractionStatus, StatusOf
<1>3. DocumentOrder[i] \in Documents
  BY PlanAssumption, LenProperties, ElementOfSeq
<1>4. StatusOf(DocumentOrder[i]) \in {"passed", "failed"}
  BY DEF StatusOf
<1>5. documentStatus' \in [Documents -> {"none", "passed", "failed"}]
  BY <1>2, <1>3, <1>4 DEF ReportInv
<1>6. \A d \in Documents : StatusOf(d)' = StatusOf(d)
  BY <1>1 DEF StatusOf, AcceptedItems
<1>7. \A d \in Documents : documentStatus'[d] # "none" => documentStatus'[d] = StatusOf(d)
  BY <1>2, <1>3 DEF ReportInv
<1>8. batchReport' = {} /\ batchCompletion' = {}
  BY <1>1 DEF ReportInv
<1>9. ReportAddsUp'
  BY <1>8 DEF ReportAddsUp
<1> QED BY <1>1, <1>5, <1>6, <1>7, <1>8, <1>9 DEF ReportInv, ReportPhases

\* The report is written from lists nothing changes any more.
LEMMA ReportWritten ==
  ASSUME RunnerInv, ListsDistinct, ReportInv, WriteBatchReport
  PROVE  ReportInv'
<1>1. RunnerTypes /\ PublicationFits /\ SpansFit
  BY DEF RunnerInv, ExtractionFits
<1>2. phase = "report" /\ phase' = "batch_completion_status" /\ phase \in ReportPhases
  BY DEF WriteBatchReport, ReportPhases
<1>3. scheduledCount = Cardinality(AcceptedItems) + Cardinality(FailedItems)
  BY <1>2, InvAllRecorded DEF AllRequestsRecorded, ExtractionPhases
<1>4. /\ Cardinality(Entries(results)) = Cardinality(AcceptedItems)
      /\ Cardinality(Entries(failures)) = Cardinality(FailedItems)
  BY <1>1, EntriesCount DEF RunnerTypes, ListsDistinct, SpansFit, ResultFits, FailureFits,
                            AcceptedItems, FailedItems
<1>5. UNCHANGED <<results, failures, files, reported, documentStatus, batchCompletion>>
  BY DEF WriteBatchReport, extractionVars, publicationVars
<1>6. \A d \in Documents : documentStatus[d] = StatusOf(d)
  BY DEF ReportInv, WriteBatchReport
<1> DEFINE rec == [status           |-> BatchStatus,
                   graphsCompleted   |-> Cardinality(CompletedGraphs),
                   graphsFailed      |-> Cardinality(Graphs) - Cardinality(CompletedGraphs),
                   accepted          |-> Cardinality(Entries(results)),
                   failed            |-> Cardinality(Entries(failures)),
                   scheduledRequests |-> scheduledCount]
<1>8. batchReport' = {rec}
  BY DEF WriteBatchReport
<1>9. PICK report : /\ batchReport' = {report}
                    /\ report.status = BatchStatus
                    /\ report.graphsCompleted = Cardinality(CompletedGraphs)
                    /\ report.accepted = Cardinality(Entries(results))
                    /\ report.failed = Cardinality(Entries(failures))
                    /\ report.scheduledRequests = scheduledCount
  <2>1. /\ rec.status = BatchStatus
        /\ rec.graphsCompleted = Cardinality(CompletedGraphs)
        /\ rec.accepted = Cardinality(Entries(results))
        /\ rec.failed = Cardinality(Entries(failures))
        /\ rec.scheduledRequests = scheduledCount
    OBVIOUS
  <2> HIDE DEF rec
  <2> QED BY <1>8, <2>1
<1> DEFINE C == {g \in Graphs : "completion_status" \in files[g]}
           V == {g \in Graphs : Verdicts(g) = {"completion_status"}}
<1>10. CompletedGraphs' = CompletedGraphs /\ C' = C /\ V' = V
  BY <1>5 DEF CompletedGraphs, Verdicts
<1>11. /\ Cardinality(V) <= Cardinality(CompletedGraphs)
       /\ Cardinality(CompletedGraphs) <= Cardinality(C)
  <2>1. V \subseteq CompletedGraphs /\ CompletedGraphs \subseteq C /\ C \subseteq Graphs
    BY <1>2, CompletedMeans
  <2>2. IsFiniteSet(C) /\ IsFiniteSet(CompletedGraphs)
    BY <2>1, GraphsFinite, FS_Subset
  <2> QED BY <2>1, <2>2, FS_Subset
<1>12. BatchStatus' = BatchStatus /\ \A d \in Documents : StatusOf(d)' = StatusOf(d)
  BY <1>5, <1>10 DEF BatchStatus, StatusOf, AcceptedItems
<1>13. batchCompletion' = {}
  BY <1>2, <1>5 DEF ReportInv
<1>14. report.scheduledRequests = report.accepted + report.failed
  BY <1>3, <1>4, <1>9
<1>15. ASSUME NEW d \in Documents
       PROVE  \/ documentStatus'[d] = "passed"
              \/ /\ documentStatus'[d] = "failed"
                 /\ GraphOf[d] \notin CompletedGraphs' /\ report.status # "completed_fully"
  BY <1>2, <1>5, <1>6, <1>9, <1>10, StatusMeans
<1>16. /\ report.graphsCompleted >= Cardinality(V')
       /\ report.graphsCompleted <= Cardinality(C')
  <2>1. Cardinality(V) \in Nat /\ Cardinality(CompletedGraphs) \in Nat
    <3>1. V \subseteq Graphs /\ CompletedGraphs \subseteq Graphs
      BY DEF CompletedGraphs
    <3> QED BY <3>1, GraphsFinite, FS_Subset, FS_CardinalityType
  <2> QED BY <2>1, <1>9, <1>10, <1>11
<1>17. ReportAddsUp'
  BY <1>9, <1>13, <1>14, <1>15, <1>16 DEF ReportAddsUp
<1>18. \E r \in batchReport' : r.status = BatchStatus'
  BY <1>9, <1>12
<1>19. documentStatus' \in [Documents -> {"none", "passed", "failed"}]
  BY <1>5 DEF ReportInv
<1> HIDE DEF C, V
<1> QED BY <1>2, <1>5, <1>6, <1>12, <1>13, <1>17, <1>18, <1>19 DEF ReportInv, ReportPhases

\* The last file repeats the status of the report.
LEMMA CompletionWritten ==
  ASSUME RunnerInv, ReportInv, WriteBatchCompletion
  PROVE  ReportInv'
<1>1. /\ phase = "batch_completion_status" /\ phase' = "finished"
      /\ batchCompletion' = {BatchStatus}
      /\ UNCHANGED <<results, failures, files, reported, documentStatus, batchReport>>
  BY DEF WriteBatchCompletion, extractionVars, publicationVars
<1>2. \E report \in batchReport : report.status = BatchStatus
  BY <1>1 DEF ReportInv
<1>3. UNCHANGED <<AcceptedItems, CompletedGraphs, {g \in Graphs : Verdicts(g) = {"completion_status"}},
                  {g \in Graphs : "completion_status" \in files[g]}>>
  BY <1>1 DEF AcceptedItems, CompletedGraphs, Verdicts
<1>4. ReportAddsUp'
  BY <1>1, <1>2, <1>3 DEF ReportInv, ReportAddsUp
<1>5. \A d \in Documents : StatusOf(d)' = StatusOf(d)
  BY <1>3 DEF StatusOf
<1> QED BY <1>1, <1>4, <1>5 DEF ReportInv, ReportPhases

\* Once the loop over the graphs is over only the reports are written.
LEMMA LastSteps ==
  ASSUME RunnerInv, phase \in ReportPhases \cup {"crashed"}, Next
  PROVE  \/ WriteExtractionStatus \/ WriteBatchReport \/ WriteBatchCompletion
         \/ Crash \/ UNCHANGED vars
<1>1. ASSUME NEW item \in Items,
             Submit(item) \/ PopDone(item) \/ RecordAccepted(item) \/ RecordFailure(item)
      PROVE  FALSE
  BY <1>1 DEF Submit, PopDone, RecordAccepted, RecordFailure, ReportPhases
<1>2. ASSUME NEW item \in Items, WorkerStep(item)
      PROVE  FALSE
  <2>1. item \in active /\ phase # "crashed"
    BY <1>2 DEF WorkerStep, EndRequest
  <2>2. Finalizing
    BY <2>1 DEF Finalizing, ReportPhases, ExtractionPhases
  <2> QED BY <2>1, <2>2 DEF RunnerInv, ExtractionFits, FuturesFit
<1>3. CASE StopSubmitting \/ WaitFirstCompleted \/ LoopAgain
  BY <1>3 DEF StopSubmitting, WaitFirstCompleted, LoopAgain, ReportPhases
<1>4. CASE ReportIncomplete \/ BeginFinalize \/ Embed \/ PersistFactGraph \/ WriteDescription
  BY <1>4 DEF ReportIncomplete, BeginFinalize, Embed, PersistFactGraph, WriteDescription,
              ReportPhases
<1>5. CASE \/ \E status \in {"passed", "failed"} : Import(status)
           \/ WriteParity \/ WriteCompletion \/ RecordCompleted \/ AllGraphsVisited
  BY <1>5 DEF Import, WriteParity, WriteCompletion, RecordCompleted, AllGraphsVisited,
              ReportPhases
<1>6. CASE FinalizeRaises
  BY <1>6 DEF FinalizeRaises, FinalizePhases, ReportPhases
<1> QED BY <1>1, <1>2, <1>3, <1>4, <1>5, <1>6 DEF Next, MainStep, Stopped

LEMMA ReportStays ==
  ASSUME RunnerInv, ReportInv, [Next]_vars,
         ~WriteExtractionStatus, ~WriteBatchReport, ~WriteBatchCompletion
  PROVE  ReportInv'
<1>1. CASE phase \notin ReportPhases \cup {"crashed"}
  <2>1. /\ UNCHANGED <<documentStatus, batchReport, batchCompletion>>
        /\ phase' # "batch_completion_status"
    <3>1. ASSUME NEW item \in Items,
                 Submit(item) \/ PopDone(item) \/ RecordAccepted(item) \/ RecordFailure(item) \/ WorkerStep(item)
          PROVE  UNCHANGED <<documentStatus, batchReport, batchCompletion, phase>>
      BY <3>1 DEF Submit, PopDone, RecordAccepted, RecordFailure, WorkerStep, EndRequest, batchVars
    <3>2. CASE StopSubmitting \/ WaitFirstCompleted \/ LoopAgain \/ BeginFinalize \/ Embed \/ PersistFactGraph
      BY <3>2 DEF StopSubmitting, AfterSubmitting, WaitFirstCompleted, LoopAgain, BeginFinalize,
                  Embed, PersistFactGraph, batchVars
    <3>3. CASE ReportIncomplete \/ WriteDescription \/ WriteParity \/ WriteCompletion \/ RecordCompleted
      BY <3>3 DEF ReportIncomplete, AfterIncomplete, WriteDescription, WriteParity, AfterParity,
                  WriteCompletion, RecordCompleted, batchVars
    <3>4. CASE FinalizeRaises \/ AllGraphsVisited \/ \E status \in {"passed", "failed"} : Import(status)
      BY <3>4 DEF FinalizeRaises, AfterRaise, Import, AllGraphsVisited, batchVars
    <3>5. CASE Crash \/ Stopped \/ UNCHANGED vars
      BY <1>1, <3>5 DEF Crash, Stopped, vars, batchVars, ReportPhases
    <3> QED BY <1>1, <3>1, <3>2, <3>3, <3>4, <3>5 DEF Next, MainStep, ReportPhases
  <2>2. /\ \A d \in Documents : documentStatus[d] = "none"
        /\ batchReport = {} /\ batchCompletion = {}
    BY <1>1 DEF ReportInv, ReportPhases
  <2>3. ReportAddsUp'
    BY <2>1, <2>2 DEF ReportAddsUp
  <2> QED BY <2>1, <2>2, <2>3 DEF ReportInv
<1>2. CASE phase \in ReportPhases \cup {"crashed"}
  <2>1. /\ UNCHANGED <<results, files, reported, documentStatus, batchReport, batchCompletion>>
        /\ phase' \in {phase, "crashed"}
    BY <1>2, LastSteps DEF Crash, vars, extractionVars, publicationVars, batchVars
  <2>2. UNCHANGED <<AcceptedItems, CompletedGraphs, {g \in Graphs : Verdicts(g) = {"completion_status"}},
                    {g \in Graphs : "completion_status" \in files[g]}>>
    BY <2>1 DEF AcceptedItems, CompletedGraphs, Verdicts
  <2>3. BatchStatus' = BatchStatus /\ \A d \in Documents : StatusOf(d)' = StatusOf(d)
    BY <2>2 DEF BatchStatus, StatusOf
  <2>4. ReportAddsUp'
    BY <2>1, <2>2 DEF ReportInv, ReportAddsUp
  <2> QED BY <1>2, <2>1, <2>3, <2>4 DEF ReportInv, ReportPhases
<1> QED BY <1>1, <1>2

LEMMA ReportsInit == Init => ListsDistinct /\ PublishedInv /\ ReportInv
<1> SUFFICES ASSUME Init PROVE ListsDistinct /\ PublishedInv /\ ReportInv
  OBVIOUS
<1>1. ListsDistinct
  BY DEF Init, ListsDistinct, NoneTwice
<1>2. PublishedInv
  BY EmptySeq DEF Init, PublishedInv, PublishedInDocumentOrder
<1>3. ReportInv
  BY DEF Init, ReportInv, ReportAddsUp
<1> QED BY <1>1, <1>2, <1>3

LEMMA ExactFromInv ==
  ASSUME RunnerInv, PublishedInv, ReportInv
  PROVE  ReportsExact
<1>1. scheduledCount \in Nat
  BY StartedFinite, FS_CardinalityType DEF RunnerInv, ExtractionFits, CountFits
<1>2. TypeOK
  BY <1>1 DEF TypeOK, RunnerInv, RunnerTypes, SchedulerInv, PublishedInv, ReportInv
<1> QED BY <1>2 DEF ReportsExact, PublishedInv, ReportInv

\* What a graph and the batch report say is exact, whatever the order in which
\* requests ended: a persisted graph lists all its spans in document order, and
\* the counts of the report add up (batch_runner.py:92, 289-333).
THEOREM ReportsAlwaysExact == Spec => []ReportsExact
<1> DEFINE Inv == RunnerInv /\ ListsDistinct /\ PublishedInv /\ ReportInv
<1>1. Init => Inv
  BY RunnerInitInv, ReportsInit
<1>2. Inv /\ [Next]_vars => Inv'
  BY RunnerStepInv, ListsStep, PublishedStep, StatusWritten, ReportWritten, CompletionWritten,
     ReportStays
<1>3. Inv => ReportsExact
  BY ExactFromInv
<1> QED BY <1>1, <1>2, <1>3, PTL DEF Spec
=============================================================================
