--------------------------- MODULE SpanExtraction ---------------------------
(***************************************************************************)
(* _extract_span_units (src/runtime/production_runner.py): every span unit *)
(* is a task of a thread pool; its worker writes the request, records the  *)
(* attempt, posts it, and checks the answer stage by stage; the main       *)
(* thread collects the futures as they end and writes either the results   *)
(* or a terminal failure.                                                  *)
(*                                                                         *)
(* All workers share one accounting object.  Each change to it is made     *)
(* under a lock together with rewriting model_call_attempts.json.  Such a  *)
(* critical section is two steps here: the change with as_dict(), which    *)
(* leaves the worker holding a snapshot, and the write of that snapshot.   *)
(***************************************************************************)
EXTENDS ModelCallBudget, FiniteSets, SequencesExt

CONSTANTS
  UnitCount,  \* the number of span units of the source
  MaxWorkers  \* extraction.max_concurrency

ASSUME SpanAssumption == UnitCount \in Nat \ {0} /\ MaxWorkers \in Nat \ {0}

\* Units are numbered in source order, which is the order of submission.
Units == 1 .. UnitCount

\* The main thread, as a holder of the lock.
Main == 0
Holders == Units \cup {Main}

VARIABLES
  phase,     \* where the main thread is
  stage,     \* what each unit's worker does next
  budget,    \* the accounting object
  snapshot,  \* the payload each thread is about to save under the lock, if any
  saved,     \* model_call_attempts.json
  posted,    \* units whose request was handed to the HTTP client
  completed, \* results in completion order
  failures,  \* failed units in completion order
  results,   \* span_extraction_results.json: none or one sequence
  report     \* terminal_failure.json: none or one sequence of units

ledgerVars == <<budget, snapshot, saved>>
mainVars == <<phase, completed, failures, results, report>>
vars == <<stage, posted, ledgerVars, mainVars>>

\* The checks of an answer, and the category of a failed one.
Checks == {"provider", "tool", "schema", "evidence"}
RejectionAt == [provider |-> "provider_response_rejected", tool |-> "tool_contract_failed",
                schema |-> "schema_failed", evidence |-> "evidence_failed"]
Running == {"request", "attempt", "post", "sent", "answered"} \cup Checks
Stages == {"queued", "returned", "raised"} \cup Running
Phases == {"collect", "persist", "aggregate", "returned", "failed", "crashed"}

Init ==
  /\ phase = "collect"
  /\ stage = [u \in Units |-> "queued"]
  /\ budget = [u \in Units |-> NewUnit]
  /\ snapshot = [h \in Holders |-> {}]
  /\ saved = [u \in Units |-> NewUnit]
  /\ posted = {}
  /\ completed = <<>> /\ failures = <<>>
  /\ results = {} /\ report = {}
-----------------------------------------------------------------------------
(* The accounting object under its lock.                                   *)

\* Mutant: the lock is not taken.
LockFree_Never == TRUE

LockFree == \A h \in Holders : snapshot[h] = {}

\* The first half of `with lock:`: change the object, take its as_dict().
Record(h, newBudget) ==
  /\ LockFree
  /\ budget' = newBudget
  /\ snapshot' = [snapshot EXCEPT ![h] = {newBudget}]
  /\ UNCHANGED saved

Goto(u, s) == stage' = [stage EXCEPT ![u] = s]

RecordUnit(u, record) == Record(u, [budget EXCEPT ![u] = record])

\* Recording an outcome: _terminal raises if the unit already has one, and the
\* lock is left with the counters changed and nothing saved.
RecordOutcome(u, record, next) ==
  IF budget[u].terminal_outcome = "none"
  THEN RecordUnit(u, record) /\ Goto(u, next)
  ELSE /\ LockFree
       /\ budget' = [budget EXCEPT ![u] = record]
       /\ Goto(u, "raised")
       /\ UNCHANGED <<snapshot, saved>>

\* The second half: the file is replaced, or the write raises.
Save(h) ==
  /\ snapshot[h] # {}
  /\ saved' \in snapshot[h]
  /\ snapshot' = [snapshot EXCEPT ![h] = {}]
  /\ UNCHANGED budget

SaveRaises(h) ==
  /\ snapshot[h] # {}
  /\ snapshot' = [snapshot EXCEPT ![h] = {}]
  /\ UNCHANGED <<budget, saved>>
-----------------------------------------------------------------------------
(* A worker.                                                               *)

\* The worker of a unit is at a stage and not inside a critical section.
At(u, s) == phase # "crashed" /\ stage[u] = s /\ snapshot[u] = {}
Ended(u) == stage[u] \in {"returned", "raised"} /\ snapshot[u] = {}
Busy(u) == stage[u] # "queued" /\ ~Ended(u)

\* The pool takes tasks in submission order.
Start(u) ==
  /\ At(u, "queued")
  /\ \A v \in Units : v < u => stage[v] # "queued"
  /\ Cardinality({v \in Units : Busy(v)}) < MaxWorkers
  /\ Goto(u, "request")
  /\ UNCHANGED <<posted, ledgerVars, mainVars>>

WriteRequest(u) ==
  /\ At(u, "request") /\ Goto(u, "attempt")
  /\ UNCHANGED <<posted, ledgerVars, mainVars>>

RecordAttempt(u) ==
  /\ At(u, "attempt") /\ Goto(u, "post")
  /\ RecordUnit(u, RecordHttpAttempt(budget[u]))
  /\ UNCHANGED <<posted, mainVars>>

\* Mutant: the request leaves before the attempt is recorded.
ReadyToPost_Early(u) == At(u, "attempt") \/ At(u, "post")

ReadyToPost(u) == At(u, "post")

Post(u) ==
  /\ ReadyToPost(u) /\ Goto(u, "sent")
  /\ posted' = posted \cup {u}
  /\ UNCHANGED <<ledgerVars, mainVars>>

\* An httpx.HTTPError: a timeout, a broken connection or an error status.
TransportFails(u) ==
  /\ At(u, "sent")
  /\ RecordOutcome(u, RecordTransportFailure(budget[u]), "raised")
  /\ UNCHANGED <<posted, mainVars>>

\* An answer with a good status arrives and its artifact is written.
Answer(u) ==
  /\ At(u, "sent") /\ Goto(u, "answered")
  /\ UNCHANGED <<posted, ledgerVars, mainVars>>

RecordDelivery(u) ==
  /\ At(u, "answered") /\ Goto(u, "provider")
  /\ RecordUnit(u, RecordTransportSuccess(budget[u]))
  /\ UNCHANGED <<posted, mainVars>>

\* Mutant: the handler of a rejected answer does not raise again.
AfterRejection_Return == "returned"

AfterRejection == "raised"

\* A check fails in the way its handler expects.
Reject(u, check) ==
  /\ At(u, check)
  /\ RecordOutcome(u, RecordRejection(budget[u], RejectionAt[check]), AfterRejection)
  /\ UNCHANGED <<posted, mainVars>>

\* A usable choice; then one tool call with parsable arguments.
PassUnrecorded(u) ==
  /\ \/ At(u, "provider") /\ Goto(u, "tool")
     \/ At(u, "tool") /\ Goto(u, "schema")
  /\ UNCHANGED <<posted, ledgerVars, mainVars>>

PassSchema(u) ==
  /\ At(u, "schema") /\ Goto(u, "evidence")
  /\ RecordUnit(u, RecordSchemaValid(budget[u]))
  /\ UNCHANGED <<posted, mainVars>>

Accept(u) ==
  /\ At(u, "evidence")
  /\ RecordOutcome(u, RecordAccepted(RecordEvidenceValid(budget[u])), "returned")
  /\ UNCHANGED <<posted, mainVars>>

SaveByWorker(u) ==
  /\ phase # "crashed" /\ Save(u)
  /\ UNCHANGED <<stage, posted, mainVars>>

SaveByWorkerRaises(u) ==
  /\ phase # "crashed" /\ SaveRaises(u) /\ Goto(u, "raised")
  /\ UNCHANGED <<posted, mainVars>>

\* Whatever no handler expects: an artifact that cannot be written, a missing
\* environment variable, an answer that is JSON of another shape.
Abort(u) ==
  /\ \E s \in Running : At(u, s)
  /\ Goto(u, "raised")
  /\ UNCHANGED <<posted, ledgerVars, mainVars>>

Progress(u) ==
  \/ Start(u) \/ WriteRequest(u) \/ RecordAttempt(u) \/ Post(u)
  \/ TransportFails(u) \/ Answer(u) \/ RecordDelivery(u)
  \/ \E check \in Checks : Reject(u, check)
  \/ PassUnrecorded(u) \/ PassSchema(u) \/ Accept(u)
  \/ SaveByWorker(u) \/ SaveByWorkerRaises(u)

Worker(u) == Progress(u) \/ Abort(u)
-----------------------------------------------------------------------------
(* The main thread.                                                        *)

Collected == ToSet(completed) \cup ToSet(failures)

\* as_completed yields ended futures in the order they end or are found.
Collect(u) ==
  /\ phase = "collect"
  /\ Ended(u) /\ u \notin Collected
  /\ completed' = IF stage[u] = "returned" THEN Append(completed, u) ELSE completed
  /\ failures' = IF stage[u] = "raised" THEN Append(failures, u) ELSE failures
  /\ UNCHANGED <<phase, stage, posted, ledgerVars, results, report>>

\* Mutant: the main thread waits for a result of every unit.
AllCollected_Completed == Units \subseteq ToSet(completed)

AllCollected == Units \subseteq Collected

ReportFailure ==
  /\ phase = "collect" /\ AllCollected
  /\ failures # <<>>
  /\ report' = {failures}
  /\ phase' = "failed"
  /\ UNCHANGED <<stage, posted, ledgerVars, completed, failures, results>>

\* completed.sort(key=lambda item: item[0]), which is stable: an item goes as
\* far back as there are items before it.
InOrder ==
  LET before(k) == {j \in DOMAIN completed :
                      \/ completed[j] < completed[k]
                      \/ completed[j] = completed[k] /\ j < k}
  IN [i \in DOMAIN completed |->
        completed[CHOOSE k \in DOMAIN completed : Cardinality(before(k)) = i - 1]]

WriteResults ==
  /\ phase = "collect" /\ AllCollected
  /\ failures = <<>>
  /\ results' = {InOrder}
  /\ phase' = "persist"
  /\ UNCHANGED <<stage, posted, ledgerVars, completed, failures, report>>

RecordPersisted ==
  /\ phase = "persist" /\ snapshot[Main] = {}
  /\ Record(Main, [u \in Units |-> RecordPersistedSpan(budget[u])])
  /\ UNCHANGED <<stage, posted, mainVars>>

SaveByMain ==
  /\ phase = "persist" /\ Save(Main)
  /\ phase' = "aggregate"
  /\ UNCHANGED <<stage, posted, completed, failures, results, report>>

\* aggregate_namespaced_results, and the return to the caller.
Aggregate ==
  /\ phase = "aggregate"
  /\ phase' = "returned"
  /\ UNCHANGED <<stage, posted, ledgerVars, completed, failures, results, report>>

\* What the main thread writes and validates itself is not guarded.
MainRaises ==
  /\ \/ phase = "collect" /\ AllCollected /\ UNCHANGED ledgerVars
     \/ phase = "persist" /\ SaveRaises(Main)
     \/ phase = "aggregate" /\ UNCHANGED ledgerVars
  /\ phase' = "failed"
  /\ UNCHANGED <<stage, posted, completed, failures, results, report>>

\* The process dies: the files stay as they are.
Crash ==
  /\ phase \in {"collect", "persist", "aggregate"}
  /\ phase' = "crashed"
  /\ UNCHANGED <<stage, posted, ledgerVars, completed, failures, results, report>>

Stopped == phase \in {"returned", "failed", "crashed"} /\ UNCHANGED vars

MainStep ==
  \/ (\E u \in Units : Collect(u)) \/ ReportFailure \/ WriteResults
  \/ RecordPersisted \/ SaveByMain \/ Aggregate \/ MainRaises

Next == MainStep \/ (\E u \in Units : Worker(u)) \/ Crash \/ Stopped

\* Threads run, a critical section is short, and the HTTP client bounds each
\* call by its timeout.  That a worker aborts is never relied upon.
Fairness == WF_vars(MainStep) /\ \A u \in Units : WF_vars(Progress(u))

Spec == Init /\ [][Next]_vars
FairSpec == Spec /\ Fairness
-----------------------------------------------------------------------------
SpanTypeOK ==
  /\ phase \in Phases
  /\ stage \in [Units -> Stages]
  /\ budget \in [Units -> UnitBudget]
  /\ saved \in [Units -> UnitBudget]
  /\ \A h \in Holders : snapshot[h] = {} \/ snapshot[h] = {budget}
  /\ posted \subseteq Units
  /\ completed \in Seq(Units) /\ failures \in Seq(Units)
  /\ results \subseteq Seq(Units) /\ report \subseteq Seq(Units)

\* A unit with a terminal outcome balances: one HTTP attempt, one transport
\* result, and one acceptance, rejection or transport failure, the one its
\* outcome names; _terminal never meets a unit that already has an outcome
\* (model_call_budget.py:43-79, 104-111).
OutcomesBalance ==
  \A u \in Units : LET b == budget[u] IN
    IF b.terminal_outcome = "none"
    THEN b.accepted_extractions + b.transport_failures + TerminalRejections(b) = 0
    ELSE /\ Balanced(b)
         /\ b.primary_http_attempts = 1
         /\ b.terminal_outcome \in Rejections => b.rejections[b.terminal_outcome] = 1
         /\ b.terminal_outcome = "accepted" => b.accepted_extractions = 1
         /\ b.terminal_outcome = "transport_failed" => b.transport_failures = 1

\* An extraction that returns leaves an accounting that assert_valid accepts,
\* so the run that follows never fails on its own bookkeeping after the graph
\* was persisted (production_runner.py:375, model_call_budget.py:97-123).
ReturnedRunValidates ==
  phase = "returned" => \A u \in Units : AssertValid(budget[u]) /\ saved[u] = budget[u]

\* A request that may have reached the provider is in model_call_attempts.json,
\* even if the process dies at any later moment (production_runner.py:113-117).
RequestsAreOnDisk == \A u \in posted : saved[u].primary_http_attempts = 1

\* Snapshots are written in the order they were taken: no count in the file is
\* ever lowered, and no outcome in it revised, by a worker that was overtaken
\* (production_runner.py:113-115 and the other critical sections).
SavedNeverRegresses ==
  [][\A u \in Units :
       /\ saved[u].primary_http_attempts <= saved'[u].primary_http_attempts
       /\ saved[u].transport_successes <= saved'[u].transport_successes
       /\ saved[u].terminal_outcome \in {"none", saved'[u].terminal_outcome}]_vars

\* span_extraction_results.json holds every unit, in source order, whatever
\* order the futures ended in; it never stands next to a terminal failure, and
\* the accounting file, read after a crash, never claims a unit persisted
\* without it (production_runner.py:262-279).
ResultsWholeAndOrdered ==
  /\ results \subseteq {[u \in Units |-> u]}
  /\ results = {} \/ report = {}
  /\ \A u \in Units : saved[u].persisted_span_units > 0 => results # {}

\* The terminal failure names each unit that failed, once, and no other, and is
\* written when no worker is left running (production_runner.py:251-269).
FailureReportExact ==
  \A failed \in report :
    /\ \A u \in Units : Ended(u)
    /\ ToSet(failed) = {u \in Units : stage[u] = "raised"}
    /\ Len(failed) = Cardinality(ToSet(failed))

\* Unless the process dies, the extraction returns or fails: no worker waits
\* for the lock for ever, and the main thread waits for no dead future.
ExtractionEnds == <>(phase \in {"returned", "failed", "crashed"})

\* README.md:51: "Every primary attempt ends in exactly one recorded terminal
\* category".
AttemptsEndInOneCategory ==
  phase \in {"returned", "failed"} =>
    \A u \in posted : budget[u].terminal_outcome \in TerminalOutcomes

\* The state invariant of an extraction: the counts of every unit balance, and
\* the two result files say what happened, completely and in order.
ExtractionInv == SpanTypeOK /\ OutcomesBalance /\ ResultsWholeAndOrdered /\ FailureReportExact
-----------------------------------------------------------------------------
\* What the accounting object says of a record's unit.
Status(b) ==
  IF b.persisted_span_units = 1 THEN "persisted"
  ELSE IF b.terminal_outcome # "none" THEN b.terminal_outcome
  ELSE IF b.primary_http_attempts = 1 THEN "attempted" ELSE "unused"

Ledger == INSTANCE AttemptLedger WITH
  Ids        <- Units,
  Categories <- Rejections \cup {"transport_failed"},
  status     <- [u \in Units |-> Status(budget[u])]

\* The accounting of the worker pool implements the promise of AttemptLedger.
ImplementsLedger == Ledger!Spec
=============================================================================
