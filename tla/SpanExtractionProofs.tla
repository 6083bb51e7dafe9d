------------------------ MODULE SpanExtractionProofs ------------------------
(***************************************************************************)
(* The accounting of the worker pool, for any number of units and workers. *)
(* The inductive invariant gives the exact record a unit has at each stage *)
(* of its worker, says that one thread at a time is between changing the   *)
(* accounting object and saving it, and that what is on disk is an earlier *)
(* state of what is in memory.                                             *)
(***************************************************************************)
EXTENDS SpanExtraction, SequenceTheorems, FiniteSetTheorems, TLAPS

\* The records a unit passes through.
Attempted == RecordHttpAttempt(NewUnit)
Failed == RecordTransportFailure(Attempted)
Delivered == RecordTransportSuccess(Attempted)
Valid == RecordSchemaValid(Delivered)
Accepted == RecordAccepted(RecordEvidenceValid(Valid))
Persisted == RecordPersistedSpan(Accepted)
Rejected(check) ==
  RecordRejection(IF check = "evidence" THEN Valid ELSE Delivered, RejectionAt[check])
Made == {Attempted, Failed, Delivered, Valid, Accepted, Persisted}
        \cup {Rejected(check) : check \in Checks}
Ledgers == {NewUnit} \cup Made

\* What a unit's record may be while its worker is at a stage.
LedgerAt(s) ==
  CASE s \in {"queued", "request", "attempt"}  -> {NewUnit}
    [] s \in {"post", "sent", "answered"}      -> {Attempted}
    [] s \in {"provider", "tool", "schema"}    -> {Delivered}
    [] s = "evidence"                          -> {Valid}
    [] s = "returned"                          -> {Accepted, Persisted}
    [] OTHER                                   -> Ledgers \ {Persisted}

\* b may be an earlier record of the unit whose record is c.
Earlier(b, c) ==
  /\ b.primary_http_attempts <= c.primary_http_attempts
  /\ b.transport_successes <= c.transport_successes
  /\ b.terminal_outcome \in {"none", c.terminal_outcome}

Typed ==
  /\ phase \in Phases
  /\ stage \in [Units -> Stages]
  /\ budget \in [Units -> Ledgers]
  /\ saved \in [Units -> Ledgers]
  /\ snapshot \in [Holders -> SUBSET {budget}]
  /\ posted \subseteq Units
  /\ completed \in Seq(Units) /\ failures \in Seq(Units)

OneHolder == \A g, h \in Holders : snapshot[g] # {} /\ snapshot[h] # {} => g = h

MainHolds == snapshot[Main] # {} => phase \in {"persist", "crashed"}

LedgerMatchesStage == \A u \in Units : budget[u] \in LedgerAt(stage[u])

CollectedEnded ==
  /\ \A u \in ToSet(completed) : stage[u] = "returned" /\ snapshot[u] = {}
  /\ \A u \in ToSet(failures) : stage[u] = "raised" /\ snapshot[u] = {}
  /\ phase \notin {"collect", "crashed"} => Units \subseteq Collected
  /\ phase \in {"persist", "aggregate", "returned"} => Units \subseteq ToSet(completed)

PersistedLast ==
  /\ phase = "collect" => \A u \in Units : budget[u] # Persisted
  /\ phase = "persist" /\ snapshot[Main] = {} => \A u \in Units : budget[u] = Accepted
  /\ phase = "persist" /\ snapshot[Main] # {} => \A u \in Units : budget[u] = Persisted
  /\ phase \in {"aggregate", "returned"} =>
       saved = budget /\ \A u \in Units : budget[u] = Persisted

SavedIsEarlier == \A u \in Units : Earlier(saved[u], budget[u])

PostedIsSaved ==
  \A u \in Units :
    /\ u \in posted =>
         budget[u].primary_http_attempts = 1 /\ saved[u].primary_http_attempts = 1
    /\ stage[u] = "post" /\ snapshot[u] = {} => saved[u].primary_http_attempts = 1

SpanInv ==
  /\ Typed /\ OneHolder /\ MainHolds
  /\ LedgerMatchesStage /\ CollectedEnded /\ PersistedLast
  /\ SavedIsEarlier /\ PostedIsSaved
-----------------------------------------------------------------------------
(* The records.                                                            *)

\* Only these records are recorded over, and none of them has an outcome.
LEMMA OpenLedgers ==
  /\ NewUnit.terminal_outcome = "none" /\ Attempted.terminal_outcome = "none"
  /\ Delivered.terminal_outcome = "none" /\ Valid.terminal_outcome = "none"
  BY DEF NewUnit, Attempted, Delivered, Valid, RecordHttpAttempt, RecordTransportSuccess,
         RecordSchemaValid

\* Every record but the first has its attempt.
LEMMA OneAttempt ==
  NewUnit.primary_http_attempts = 0 /\ \A b \in Made : b.primary_http_attempts = 1
<1>1. NewUnit.primary_http_attempts = 0
  BY DEF NewUnit
<1>2. /\ Attempted.primary_http_attempts = 1 /\ Failed.primary_http_attempts = 1
      /\ Delivered.primary_http_attempts = 1 /\ Valid.primary_http_attempts = 1
      /\ Accepted.primary_http_attempts = 1 /\ Persisted.primary_http_attempts = 1
  BY DEF NewUnit, Attempted, Failed, Delivered, Valid, Accepted, Persisted,
         RecordHttpAttempt, RecordTransportFailure, RecordTransportSuccess, RecordSchemaValid,
         RecordAccepted, RecordEvidenceValid, RecordPersistedSpan, Terminal
<1>3. \A check \in Checks : Rejected(check).primary_http_attempts = 1
  BY DEF NewUnit, Attempted, Delivered, Valid, Rejected, RecordRejection,
         RecordHttpAttempt, RecordTransportSuccess, RecordSchemaValid, Terminal
<1> QED
  BY <1>1, <1>2, <1>3 DEF Made

\* Each recording leads to a later record.
LEMMA LedgersGrow ==
  /\ Earlier(NewUnit, NewUnit)
  /\ Earlier(NewUnit, Attempted)
  /\ Earlier(Attempted, Failed) /\ Earlier(Attempted, Delivered)
  /\ Earlier(Delivered, Valid) /\ Earlier(Valid, Accepted) /\ Earlier(Accepted, Persisted)
  /\ \A check \in Checks :
       Earlier(IF check = "evidence" THEN Valid ELSE Delivered, Rejected(check))
<1>1. /\ Earlier(NewUnit, NewUnit)
      /\ Earlier(NewUnit, Attempted)
      /\ Earlier(Attempted, Failed) /\ Earlier(Attempted, Delivered)
      /\ Earlier(Delivered, Valid) /\ Earlier(Valid, Accepted) /\ Earlier(Accepted, Persisted)
  BY DEF Earlier, NewUnit, Attempted, Failed, Delivered, Valid, Accepted, Persisted,
         RecordHttpAttempt, RecordTransportFailure, RecordTransportSuccess, RecordSchemaValid,
         RecordAccepted, RecordEvidenceValid, RecordPersistedSpan, Terminal
<1>2. \A check \in Checks :
       Earlier(IF check = "evidence" THEN Valid ELSE Delivered, Rejected(check))
  BY DEF Earlier, NewUnit, Attempted, Delivered, Valid, Rejected, RecordRejection,
         RecordHttpAttempt, RecordTransportSuccess, RecordSchemaValid, Terminal
<1> QED
  BY <1>1, <1>2

\* Only the main thread's record says persisted.
LEMMA PersistedCount ==
  /\ Persisted.persisted_span_units = 1
  /\ \A b \in {NewUnit, Attempted, Failed, Delivered, Valid, Accepted} : b.persisted_span_units = 0
  /\ \A check \in Checks : Rejected(check).persisted_span_units = 0
<1>1. /\ Persisted.persisted_span_units = 1
      /\ NewUnit.persisted_span_units = 0 /\ Attempted.persisted_span_units = 0
      /\ Failed.persisted_span_units = 0 /\ Delivered.persisted_span_units = 0
      /\ Valid.persisted_span_units = 0 /\ Accepted.persisted_span_units = 0
  BY DEF NewUnit, Attempted, Failed, Delivered, Valid, Accepted, Persisted,
         RecordHttpAttempt, RecordTransportFailure, RecordTransportSuccess, RecordSchemaValid,
         RecordAccepted, RecordEvidenceValid, RecordPersistedSpan, Terminal
<1>2. \A check \in Checks : Rejected(check).persisted_span_units = 0
  BY DEF NewUnit, Attempted, Delivered, Valid, Rejected, RecordRejection,
         RecordHttpAttempt, RecordTransportSuccess, RecordSchemaValid, Terminal
<1> QED
  BY <1>1, <1>2

LEMMA PersistedIsDistinct ==
  /\ Persisted \notin {NewUnit, Attempted, Failed, Delivered, Valid, Accepted}
  /\ \A check \in Checks : Rejected(check) # Persisted
BY PersistedCount

\* The counts that are compared are numbers.
LEMMA LedgersCount ==
  \A b \in Ledgers : b.primary_http_attempts \in Nat /\ b.transport_successes \in Nat
<1>1. /\ NewUnit.transport_successes \in Nat /\ Attempted.transport_successes \in Nat
      /\ Failed.transport_successes \in Nat /\ Delivered.transport_successes \in Nat
      /\ Valid.transport_successes \in Nat /\ Accepted.transport_successes \in Nat
      /\ Persisted.transport_successes \in Nat
  BY DEF NewUnit, Attempted, Failed, Delivered, Valid, Accepted, Persisted,
         RecordHttpAttempt, RecordTransportFailure, RecordTransportSuccess, RecordSchemaValid,
         RecordAccepted, RecordEvidenceValid, RecordPersistedSpan, Terminal
<1>2. \A check \in Checks : Rejected(check).transport_successes \in Nat
  BY DEF NewUnit, Attempted, Delivered, Valid, Rejected, RecordRejection,
         RecordHttpAttempt, RecordTransportSuccess, RecordSchemaValid, Terminal
<1>3. \A b \in Made : b.transport_successes \in Nat
  BY <1>1, <1>2 DEF Made
<1> QED
  BY <1>1, <1>3, OneAttempt DEF Ledgers

LEMMA EarlierReflexive ==
  ASSUME NEW b \in Ledgers
  PROVE  Earlier(b, b)
  BY LedgersCount DEF Earlier

LEMMA EarlierTransitive ==
  ASSUME NEW b \in Ledgers, NEW c \in Ledgers, NEW d \in Ledgers,
         Earlier(b, c), Earlier(c, d)
  PROVE  Earlier(b, d)
  BY LedgersCount DEF Earlier

\* A record with an outcome balances, the final one is accepted by assert_valid.
LEMMA LedgersBalance ==
  /\ AssertValid(Persisted)
  /\ Balanced(Failed) /\ Balanced(Accepted)
  /\ \A check \in Checks : Balanced(Rejected(check))
<1>1. Balanced(Failed)
  BY DEF Balanced, TerminalRejections, Rejections, NewUnit, Attempted, Failed,
         RecordHttpAttempt, RecordTransportFailure, Terminal
<1>2. TerminalRejections(Valid) = 0
  BY DEF TerminalRejections, Rejections, NewUnit, Attempted, Delivered, Valid,
         RecordHttpAttempt, RecordTransportSuccess, RecordSchemaValid
<1>3. /\ Accepted.rejections = Valid.rejections
      /\ Persisted.rejections = Valid.rejections
  BY DEF NewUnit, Attempted, Delivered, Valid, Accepted, Persisted,
         RecordHttpAttempt, RecordTransportSuccess, RecordSchemaValid,
         RecordAccepted, RecordEvidenceValid, RecordPersistedSpan, Terminal
<1>4. TerminalRejections(Accepted) = 0 /\ TerminalRejections(Persisted) = 0
  BY <1>2, <1>3 DEF TerminalRejections
<1>5. Balanced(Accepted)
  BY <1>4 DEF Balanced, NewUnit, Attempted, Delivered, Valid, Accepted,
         RecordHttpAttempt, RecordTransportSuccess, RecordSchemaValid,
         RecordAccepted, RecordEvidenceValid, Terminal
<1>6. /\ Persisted.primary_http_attempts = 1
      /\ Persisted.primary_successful_calls = 1
      /\ Persisted.accepted_extractions = 1
      /\ Persisted.terminal_outcome = "accepted"
  BY DEF NewUnit, Attempted, Delivered, Valid, Accepted, Persisted,
         RecordHttpAttempt, RecordTransportSuccess, RecordSchemaValid,
         RecordAccepted, RecordEvidenceValid, RecordPersistedSpan, Terminal
<1>7. /\ Persisted.primary_failed_attempts = 0
      /\ Persisted.transport_failures = 0
      /\ Persisted.transport_successes = 1
  BY DEF NewUnit, Attempted, Delivered, Valid, Accepted, Persisted,
         RecordHttpAttempt, RecordTransportSuccess, RecordSchemaValid,
         RecordAccepted, RecordEvidenceValid, RecordPersistedSpan, Terminal
<1>8. /\ Persisted.schema_valid_extractions = 1
      /\ Persisted.evidence_valid_extractions = 1
      /\ Persisted.persisted_span_units = 1
  BY DEF NewUnit, Attempted, Delivered, Valid, Accepted, Persisted,
         RecordHttpAttempt, RecordTransportSuccess, RecordSchemaValid,
         RecordAccepted, RecordEvidenceValid, RecordPersistedSpan, Terminal
<1>9. AssertValid(Persisted)
  BY <1>4, <1>6, <1>7, <1>8 DEF AssertValid, Balanced
<1>10. \A check \in Checks : Balanced(Rejected(check))
  BY DEF Balanced, TerminalRejections, Rejections, Checks, RejectionAt,
         NewUnit, Attempted, Delivered, Valid, Rejected, RecordRejection,
         RecordHttpAttempt, RecordTransportSuccess, RecordSchemaValid, Terminal
<1> QED
  BY <1>1, <1>10, <1>5, <1>9
-----------------------------------------------------------------------------
(* The steps of a worker.                                                  *)

LEMMA InitEstablishesInv == Init => SpanInv
<1> SUFFICES ASSUME Init PROVE SpanInv
  OBVIOUS
<1>1. Typed
  BY SeqDef DEF Init, Typed, Phases, Stages, Ledgers
<1>2. LedgerMatchesStage
  BY DEF Init, LedgerMatchesStage, LedgerAt
<1>3. OneHolder /\ MainHolds
  BY DEF Init, OneHolder, MainHolds, Holders
<1>4. CollectedEnded
  BY DEF Init, CollectedEnded, ToSet
<1>5. PersistedLast
  BY PersistedIsDistinct DEF Init, PersistedLast
<1>6. SavedIsEarlier /\ PostedIsSaved
  BY LedgersGrow DEF Init, SavedIsEarlier, PostedIsSaved
<1> QED
  BY <1>1, <1>2, <1>3, <1>4, <1>5, <1>6 DEF SpanInv

\* A worker that has not ended is still waited for.
LEMMA RunningMeansCollecting ==
  ASSUME SpanInv, NEW u \in Units, phase # "crashed",
         stage[u] \in Running \cup {"queued"} \/ snapshot[u] # {}
  PROVE  phase = "collect" /\ u \notin Collected
<1>1. u \notin Collected
  BY DEF SpanInv, CollectedEnded, Collected, Running, Checks
<1> QED
  BY <1>1 DEF SpanInv, CollectedEnded

\* A step that only moves a worker on.
LEMMA WorkerMoves ==
  ASSUME SpanInv, NEW u \in Units, NEW s \in Stages \ {"post", "returned"},
         phase # "crashed", stage[u] \in Running \cup {"queued"}, snapshot[u] = {},
         budget[u] \in LedgerAt(s), Goto(u, s),
         posted' = posted \/ (stage[u] = "post" /\ posted' = posted \cup {u}),
         UNCHANGED <<ledgerVars, mainVars>>
  PROVE  SpanInv'
<1>1. phase = "collect" /\ u \notin Collected
  BY RunningMeansCollecting
<1> USE DEF SpanInv, Goto, ledgerVars, mainVars
<1>2. Typed'
  BY DEF Typed
<1>3. LedgerMatchesStage'
  BY DEF LedgerMatchesStage, Typed
<1>4. OneHolder' /\ MainHolds'
  BY DEF OneHolder, MainHolds
<1>5. CollectedEnded'
  BY <1>1 DEF CollectedEnded, Collected, Typed
<1>6. PersistedLast' /\ SavedIsEarlier'
  BY DEF PersistedLast, SavedIsEarlier
<1>7. PostedIsSaved'
  <2>1. stage[u] = "post" => budget[u].primary_http_attempts = 1
    BY OneAttempt DEF LedgerMatchesStage, LedgerAt, Made
  <2> QED
    BY <2>1 DEF PostedIsSaved, Typed
<1> QED
  BY <1>2, <1>3, <1>4, <1>5, <1>6, <1>7

\* A step that changes the unit's record under the lock.
LEMMA WorkerRecords ==
  ASSUME SpanInv, NEW u \in Units, NEW s \in Stages, NEW b \in Made \ {Persisted},
         phase # "crashed", stage[u] \in Running, snapshot[u] = {},
         b \in LedgerAt(s), Earlier(budget[u], b),
         RecordUnit(u, b), Goto(u, s), UNCHANGED <<posted, mainVars>>
  PROVE  SpanInv'
<1>1. phase = "collect" /\ u \notin Collected
  BY RunningMeansCollecting
<1> USE DEF SpanInv, Goto, mainVars
<1>2. /\ \A h \in Holders : snapshot[h] = {}
      /\ budget' = [budget EXCEPT ![u] = b]
      /\ snapshot' = [snapshot EXCEPT ![u] = {budget'}]
      /\ saved' = saved
  BY DEF RecordUnit, Record, LockFree
<1>3. u \in Holders /\ u # Main
  BY SpanAssumption DEF Holders, Units, Main
<1>4. Typed'
  BY <1>2, <1>3 DEF Typed, Ledgers
<1>5. LedgerMatchesStage'
  BY <1>2 DEF LedgerMatchesStage, Typed
<1>6. OneHolder' /\ MainHolds'
  BY <1>2, <1>3 DEF OneHolder, MainHolds, Typed, Holders
<1>7. CollectedEnded'
  BY <1>1, <1>2, <1>3 DEF CollectedEnded, Collected, Typed, Holders
<1>8. PersistedLast'
  BY <1>1, <1>2 DEF PersistedLast, Typed
<1>9. SavedIsEarlier'
  BY <1>2, EarlierTransitive DEF SavedIsEarlier, Typed, Ledgers
<1>10. PostedIsSaved'
  BY <1>2, <1>3, OneAttempt DEF PostedIsSaved, Typed
<1> QED
  BY <1>4, <1>5, <1>6, <1>7, <1>8, <1>9, <1>10
\* The file is replaced by the snapshot, which is the accounting object.
LEMMA SavePreservesInv ==
  ASSUME SpanInv, NEW h \in Holders, Save(h),
         UNCHANGED <<stage, posted, completed, failures>>,
         \/ h \in Units /\ UNCHANGED phase
         \/ h = Main /\ phase = "persist" /\ phase' = "aggregate"
  PROVE  SpanInv'
<1> USE DEF SpanInv
<1>1. /\ saved' = budget /\ budget' = budget
      /\ snapshot' = [snapshot EXCEPT ![h] = {}]
      /\ snapshot[h] # {}
  BY DEF Save, Typed
<1>2. Typed'
  BY <1>1 DEF Typed, Phases
<1>3. LedgerMatchesStage'
  BY <1>1 DEF LedgerMatchesStage
<1>4. OneHolder' /\ MainHolds'
  BY <1>1 DEF OneHolder, MainHolds, Typed, Holders
<1>5. CollectedEnded'
  BY <1>1 DEF CollectedEnded, Collected, Typed, Holders
<1>6. PersistedLast'
  <2>1. h \in Units => h # Main
    BY SpanAssumption DEF Units, Main
  <2>2. h \in Units => snapshot[Main] = {} /\ snapshot'[Main] = {}
    BY <1>1, <2>1 DEF OneHolder, Holders, Typed
  <2> QED
    BY <1>1, <2>1, <2>2 DEF PersistedLast
<1>7. SavedIsEarlier'
  BY <1>1, EarlierReflexive DEF SavedIsEarlier, Typed
<1>8. PostedIsSaved'
  BY <1>1, OneAttempt DEF PostedIsSaved, LedgerMatchesStage, LedgerAt, Made
<1> QED
  BY <1>2, <1>3, <1>4, <1>5, <1>6, <1>7, <1>8

\* The write raises: the change stays in memory, the worker ends.
LEMMA FailedSavePreservesInv ==
  ASSUME SpanInv, NEW u \in Units, SaveByWorkerRaises(u)
  PROVE  SpanInv'
<1> USE DEF SpanInv
<1>1. /\ snapshot[u] # {} /\ snapshot' = [snapshot EXCEPT ![u] = {}]
      /\ budget' = budget /\ saved' = saved
      /\ stage' = [stage EXCEPT ![u] = "raised"]
      /\ posted' = posted /\ UNCHANGED mainVars
  BY DEF SaveByWorkerRaises, SaveRaises, Goto
<1>2. phase = "collect" /\ u \notin Collected
  BY <1>1, RunningMeansCollecting DEF SaveByWorkerRaises
<1>3. u \in Holders /\ u # Main
  BY SpanAssumption DEF Holders, Units, Main
<1>4. Typed'
  BY <1>1 DEF Typed, Stages, mainVars
<1>5. LedgerMatchesStage'
  <2>1. budget[u] \in Ledgers \ {Persisted}
    BY <1>2 DEF Typed, PersistedLast
  <2> QED
    BY <1>1, <2>1 DEF LedgerMatchesStage, LedgerAt, Typed
<1>6. OneHolder' /\ MainHolds'
  BY <1>1, <1>3 DEF OneHolder, MainHolds, Typed, Holders, mainVars
<1>7. CollectedEnded'
  BY <1>1, <1>2, <1>3 DEF CollectedEnded, Collected, Typed, Holders, mainVars
<1>8. PersistedLast' /\ SavedIsEarlier'
  BY <1>1, <1>2 DEF PersistedLast, SavedIsEarlier, mainVars
<1>9. PostedIsSaved'
  BY <1>1 DEF PostedIsSaved, Typed, Holders
<1> QED
  BY <1>4, <1>5, <1>6, <1>7, <1>8, <1>9

LEMMA WorkerPreservesInv ==
  ASSUME SpanInv, NEW u \in Units, Worker(u)
  PROVE  SpanInv'
<1> DEFINE Records(s, b) == RecordUnit(u, b) /\ Goto(u, s) /\ UNCHANGED <<posted, mainVars>>
<1>ledger. budget[u] \in LedgerAt(stage[u])
  BY DEF SpanInv, LedgerMatchesStage
<1>1. CASE Start(u)
  BY <1>1, <1>ledger, WorkerMoves DEF Start, At, LedgerAt, Stages, Running
<1>2. CASE WriteRequest(u)
  BY <1>2, <1>ledger, WorkerMoves DEF WriteRequest, At, LedgerAt, Stages, Running
<1>3. CASE RecordAttempt(u)
  <2>1. budget[u] = NewUnit /\ Records("post", Attempted)
    BY <1>3, <1>ledger DEF RecordAttempt, At, LedgerAt, Attempted
  <2> QED
    BY <1>3, <2>1, WorkerRecords, LedgersGrow, PersistedIsDistinct
    DEF RecordAttempt, At, LedgerAt, Stages, Running, Made
<1>4. CASE Post(u)
  BY <1>4, <1>ledger, WorkerMoves DEF Post, ReadyToPost, At, LedgerAt, Stages, Running
<1>5. CASE TransportFails(u)
  <2>1. budget[u] = Attempted /\ Records("raised", Failed)
    BY <1>5, <1>ledger, OpenLedgers
    DEF TransportFails, At, LedgerAt, RecordOutcome, Failed
  <2> QED
    BY <1>5, <2>1, WorkerRecords, LedgersGrow, PersistedIsDistinct
    DEF TransportFails, At, LedgerAt, Stages, Running, Ledgers, Made
<1>6. CASE Answer(u)
  BY <1>6, <1>ledger, WorkerMoves DEF Answer, At, LedgerAt, Stages, Running
<1>7. CASE RecordDelivery(u)
  <2>1. budget[u] = Attempted /\ Records("provider", Delivered)
    BY <1>7, <1>ledger DEF RecordDelivery, At, LedgerAt, Delivered
  <2> QED
    BY <1>7, <2>1, WorkerRecords, LedgersGrow, PersistedIsDistinct
    DEF RecordDelivery, At, LedgerAt, Stages, Running, Checks, Made
<1>8. ASSUME NEW check \in Checks, Reject(u, check) PROVE SpanInv'
  <2>1. /\ budget[u] = IF check = "evidence" THEN Valid ELSE Delivered
        /\ Records("raised", Rejected(check))
    BY <1>8, <1>ledger, OpenLedgers
    DEF Reject, At, LedgerAt, RecordOutcome, Rejected, AfterRejection, Checks
  <2> QED
    BY <1>8, <2>1, WorkerRecords, LedgersGrow, PersistedIsDistinct
    DEF Reject, At, LedgerAt, Stages, Running, Ledgers, Made
<1>9. CASE PassUnrecorded(u)
  BY <1>9, <1>ledger, WorkerMoves DEF PassUnrecorded, At, LedgerAt, Stages, Running, Checks
<1>10. CASE PassSchema(u)
  <2>1. budget[u] = Delivered /\ Records("evidence", Valid)
    BY <1>10, <1>ledger DEF PassSchema, At, LedgerAt, Valid
  <2> QED
    BY <1>10, <2>1, WorkerRecords, LedgersGrow, PersistedIsDistinct
    DEF PassSchema, At, LedgerAt, Stages, Running, Checks, Made
<1>11. CASE Accept(u)
  <2>1. budget[u] = Valid /\ Records("returned", Accepted)
    BY <1>11, <1>ledger, OpenLedgers
    DEF Accept, At, LedgerAt, RecordOutcome, Accepted
  <2> QED
    BY <1>11, <2>1, WorkerRecords, LedgersGrow, PersistedIsDistinct
    DEF Accept, At, LedgerAt, Stages, Running, Checks, Made
<1>12. CASE SaveByWorker(u)
  BY <1>12, SavePreservesInv DEF SaveByWorker, mainVars, Holders
<1>13. CASE SaveByWorkerRaises(u)
  BY <1>13, FailedSavePreservesInv
<1>14. CASE Abort(u)
  <2>1. PICK s \in Running : At(u, s)
    BY <1>14 DEF Abort
  <2>2. budget[u] \in LedgerAt("raised")
    BY <2>1, <1>ledger, PersistedIsDistinct
    DEF At, LedgerAt, Running, Checks, Ledgers, Made
  <2> QED
    BY <1>14, <2>1, <2>2, WorkerMoves DEF Abort, At, Stages
<1> QED
  BY <1>1, <1>2, <1>3, <1>4, <1>5, <1>6, <1>7, <1>8, <1>9, <1>10, <1>11, <1>12, <1>13, <1>14
  DEF Worker, Progress
-----------------------------------------------------------------------------
(* The steps of the main thread.                                           *)

LEMMA ToSetAppend ==
  ASSUME NEW S, NEW q \in Seq(S), NEW e \in S
  PROVE  ToSet(Append(q, e)) = ToSet(q) \cup {e}
  BY AppendProperties DEF ToSet

LEMMA CollectPreservesInv ==
  ASSUME SpanInv, NEW u \in Units, Collect(u)
  PROVE  SpanInv'
<1> USE DEF SpanInv
<1>1. /\ completed \in Seq(Units) /\ failures \in Seq(Units)
      /\ stage[u] \in {"returned", "raised"} /\ snapshot[u] = {}
  BY DEF Collect, Ended, Typed
<1>2. /\ ToSet(completed') =
           ToSet(completed) \cup (IF stage[u] = "returned" THEN {u} ELSE {})
      /\ ToSet(failures') =
           ToSet(failures) \cup (IF stage[u] = "raised" THEN {u} ELSE {})
      /\ completed' \in Seq(Units) /\ failures' \in Seq(Units)
  BY <1>1, ToSetAppend DEF Collect
<1>3. Typed' /\ CollectedEnded'
  BY <1>1, <1>2 DEF Collect, Typed, CollectedEnded, ledgerVars
<1>4. OneHolder' /\ MainHolds' /\ LedgerMatchesStage' /\ PersistedLast'
      /\ SavedIsEarlier' /\ PostedIsSaved'
  BY DEF Collect, OneHolder, MainHolds, LedgerMatchesStage, PersistedLast,
         SavedIsEarlier, PostedIsSaved, ledgerVars
<1> QED
  BY <1>3, <1>4

\* Nothing changes but the phase, which says no more than before.
LEMMA PhasePreservesInv ==
  ASSUME SpanInv,
         \/ phase' = "crashed"
         \/ phase' = "failed" /\ snapshot[Main] = {} /\ Units \subseteq Collected
         \/ phase = "aggregate" /\ phase' = "returned",
         UNCHANGED <<stage, posted, ledgerVars, completed, failures>>
  PROVE  SpanInv'
  BY DEF SpanInv, Typed, Phases, OneHolder, MainHolds, LedgerMatchesStage, CollectedEnded,
         Collected, PersistedLast, SavedIsEarlier, PostedIsSaved, ledgerVars

LEMMA WriteResultsPreservesInv ==
  ASSUME SpanInv, WriteResults
  PROVE  SpanInv'
<1> USE DEF SpanInv
<1>1. Units \subseteq ToSet(completed)
  BY DEF WriteResults, AllCollected, Collected, ToSet
<1>2. \A u \in Units : budget[u] = Accepted
  BY <1>1 DEF CollectedEnded, LedgerMatchesStage, LedgerAt, PersistedLast, WriteResults
<1>3. snapshot[Main] = {}
  BY DEF MainHolds, WriteResults
<1> QED
  BY <1>1, <1>2, <1>3
  DEF WriteResults, Typed, Phases, OneHolder, MainHolds, LedgerMatchesStage, CollectedEnded,
      Collected, PersistedLast, SavedIsEarlier, PostedIsSaved, ledgerVars

LEMMA RecordPersistedPreservesInv ==
  ASSUME SpanInv, RecordPersisted
  PROVE  SpanInv'
<1> USE DEF SpanInv
<1>1. /\ phase = "persist" /\ snapshot[Main] = {} /\ UNCHANGED <<stage, posted, mainVars>>
      /\ \A h \in Holders : snapshot[h] = {}
      /\ budget' = [u \in Units |-> RecordPersistedSpan(budget[u])]
      /\ snapshot' = [snapshot EXCEPT ![Main] = {budget'}]
      /\ saved' = saved
  BY DEF RecordPersisted, Record, LockFree
<1>2. \A u \in Units : budget[u] = Accepted /\ budget'[u] = Persisted
  BY <1>1 DEF PersistedLast, Persisted
<1>3. \A u \in Units : stage[u] = "returned"
  BY <1>1 DEF CollectedEnded
<1>4. Main \in Holders /\ \A u \in Units : u # Main
  BY SpanAssumption DEF Holders, Units, Main
<1>5. Typed'
  BY <1>1, <1>2 DEF Typed, Ledgers, Made, mainVars
<1>6. LedgerMatchesStage' /\ PersistedLast'
  BY <1>1, <1>2, <1>3, <1>4 DEF LedgerMatchesStage, LedgerAt, PersistedLast, Typed, mainVars
<1>7. OneHolder' /\ MainHolds'
  BY <1>1, <1>4 DEF OneHolder, MainHolds, Typed, Holders, mainVars
<1>10. CollectedEnded'
  <2>1. ToSet(completed) \subseteq Units /\ ToSet(failures) \subseteq Units
    BY DEF Typed, ToSet
  <2> QED
    BY <1>1, <1>4, <2>1 DEF CollectedEnded, Collected, Typed, Holders, mainVars
<1>8. SavedIsEarlier'
  BY <1>1, <1>2, LedgersGrow, EarlierTransitive DEF SavedIsEarlier, Typed, Ledgers, Made
<1>9. PostedIsSaved'
  BY <1>1, <1>2, <1>3, OneAttempt DEF PostedIsSaved, Made
<1> QED
  BY <1>5, <1>6, <1>7, <1>8, <1>9, <1>10

LEMMA MainPreservesInv ==
  ASSUME SpanInv, MainStep \/ Crash
  PROVE  SpanInv'
<1>1. ASSUME NEW u \in Units, Collect(u) PROVE SpanInv'
  BY <1>1, CollectPreservesInv
<1>2. CASE ReportFailure
  BY <1>2, PhasePreservesInv DEF ReportFailure, AllCollected, SpanInv, MainHolds
<1>3. CASE WriteResults
  BY <1>3, WriteResultsPreservesInv
<1>4. CASE RecordPersisted
  BY <1>4, RecordPersistedPreservesInv
<1>5. CASE SaveByMain
  BY <1>5, SavePreservesInv DEF SaveByMain, Holders
<1>6. CASE Aggregate
  BY <1>6, PhasePreservesInv DEF Aggregate
<1>7. CASE MainRaises
  <2>1. CASE phase = "persist" /\ SaveRaises(Main)
    BY <1>7, <2>1
    DEF MainRaises, SaveRaises, SpanInv, Typed, Phases, OneHolder, MainHolds,
        LedgerMatchesStage, CollectedEnded, Collected, PersistedLast, SavedIsEarlier,
        PostedIsSaved, Holders
  <2>2. CASE phase \in {"collect", "aggregate"} /\ UNCHANGED ledgerVars
    <3>1. snapshot[Main] = {}
      BY <2>2 DEF SpanInv, MainHolds
    <3>2. Units \subseteq Collected
      BY <1>7, <2>2 DEF MainRaises, AllCollected, SpanInv, CollectedEnded
    <3> QED
      BY <1>7, <2>2, <3>1, <3>2, PhasePreservesInv DEF MainRaises
  <2> QED
    BY <1>7, <2>1, <2>2 DEF MainRaises
<1>8. CASE Crash
  BY <1>8, PhasePreservesInv DEF Crash
<1> QED
  BY <1>1, <1>2, <1>3, <1>4, <1>5, <1>6, <1>7, <1>8 DEF MainStep
-----------------------------------------------------------------------------
(* What the accounting can be relied on for.                               *)

LEMMA StepPreservesInv == SpanInv /\ [Next]_vars => SpanInv'
<1> SUFFICES ASSUME SpanInv, [Next]_vars PROVE SpanInv'
  OBVIOUS
<1>1. CASE UNCHANGED vars
  BY <1>1
  DEF vars, ledgerVars, mainVars, SpanInv, Typed, OneHolder, MainHolds, LedgerMatchesStage,
      CollectedEnded, Collected, PersistedLast, SavedIsEarlier, PostedIsSaved
<1>2. CASE Next
  BY <1>1, <1>2, MainPreservesInv, WorkerPreservesInv DEF Next, Stopped
<1> QED
  BY <1>1, <1>2

\* The inductive invariant of the worker pool and its accounting.
THEOREM SpanInvariant == Spec => []SpanInv
  BY InitEstablishesInv, StepPreservesInv, PTL DEF Spec

\* A unit's counters always balance against its one outcome.
THEOREM OutcomesAlwaysBalance == Spec => []OutcomesBalance
<1> DEFINE Good(b) ==
      IF b.terminal_outcome = "none"
      THEN b.accepted_extractions + b.transport_failures + TerminalRejections(b) = 0
      ELSE /\ Balanced(b)
           /\ b.primary_http_attempts = 1
           /\ b.terminal_outcome \in Rejections => b.rejections[b.terminal_outcome] = 1
           /\ b.terminal_outcome = "accepted" => b.accepted_extractions = 1
           /\ b.terminal_outcome = "transport_failed" => b.transport_failures = 1
<1>1. Good(NewUnit) /\ Good(Attempted) /\ Good(Delivered) /\ Good(Valid)
  BY DEF TerminalRejections, Rejections, NewUnit, Attempted, Delivered, Valid,
         RecordHttpAttempt, RecordTransportSuccess, RecordSchemaValid
<1>2. Good(Failed)
  <2>1. Failed.terminal_outcome = "transport_failed" /\ Failed.transport_failures = 1
    BY DEF NewUnit, Attempted, Failed, RecordHttpAttempt, RecordTransportFailure, Terminal
  <2> QED
    BY <2>1, LedgersBalance, OneAttempt DEF Made, Rejections
<1>3. Good(Accepted) /\ Good(Persisted)
  <2>1. /\ Accepted.terminal_outcome = "accepted" /\ Accepted.accepted_extractions = 1
        /\ Persisted.terminal_outcome = "accepted" /\ Persisted.accepted_extractions = 1
    BY DEF NewUnit, Attempted, Delivered, Valid, Accepted, Persisted,
           RecordHttpAttempt, RecordTransportSuccess, RecordSchemaValid,
           RecordAccepted, RecordEvidenceValid, RecordPersistedSpan, Terminal
  <2> QED
    BY <2>1, LedgersBalance, OneAttempt DEF Made, Rejections, AssertValid
<1>4. ASSUME NEW check \in Checks PROVE Good(Rejected(check))
  <2>1. /\ Rejected(check).terminal_outcome = RejectionAt[check]
        /\ Rejected(check).rejections[RejectionAt[check]] = 1
        /\ RejectionAt[check] \in Rejections
    BY DEF Checks, RejectionAt, Rejections, NewUnit, Attempted, Delivered, Valid, Rejected,
           RecordRejection, RecordHttpAttempt, RecordTransportSuccess, RecordSchemaValid,
           Terminal
  <2> QED
    BY <2>1, LedgersBalance, OneAttempt DEF Made, Rejections
<1>5. \A b \in Ledgers : Good(b)
  BY <1>1, <1>2, <1>3, <1>4 DEF Ledgers, Made
<1>6. SpanInv => OutcomesBalance
  BY <1>5 DEF SpanInv, Typed, OutcomesBalance
<1> QED
  BY <1>6, SpanInvariant, PTL

\* A request that may have reached the provider is in the file, also after a
\* crash, for any number of units and workers.
THEOREM RequestsAlwaysOnDisk == Spec => []RequestsAreOnDisk
<1>1. SpanInv => RequestsAreOnDisk
  BY DEF SpanInv, Typed, PostedIsSaved, RequestsAreOnDisk
<1> QED
  BY <1>1, SpanInvariant, PTL

\* Whenever the extraction returns, assert_valid passes for every unit, and
\* the file holds the same records.
THEOREM ReturnedAlwaysValidates == Spec => []ReturnedRunValidates
<1>1. SpanInv => ReturnedRunValidates
  BY LedgersBalance DEF SpanInv, PersistedLast, ReturnedRunValidates
<1> QED
  BY <1>1, SpanInvariant, PTL

\* No write of the accounting file takes back a count or an outcome.
THEOREM FileNeverRegresses == Spec => SavedNeverRegresses
<1>1. SpanInv /\ [Next]_vars => saved' = saved \/ saved' = budget
  <2> SUFFICES ASSUME SpanInv, [Next]_vars PROVE saved' = saved \/ saved' = budget
    OBVIOUS
  <2>1. ASSUME NEW h \in Holders, Save(h) PROVE saved' = budget
    BY <2>1 DEF SpanInv, Typed, Save
  <2>2. ASSUME NEW u \in Units, Worker(u) PROVE saved' = saved \/ saved' = budget
    BY <2>1, <2>2
    DEF Worker, Progress, Start, WriteRequest, RecordAttempt, Post, TransportFails, Answer,
        RecordDelivery, Reject, PassUnrecorded, PassSchema, Accept, SaveByWorker,
        SaveByWorkerRaises, SaveRaises, Abort, RecordOutcome, RecordUnit, Record, ledgerVars,
        Holders
  <2>3. ASSUME MainStep PROVE saved' = saved \/ saved' = budget
    BY <2>1, <2>3
    DEF MainStep, Collect, ReportFailure, WriteResults, RecordPersisted, SaveByMain,
        Aggregate, MainRaises, SaveRaises, Record, ledgerVars, Holders
  <2> QED
    BY <2>2, <2>3 DEF Next, Crash, Stopped, vars, ledgerVars
<1>2. SpanInv /\ [Next]_vars =>
        [\A u \in Units :
           /\ saved[u].primary_http_attempts <= saved'[u].primary_http_attempts
           /\ saved[u].transport_successes <= saved'[u].transport_successes
           /\ saved[u].terminal_outcome \in {"none", saved'[u].terminal_outcome}]_vars
  <2> SUFFICES ASSUME SpanInv, [Next]_vars, NEW u \in Units
               PROVE  Earlier(saved[u], saved'[u])
    BY DEF Earlier
  <2>1. CASE saved' = saved
    BY <2>1, EarlierReflexive DEF SpanInv, Typed
  <2>2. CASE saved' = budget
    BY <2>2 DEF SpanInv, SavedIsEarlier
  <2> QED
    BY <1>1, <2>1, <2>2
<1> QED
  BY <1>2, SpanInvariant, PTL DEF Spec, SavedNeverRegresses
-----------------------------------------------------------------------------
(* The two result files.                                                   *)

NoneTwice(q) == \A j, k \in DOMAIN q : q[j] = q[k] => j = k

\* What the result files may hold, by the phase of the main thread.
FilesInv ==
  /\ NoneTwice(completed) /\ NoneTwice(failures)
  /\ results \subseteq {[u \in Units |-> u]}
  /\ phase = "collect" => results = {} /\ report = {}
  /\ phase = "persist" => results # {}
  /\ results = {} \/ report = {}
  /\ report = {} \/ (phase = "failed" /\ report = {failures})
  /\ \A u \in Units : Persisted \in {budget[u], saved[u]} => results # {}

\* A sequence without repetitions is as long as the set of its elements.
LEMMA LengthOfDistinct ==
  ASSUME NEW S, NEW q \in Seq(S), NoneTwice(q)
  PROVE  IsFiniteSet(ToSet(q)) /\ Len(q) = Cardinality(ToSet(q))
<1>1. DOMAIN q = 1 .. Len(q) /\ Len(q) \in Nat
  OBVIOUS
<1>2. q \in [DOMAIN q -> ToSet(q)]
  BY DEF ToSet
<1>3. q \in Injection(DOMAIN q, ToSet(q))
  BY <1>2 DEF NoneTwice, Injection, IsInjective
<1>4. q \in Surjection(DOMAIN q, ToSet(q))
  BY <1>2 DEF ToSet, Surjection
<1>5. IsFiniteSet(DOMAIN q) /\ Cardinality(DOMAIN q) = Len(q)
  BY <1>1, FS_Interval
<1>6. q \in Bijection(DOMAIN q, ToSet(q))
  BY <1>3, <1>4 DEF Bijection
<1> QED BY <1>5, <1>6, FS_Bijection DEF ExistsBijection

\* Sorting the numbers 1 to UnitCount, each there once, gives them in order.
LEMMA SortedUnits ==
  ASSUME completed \in Seq(Units), NoneTwice(completed), Units \subseteq ToSet(completed)
  PROVE  InOrder = [u \in Units |-> u]
<1> DEFINE D == DOMAIN completed
           before(k) == {j \in D : \/ completed[j] < completed[k]
                                   \/ completed[j] = completed[k] /\ j < k}
           place(i) == CHOOSE k \in D : Cardinality(before(k)) = i - 1
<1>1. D = 1 .. Len(completed) /\ Len(completed) \in Nat /\ completed \in [D -> Units]
  OBVIOUS
<1>2. \A u \in Units : \E k \in D : completed[k] = u
  BY DEF ToSet
<1>3. D = Units
  <2>1. ToSet(completed) = Units
    BY <1>1 DEF ToSet
  <2>2. Len(completed) = Cardinality(Units)
    BY <2>1, LengthOfDistinct
  <2>3. Cardinality(Units) = UnitCount
    BY FS_Interval, SpanAssumption DEF Units
  <2> QED BY <1>1, <2>2, <2>3 DEF Units
<1>4. ASSUME NEW k \in D PROVE Cardinality(before(k)) = completed[k] - 1
  <2> DEFINE T == 1 .. completed[k] - 1
             f == [j \in before(k) |-> completed[j]]
  <2>1. \A j \in D : completed[j] \in Units
    BY <1>1
  <2>2. \A j \in D : j \in before(k) <=> completed[j] < completed[k]
    BY <2>1 DEF NoneTwice, Units
  <2>3. f \in [before(k) -> T]
    BY <2>1, <2>2 DEF Units
  <2>4. \A n \in T : \E j \in before(k) : f[j] = n
    <3> SUFFICES ASSUME NEW n \in T PROVE \E j \in before(k) : f[j] = n
      OBVIOUS
    <3>1. n \in Units /\ n < completed[k]
      BY <2>1, SpanAssumption DEF Units
    <3>2. PICK j \in D : completed[j] = n
      BY <1>2, <3>1
    <3> QED BY <2>2, <3>1, <3>2
  <2>5. \A i, j \in before(k) : f[i] = f[j] => i = j
    BY DEF NoneTwice
  <2>6. f \in Injection(before(k), T)
    BY <2>3, <2>5 DEF Injection, IsInjective
  <2>7. f \in Surjection(before(k), T)
    BY <2>3, <2>4 DEF Surjection
  <2>8. f \in Bijection(before(k), T)
    BY <2>6, <2>7 DEF Bijection
  <2>9. IsFiniteSet(before(k))
    <3>1. IsFiniteSet(D)
      BY <1>1, FS_Interval
    <3> QED BY <3>1, FS_Subset
  <2>10. Cardinality(T) = Cardinality(before(k))
    BY <2>8, <2>9, FS_Bijection DEF ExistsBijection
  <2>11. completed[k] \in Nat \ {0}
    BY <2>1 DEF Units
  <2>12. Cardinality(T) = completed[k] - 1
    <3> DEFINE n == completed[k] - 1
    <3>0. n \in Int
      BY <2>11
    <3> HIDE DEF n
    <3>1. Cardinality(1 .. n) = IF 1 > n THEN 0 ELSE n - 1 + 1
      BY <3>0, FS_Interval
    <3>2. Cardinality(1 .. n) = n
      <4>1. n >= 0
        BY <2>11 DEF n
      <4> QED BY <3>0, <3>1, <4>1
    <3>3. T = 1 .. n
      BY DEF n
    <3> HIDE DEF T, before
    <3>4. Cardinality(T) = n
      BY <3>2, <3>3
    <3> QED BY <3>4 DEF n
  <2> QED BY <2>10, <2>12
<1>5. ASSUME NEW i \in Units PROVE completed[place(i)] = i
  <2>1. PICK k \in D : completed[k] = i
    BY <1>2
  <2>2. Cardinality(before(k)) = i - 1
    BY <1>4, <2>1
  <2>3. place(i) \in D /\ Cardinality(before(place(i))) = i - 1
    BY <2>2
  <2>4. completed[place(i)] - 1 = i - 1
    BY <1>4, <2>3
  <2>5. i \in Int /\ completed[place(i)] \in Int
    BY <1>1, <2>3 DEF Units
  <2> HIDE DEF place
  <2> QED BY <2>4, <2>5
<1>6. InOrder = [i \in D |-> completed[place(i)]]
  BY DEF InOrder
<1> QED BY <1>3, <1>5, <1>6

LEMMA AppendedOnce ==
  ASSUME NEW q \in Seq(Units), NoneTwice(q), NEW u \in Units \ ToSet(q)
  PROVE  NoneTwice(Append(q, u))
<1>1. /\ Append(q, u) \in Seq(Units) /\ DOMAIN Append(q, u) = 1 .. Len(q) + 1
      /\ Append(q, u)[Len(q) + 1] = u
      /\ \A j \in 1 .. Len(q) : Append(q, u)[j] = q[j]
  OBVIOUS
<1>2. \A j \in 1 .. Len(q) : q[j] # u
  BY DEF ToSet
<1> QED BY <1>1, <1>2 DEF NoneTwice

\* The ways the accounting object and its file change.
LEMMA LedgerSteps ==
  ASSUME SpanInv, [Next]_vars
  PROVE  /\ saved' = saved \/ saved' = budget
         /\ \/ budget' = budget
            \/ phase = "collect" /\ phase' = "collect"
            \/ phase = "persist"
<1>1. ASSUME NEW h \in Holders, Save(h) PROVE saved' = budget /\ budget' = budget
  BY <1>1 DEF SpanInv, Typed, Save
<1>2. ASSUME NEW u \in Units, Worker(u)
      PROVE  /\ saved' = saved \/ saved' = budget
             /\ phase' = phase
             /\ budget' = budget \/ phase = "collect"
  <2>1. phase' = phase
    BY <1>2
    DEF Worker, Progress, Start, WriteRequest, RecordAttempt, Post, TransportFails, Answer,
        RecordDelivery, Reject, PassUnrecorded, PassSchema, Accept, SaveByWorker,
        SaveByWorkerRaises, Abort, mainVars
  <2>2. saved' = saved \/ saved' = budget
    BY <1>1, <1>2
    DEF Worker, Progress, Start, WriteRequest, RecordAttempt, Post, TransportFails, Answer,
        RecordDelivery, Reject, PassUnrecorded, PassSchema, Accept, SaveByWorker,
        SaveByWorkerRaises, SaveRaises, Abort, RecordOutcome, RecordUnit, Record, ledgerVars,
        Holders
  <2>3. budget' = budget \/ (phase # "crashed" /\ stage[u] \in Running)
    BY <1>1, <1>2
    DEF Worker, Progress, Start, WriteRequest, RecordAttempt, Post, TransportFails, Answer,
        RecordDelivery, Reject, PassUnrecorded, PassSchema, Accept, SaveByWorker,
        SaveByWorkerRaises, SaveRaises, Abort, At, Running, Checks, ledgerVars, Holders
  <2> QED BY <2>1, <2>2, <2>3, RunningMeansCollecting
<1>3. CASE MainStep
  BY <1>1, <1>3
  DEF MainStep, Collect, ReportFailure, WriteResults, RecordPersisted, SaveByMain,
      Aggregate, MainRaises, SaveRaises, Record, ledgerVars, Holders
<1> QED
  BY <1>2, <1>3 DEF Next, Crash, Stopped, vars, ledgerVars

\* No worker touches what the main thread keeps.
LEMMA WorkerLeavesFiles ==
  ASSUME NEW u \in Units, Worker(u) PROVE UNCHANGED mainVars
BY DEF Worker, Progress, Start, WriteRequest, RecordAttempt, Post, TransportFails, Answer,
       RecordDelivery, Reject, PassUnrecorded, PassSchema, Accept, SaveByWorker,
       SaveByWorkerRaises, Abort, mainVars

LEMMA FilesInit == Init => FilesInv
<1> SUFFICES ASSUME Init PROVE FilesInv
  OBVIOUS
<1>1. NoneTwice(completed) /\ NoneTwice(failures)
  BY DEF Init, NoneTwice
<1>2. \A u \in Units : Persisted \notin {budget[u], saved[u]}
  BY PersistedIsDistinct DEF Init
<1> QED BY <1>1, <1>2 DEF Init, FilesInv

LEMMA FilesStep == ASSUME SpanInv, FilesInv, SpanInv', [Next]_vars PROVE FilesInv'
<1>1. results # {} => results' # {}
  <2>1. CASE MainStep
    BY <2>1 DEF MainStep, Collect, ReportFailure, WriteResults, RecordPersisted, SaveByMain,
                Aggregate, MainRaises, mainVars
  <2> QED BY <2>1, WorkerLeavesFiles DEF Next, Crash, Stopped, vars, mainVars
<1>2. \A u \in Units : Persisted \in {budget'[u], saved'[u]} => results' # {}
  <2> SUFFICES ASSUME NEW u \in Units, Persisted \in {budget'[u], saved'[u]} PROVE results' # {}
    OBVIOUS
  <2>1. CASE Persisted \in {budget[u], saved[u]}
    BY <1>1, <2>1 DEF FilesInv
  <2>2. CASE Persisted \notin {budget[u], saved[u]}
    <3>1. budget' # budget /\ budget'[u] = Persisted
      BY <2>2, LedgerSteps
    <3>2. phase = "persist"
      BY <3>1, LedgerSteps DEF SpanInv, PersistedLast
    <3> QED BY <1>1, <3>2 DEF FilesInv
  <2> QED BY <2>1, <2>2
<1>3. CASE UNCHANGED mainVars
  BY <1>2, <1>3 DEF mainVars, FilesInv, NoneTwice
<1>4. ASSUME NEW u \in Units, Collect(u) PROVE FilesInv'
  <2>1. completed \in Seq(Units) /\ failures \in Seq(Units)
    BY DEF SpanInv, Typed
  <2>2. u \in Units \ ToSet(completed) /\ u \in Units \ ToSet(failures)
    BY <1>4 DEF Collect, Collected
  <2>3. NoneTwice(completed') /\ NoneTwice(failures')
    BY <1>4, <2>1, <2>2, AppendedOnce DEF Collect, FilesInv
  <2> QED BY <1>2, <1>4, <2>3 DEF Collect, FilesInv, NoneTwice
<1>5. CASE ReportFailure
  BY <1>2, <1>5 DEF ReportFailure, FilesInv, NoneTwice
<1>6. CASE WriteResults
  <2>1. Units \subseteq ToSet(completed)
    BY <1>6 DEF WriteResults, AllCollected, Collected, ToSet
  <2>2. InOrder = [u \in Units |-> u]
    BY <2>1, SortedUnits DEF SpanInv, Typed, FilesInv
  <2> QED BY <1>2, <1>6, <2>2 DEF WriteResults, FilesInv, NoneTwice
<1>7. CASE SaveByMain \/ Aggregate \/ MainRaises \/ Crash
  <2>1. /\ UNCHANGED <<completed, failures, results, report>>
        /\ phase \in {"collect", "persist", "aggregate"}
        /\ phase' \notin {"collect", "persist"}
    BY <1>7 DEF SaveByMain, Aggregate, MainRaises, Crash
  <2> QED BY <1>2, <2>1 DEF FilesInv, NoneTwice
<1> QED
  BY <1>3, <1>4, <1>5, <1>6, <1>7, WorkerLeavesFiles
  DEF Next, MainStep, RecordPersisted, Stopped, vars

\* What the result files hold at every step.
THEOREM FilesInvariant == Spec => []FilesInv
<1>1. SpanInv /\ SpanInv' /\ FilesInv /\ [Next]_vars => FilesInv'
  BY FilesStep
<1> QED BY <1>1, FilesInit, SpanInvariant, PTL DEF Spec

\* The records are of the type of the accounting object.
LEMMA LedgersTyped == Ledgers \subseteq UnitBudget
<1>1. NewUnit \in UnitBudget
  BY DEF NewUnit, UnitBudget
<1>2. ASSUME NEW b \in UnitBudget
      PROVE  /\ RecordHttpAttempt(b) \in UnitBudget /\ RecordTransportFailure(b) \in UnitBudget
             /\ RecordTransportSuccess(b) \in UnitBudget /\ RecordSchemaValid(b) \in UnitBudget
             /\ RecordEvidenceValid(b) \in UnitBudget /\ RecordAccepted(b) \in UnitBudget
             /\ RecordPersistedSpan(b) \in UnitBudget
             /\ \A outcome \in Rejections : RecordRejection(b, outcome) \in UnitBudget
  <2>1. /\ RecordHttpAttempt(b) \in UnitBudget /\ RecordTransportSuccess(b) \in UnitBudget
        /\ RecordSchemaValid(b) \in UnitBudget /\ RecordEvidenceValid(b) \in UnitBudget
        /\ RecordPersistedSpan(b) \in UnitBudget
    BY DEF UnitBudget, RecordHttpAttempt, RecordTransportSuccess, RecordSchemaValid,
           RecordEvidenceValid, RecordPersistedSpan
  <2>t. ASSUME NEW c \in UnitBudget, NEW outcome \in TerminalOutcomes
        PROVE  Terminal(c, outcome) \in UnitBudget
    BY DEF UnitBudget, Terminal
  <2>o. "transport_failed" \in TerminalOutcomes /\ "accepted" \in TerminalOutcomes
        /\ Rejections \subseteq TerminalOutcomes
    BY DEF TerminalOutcomes
  <2>2. RecordTransportFailure(b) \in UnitBudget
    <3>a. b.primary_failed_attempts \in Nat
      BY DEF UnitBudget
    <3>b. b.transport_failures \in Nat
      BY DEF UnitBudget
    <3>0. b.primary_failed_attempts + 1 \in Nat /\ b.transport_failures + 1 \in Nat
      BY <3>a, <3>b
    <3>1. [b EXCEPT !.primary_failed_attempts = @ + 1, !.transport_failures = @ + 1] \in UnitBudget
      BY <3>0 DEF UnitBudget
    <3> QED BY <2>t, <2>o, <3>1 DEF RecordTransportFailure
  <2>3. RecordAccepted(b) \in UnitBudget
    <3>a. b.primary_successful_calls \in Nat
      BY DEF UnitBudget
    <3>b. b.accepted_extractions \in Nat
      BY DEF UnitBudget
    <3>0. b.primary_successful_calls + 1 \in Nat /\ b.accepted_extractions + 1 \in Nat
      BY <3>a, <3>b
    <3>1. [b EXCEPT !.primary_successful_calls = @ + 1, !.accepted_extractions = @ + 1] \in UnitBudget
      BY <3>0 DEF UnitBudget
    <3> QED BY <2>t, <2>o, <3>1 DEF RecordAccepted
  <2>4. ASSUME NEW outcome \in Rejections PROVE RecordRejection(b, outcome) \in UnitBudget
    <3>0. [b.rejections EXCEPT ![outcome] = @ + 1] \in [Rejections -> Nat]
      BY DEF UnitBudget
    <3>1. [b EXCEPT !.rejections[outcome] = @ + 1] \in UnitBudget
      BY <3>0 DEF UnitBudget
    <3> QED BY <2>t, <2>o, <3>1 DEF RecordRejection
  <2> QED BY <2>1, <2>2, <2>3, <2>4
<1>3. \A check \in Checks : RejectionAt[check] \in Rejections
  BY DEF Checks, RejectionAt, Rejections
<1>4. Attempted \in UnitBudget
  BY <1>1, <1>2 DEF Attempted
<1>5. Failed \in UnitBudget /\ Delivered \in UnitBudget
  BY <1>2, <1>4 DEF Failed, Delivered
<1>6. Valid \in UnitBudget
  BY <1>2, <1>5 DEF Valid
<1>7. Accepted \in UnitBudget
  BY <1>2, <1>6 DEF Accepted
<1>8. Persisted \in UnitBudget
  BY <1>2, <1>7 DEF Persisted
<1>9. ASSUME NEW check \in Checks PROVE Rejected(check) \in UnitBudget
  BY <1>2, <1>3, <1>5, <1>6 DEF Rejected
<1> QED BY <1>1, <1>4, <1>5, <1>6, <1>7, <1>8, <1>9 DEF Ledgers, Made

\* The state invariant of an extraction: the counts balance, the results are
\* every unit in source order, and a terminal failure names the units that
\* failed, once each, when no worker is left (production_runner.py:251-279).
THEOREM ExtractionAlwaysInv == Spec => []ExtractionInv
<1>1. SpanInv /\ FilesInv => SpanTypeOK
  <2> SUFFICES ASSUME SpanInv, FilesInv PROVE SpanTypeOK
    OBVIOUS
  <2>1. [u \in Units |-> u] \in Seq(Units)
    BY SpanAssumption, SeqDef DEF Units
  <2>2. budget \in [Units -> UnitBudget] /\ saved \in [Units -> UnitBudget]
    BY LedgersTyped DEF SpanInv, Typed
  <2>3. \A h \in Holders : snapshot[h] = {} \/ snapshot[h] = {budget}
    BY DEF SpanInv, Typed
  <2> QED BY <2>1, <2>2, <2>3 DEF SpanInv, Typed, FilesInv, SpanTypeOK
<1>2. SpanInv /\ FilesInv => ResultsWholeAndOrdered
  <2>1. \A b \in Ledgers \ {Persisted} : b.persisted_span_units = 0
    BY PersistedCount DEF Ledgers, Made
  <2> QED BY <2>1 DEF SpanInv, Typed, FilesInv, ResultsWholeAndOrdered
<1>3. SpanInv /\ FilesInv => FailureReportExact
  <2> SUFFICES ASSUME SpanInv, FilesInv, NEW failed \in report
               PROVE  /\ \A u \in Units : Ended(u)
                      /\ ToSet(failed) = {u \in Units : stage[u] = "raised"}
                      /\ Len(failed) = Cardinality(ToSet(failed))
    BY DEF FailureReportExact
  <2>1. failed = failures /\ phase = "failed" /\ failures \in Seq(Units) /\ NoneTwice(failures)
    BY DEF FilesInv, SpanInv, Typed
  <2>2. Units \subseteq Collected
    BY <2>1 DEF SpanInv, CollectedEnded
  <2>3. ToSet(failures) \subseteq Units
    BY <2>1 DEF ToSet
  <2> QED
    BY <2>1, <2>2, <2>3, LengthOfDistinct DEF SpanInv, CollectedEnded, Collected, Ended
<1> QED
  BY <1>1, <1>2, <1>3, SpanInvariant, FilesInvariant, OutcomesAlwaysBalance, PTL
  DEF ExtractionInv
-----------------------------------------------------------------------------
(* The promise of the ledger.                                              *)

Statuses == [u \in Units |-> Status(budget[u])]

\* The outcome of an attempt that was not accepted.
Categories == Rejections \cup {"transport_failed"}

\* One attempt, then at most one outcome; other recordings change no status.
Advances(old, new) ==
  \/ Status(new) = Status(old)
  \/ Status(old) = "unused" /\ Status(new) = "attempted"
  \/ Status(old) = "attempted" /\ Status(new) \in Categories \cup {"accepted"}

LEMMA LedgerStatus ==
  /\ Status(NewUnit) = "unused" /\ Status(Attempted) = "attempted"
  /\ Status(Delivered) = "attempted" /\ Status(Valid) = "attempted"
  /\ Status(Failed) = "transport_failed"
  /\ Status(Accepted) = "accepted" /\ Status(Persisted) = "persisted"
  /\ \A check \in Checks : Status(Rejected(check)) \in Rejections
<1>1. /\ Failed.terminal_outcome = "transport_failed"
      /\ Accepted.terminal_outcome = "accepted"
  BY DEF NewUnit, Attempted, Failed, Delivered, Valid, Accepted,
         RecordHttpAttempt, RecordTransportFailure, RecordTransportSuccess, RecordSchemaValid,
         RecordAccepted, RecordEvidenceValid, Terminal
<1>2. ASSUME NEW check \in Checks PROVE Rejected(check).terminal_outcome \in Rejections
  BY <1>2 DEF Checks, RejectionAt, Rejections, NewUnit, Attempted, Delivered, Valid, Rejected,
              RecordRejection, RecordHttpAttempt, RecordTransportSuccess, RecordSchemaValid,
              Terminal
<1>3. "none" \notin Rejections
  BY DEF Rejections
<1> QED
  BY <1>1, <1>2, <1>3, PersistedCount, OpenLedgers, OneAttempt DEF Status, Made

\* Each step of a worker advances the status of its own unit, if any.
LEMMA WorkerAdvances ==
  ASSUME SpanInv, NEW u \in Units, Worker(u)
  PROVE  \/ budget' = budget
         \/ \E b : budget' = [budget EXCEPT ![u] = b] /\ Advances(budget[u], b)
<1>ledger. budget[u] \in LedgerAt(stage[u])
  BY DEF SpanInv, LedgerMatchesStage
<1>1. CASE RecordAttempt(u)
  <2>1. budget[u] = NewUnit /\ budget' = [budget EXCEPT ![u] = Attempted]
    BY <1>1, <1>ledger DEF RecordAttempt, At, LedgerAt, Attempted, RecordUnit, Record
  <2> QED BY <2>1, LedgerStatus DEF Advances
<1>2. CASE TransportFails(u)
  <2>1. budget[u] = Attempted /\ budget' = [budget EXCEPT ![u] = Failed]
    BY <1>2, <1>ledger, OpenLedgers
    DEF TransportFails, At, LedgerAt, RecordOutcome, Failed, RecordUnit, Record
  <2> QED BY <2>1, LedgerStatus DEF Advances, Categories
<1>3. CASE RecordDelivery(u)
  <2>1. budget[u] = Attempted /\ budget' = [budget EXCEPT ![u] = Delivered]
    BY <1>3, <1>ledger DEF RecordDelivery, At, LedgerAt, Delivered, RecordUnit, Record
  <2> QED BY <2>1, LedgerStatus DEF Advances
<1>4. ASSUME NEW check \in Checks, Reject(u, check)
      PROVE  \E b : budget' = [budget EXCEPT ![u] = b] /\ Advances(budget[u], b)
  <2>1. /\ budget[u] = IF check = "evidence" THEN Valid ELSE Delivered
        /\ budget' = [budget EXCEPT ![u] = Rejected(check)]
    BY <1>4, <1>ledger, OpenLedgers
    DEF Reject, At, LedgerAt, RecordOutcome, Rejected, AfterRejection, Checks, RecordUnit, Record
  <2>2. Advances(budget[u], Rejected(check))
    BY <2>1, LedgerStatus DEF Advances, Categories
  <2> QED BY <2>1, <2>2
<1>5. CASE PassSchema(u)
  <2>1. budget[u] = Delivered /\ budget' = [budget EXCEPT ![u] = Valid]
    BY <1>5, <1>ledger DEF PassSchema, At, LedgerAt, Valid, RecordUnit, Record
  <2> QED BY <2>1, LedgerStatus DEF Advances
<1>6. CASE Accept(u)
  <2>1. budget[u] = Valid /\ budget' = [budget EXCEPT ![u] = Accepted]
    BY <1>6, <1>ledger, OpenLedgers
    DEF Accept, At, LedgerAt, RecordOutcome, Accepted, RecordUnit, Record
  <2> QED BY <2>1, LedgerStatus DEF Advances
<1>7. CASE \/ Start(u) \/ WriteRequest(u) \/ Post(u) \/ Answer(u) \/ PassUnrecorded(u)
           \/ SaveByWorker(u) \/ SaveByWorkerRaises(u) \/ Abort(u)
  BY <1>7 DEF Start, WriteRequest, Post, Answer, PassUnrecorded, SaveByWorker, Save,
              SaveByWorkerRaises, SaveRaises, Abort, ledgerVars
<1> QED
  BY <1>1, <1>2, <1>3, <1>4, <1>5, <1>6, <1>7 DEF Worker, Progress

LEMMA LedgerStep == ASSUME SpanInv, [Next]_vars PROVE [Ledger!Next]_Statuses
<1>1. CASE budget' = budget
  BY <1>1 DEF Statuses
<1>2. ASSUME NEW u \in Units, Worker(u) PROVE [Ledger!Next]_Statuses
  <2>1. SUFFICES ASSUME NEW b, budget' = [budget EXCEPT ![u] = b], Advances(budget[u], b)
                 PROVE  [Ledger!Next]_Statuses
    BY <1>1, <1>2, WorkerAdvances
  <2>2. Statuses' = [Statuses EXCEPT ![u] = Status(b)] /\ Statuses[u] = Status(budget[u])
    BY <2>1 DEF SpanInv, Typed, Statuses
  <2>3. CASE Status(b) = Status(budget[u])
    BY <2>2, <2>3 DEF Statuses
  <2>4. CASE Status(budget[u]) = "unused" /\ Status(b) = "attempted"
    BY <2>2, <2>4 DEF Ledger!Next, Ledger!Attempt, Ledger!Advance, Statuses
  <2>5. CASE Status(budget[u]) = "attempted" /\ Status(b) = "accepted"
    BY <2>2, <2>5 DEF Ledger!Next, Ledger!Accept, Ledger!Advance, Statuses
  <2>6. CASE Status(budget[u]) = "attempted" /\ Status(b) \in Categories
    BY <2>2, <2>6 DEF Ledger!Next, Ledger!Fail, Ledger!Advance, Statuses, Categories
  <2> QED BY <2>1, <2>3, <2>4, <2>5, <2>6 DEF Advances
<1>3. CASE RecordPersisted
  <2>1. /\ \A u \in Units : budget[u] = Accepted
        /\ budget' = [u \in Units |-> Persisted]
    BY <1>3 DEF RecordPersisted, Record, SpanInv, PersistedLast, Persisted
  <2>2. /\ \A u \in Units : Statuses[u] = "accepted"
        /\ Statuses' = [u \in Units |-> "persisted"]
    BY <2>1, LedgerStatus DEF Statuses
  <2> QED BY <2>2 DEF Ledger!Next, Ledger!Persist, Statuses
<1>4. CASE MainStep /\ ~RecordPersisted
  BY <1>1, <1>4 DEF MainStep, Collect, ReportFailure, WriteResults, SaveByMain, Save, Aggregate,
                    MainRaises, SaveRaises, ledgerVars
<1> QED
  BY <1>1, <1>2, <1>3, <1>4 DEF Next, Crash, Stopped, vars, ledgerVars

\* The accounting of the worker pool implements AttemptLedger: a unit makes one
\* attempt, gets at most one category and keeps it, and units are persisted all
\* together, only when each was accepted (README.md, "Pipeline stages").
THEOREM LedgerImplemented == Spec => ImplementsLedger
<1>1. Init => Ledger!Init
  BY LedgerStatus DEF Init, Ledger!Init
<1>2. SpanInv /\ [Next]_vars => [Ledger!Next]_Statuses
  BY LedgerStep
<1> QED BY <1>1, <1>2, SpanInvariant, PTL DEF Spec, ImplementsLedger, Ledger!Spec, Statuses
=============================================================================
