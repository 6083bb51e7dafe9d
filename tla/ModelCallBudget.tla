-------------------------- MODULE ModelCallBudget --------------------------
(***************************************************************************)
(* UnitModelCallBudget (src/runtime/model_call_budget.py): what is counted *)
(* of the one model request a unit may make.  A unit's record is created   *)
(* by the first call for it, so a record that equals NewUnit stands for    *)
(* one that does not exist yet.                                            *)
(*                                                                         *)
(* Left out: tokens, reasoning and timeouts, which are sums no decision    *)
(* depends on; automatic retries and post-extraction calls, which nothing  *)
(* in the program records; the embedding count, recorded by the run after  *)
(* the extraction.                                                         *)
(***************************************************************************)
EXTENDS Integers

Rejections == {"provider_response_rejected", "tool_contract_failed",
               "schema_failed", "evidence_failed"}
TerminalOutcomes == Rejections \cup {"transport_failed", "accepted"}

UnitBudget ==
  [primary_http_attempts : Nat, primary_successful_calls : Nat,
   primary_failed_attempts : Nat, transport_successes : Nat, transport_failures : Nat,
   rejections : [Rejections -> Nat], accepted_extractions : Nat,
   schema_valid_extractions : Nat, evidence_valid_extractions : Nat,
   persisted_span_units : Nat, terminal_outcome : TerminalOutcomes \cup {"none"}]

NewUnit ==
  [primary_http_attempts |-> 0, primary_successful_calls |-> 0,
   primary_failed_attempts |-> 0, transport_successes |-> 0, transport_failures |-> 0,
   rejections |-> [r \in Rejections |-> 0], accepted_extractions |-> 0,
   schema_valid_extractions |-> 0, evidence_valid_extractions |-> 0,
   persisted_span_units |-> 0, terminal_outcome |-> "none"]

RecordHttpAttempt(b) == [b EXCEPT !.primary_http_attempts = @ + 1]

\* _terminal raises when the unit already has an outcome.
Terminal(b, outcome) ==
  IF b.terminal_outcome = "none" THEN [b EXCEPT !.terminal_outcome = outcome] ELSE b

\* Mutant: the failure is counted only once, under its second name.
RecordTransportFailure_OneCounter(b) ==
  Terminal([b EXCEPT !.transport_failures = @ + 1], "transport_failed")

RecordTransportFailure(b) ==
  Terminal([b EXCEPT !.primary_failed_attempts = @ + 1, !.transport_failures = @ + 1],
           "transport_failed")

RecordTransportSuccess(b) == [b EXCEPT !.transport_successes = @ + 1]

RecordRejection(b, outcome) ==
  Terminal([b EXCEPT !.rejections[outcome] = @ + 1], outcome)

RecordAccepted(b) ==
  Terminal([b EXCEPT !.primary_successful_calls = @ + 1, !.accepted_extractions = @ + 1],
           "accepted")

RecordSchemaValid(b) == [b EXCEPT !.schema_valid_extractions = @ + 1]
RecordEvidenceValid(b) == [b EXCEPT !.evidence_valid_extractions = @ + 1]

\* Mutant: the record of persistence is forgotten.
RecordPersistedSpan_Skipped(b) == b

RecordPersistedSpan(b) == [b EXCEPT !.persisted_span_units = @ + 1]

TerminalRejections(b) ==
  b.rejections["provider_response_rejected"] + b.rejections["tool_contract_failed"]
  + b.rejections["schema_failed"] + b.rejections["evidence_failed"]

\* The two identities of assert_valid that a failed unit satisfies as well.
Balanced(b) ==
  /\ b.primary_successful_calls = b.accepted_extractions
  /\ b.primary_failed_attempts = b.transport_failures
  /\ b.primary_http_attempts =
       b.accepted_extractions + b.transport_failures + TerminalRejections(b)
  /\ b.transport_successes + b.transport_failures = b.primary_http_attempts

\* assert_valid returns without raising.
AssertValid(b) ==
  /\ b.primary_successful_calls = 1
  /\ Balanced(b)
  /\ b.accepted_extractions = 1 /\ b.terminal_outcome = "accepted"
  /\ b.schema_valid_extractions = 1
  /\ b.evidence_valid_extractions = 1
  /\ b.persisted_span_units = 1
=============================================================================
