---------------------------- MODULE BoundedBypass ----------------------------
(***************************************************************************)
(* The fairness promise of the round-robin rotation, over the scheduler of *)
(* BatchScheduler with one history variable: bypass[d][e] counts the spans *)
(* of document e that were admitted, in one waiting period of document d,  *)
(* at a moment when d could have been admitted instead.                    *)
(***************************************************************************)
EXTENDS BatchScheduler

VARIABLE bypass

bypassVars == <<schedulerVars, bypass>>

\* d has work and its own limit does not hold it back.
Waiting(d) == queues[d] # <<>> /\ documentInFlight[d] < PerDocumentLimit

NoBypass == [e \in Documents |-> 0]

\* A waiting period ends when the document is admitted, runs out of work, or
\* reaches its own limit.
AfterAdmission(e) ==
  bypass' = [d \in Documents |->
    IF d = e \/ ~Waiting(d)' THEN NoBypass
    ELSE IF Admissible(d) THEN [bypass[d] EXCEPT ![e] = @ + 1]
    ELSE bypass[d]]

AfterOther ==
  bypass' = [d \in Documents |-> IF Waiting(d)' THEN bypass[d] ELSE NoBypass]

BypassInit == SchedulerInit /\ bypass = [d \in Documents |-> NoBypass]

BypassNext ==
  \/ \E item \in Items : Acquire(item) /\ AfterAdmission(item.document)
  \/ \E item \in Items : Complete(item) /\ AfterOther
  \/ \E g \in Graphs : DiscardGraph(g) /\ AfterOther

BypassSpec == BypassInit /\ [][BypassNext]_bypassVars
FairBypassSpec == BypassSpec /\ SchedulerFairness

\* While a document waits, every other document, of its own graph or of
\* another, takes at most one slot the waiting one could have used, whatever
\* was skipped for a limit in between (batch_scheduler.py:51-64).
AtMostOneBypass == \A d, e \in Documents : bypass[d][e] \in 0 .. 1
=============================================================================
