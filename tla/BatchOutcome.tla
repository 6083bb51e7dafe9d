---------------------------- MODULE BatchOutcome ----------------------------
(***************************************************************************)
(* What a batch promises (docs/BATCH_PROCESSING.md), without scheduler,    *)
(* threads, files or phases: spans are accepted or rejected once, in any   *)
(* order, and each graph group ends at most once, completed only if all    *)
(* its spans were accepted, failed only for a reason that concerns it.     *)
(***************************************************************************)
CONSTANTS
  Spans,          \* all evidence spans of the batch
  Groups,         \* the graph groups
  SpansOf         \* the spans of each group

VARIABLES
  continueOthers, \* whether the failure of one group leaves the others alone
  accepted, rejected, verdict

outcomeVars == <<continueOthers, accepted, rejected, verdict>>

Init ==
  /\ continueOthers \in BOOLEAN
  /\ accepted = {} /\ rejected = {}
  /\ verdict = [g \in Groups |-> "open"]

Undecided(s) == s \in Spans \ (accepted \cup rejected)

\* No span is decided after a group was: verdicts wait for all extraction.
Extracting == \A g \in Groups : verdict[g] = "open"

Accept(s) ==
  /\ Extracting /\ Undecided(s)
  /\ accepted' = accepted \cup {s}
  /\ UNCHANGED <<continueOthers, rejected, verdict>>

Reject(s) ==
  /\ Extracting /\ Undecided(s)
  /\ rejected' = rejected \cup {s}
  /\ UNCHANGED <<continueOthers, accepted, verdict>>

Decide(g, v) ==
  /\ verdict[g] = "open"
  /\ verdict' = [verdict EXCEPT ![g] = v]
  /\ UNCHANGED <<continueOthers, accepted, rejected>>

CompleteGroup(g) == SpansOf[g] \subseteq accepted /\ Decide(g, "completed")

\* A rejected span fails its group.
FailExtraction(g) == SpansOf[g] \cap rejected # {} /\ Decide(g, "failed")

\* All spans were accepted, but embedding, validation or projection failed.
FailFinalization(g) == SpansOf[g] \subseteq accepted /\ Decide(g, "failed")

\* The group was cut short by the failure of another one.
Abandon(g) ==
  /\ ~continueOthers /\ rejected # {}
  /\ ~(SpansOf[g] \subseteq accepted)
  /\ Decide(g, "failed")

Next ==
  \/ \E s \in Spans : Accept(s) \/ Reject(s)
  \/ \E g \in Groups :
       CompleteGroup(g) \/ FailExtraction(g) \/ FailFinalization(g) \/ Abandon(g)

Spec == Init /\ [][Next]_outcomeVars
=============================================================================
