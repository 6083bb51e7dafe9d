------------------------- MODULE CompatibilityProbe -------------------------
(***************************************************************************)
(* The compatibility probe (src/devtools/probe_model_compatibility.py and  *)
(* src/runtime/provider_compatibility.py): model discovery, plain chat,    *)
(* the matrix of tool-choice modes, then requests as production sends them.*)
(* Its verdict is compared with what the production worker                 *)
(* (src/runtime/production_runner.py) would do with the same replies.      *)
(*                                                                         *)
(* The server is external: each request gets any of Replies.  A request    *)
(* that raises, and a body that is no JSON object, is a reply without a    *)
(* choice.  The arguments of a tool call are told apart by what the checks *)
(* make of them.                                                           *)
(***************************************************************************)
EXTENDS Naturals, Sequences

CONSTANTS
  Profiles,   \* provider profiles: policy, toolChoice, accepted finish reasons
  Replies,    \* what the server may answer to a chat request
  MaxRepeats  \* bound of --production-repeats

\* A request that raises and a body that is no object leave nothing to judge.
Judgeable(r) ==
  /\ r.status = 0 => r.finish = "absent"
  /\ r.finish = "absent" => r.content = "none" /\ ~r.reasoning /\ r.calls = "absent"
  /\ r.calls = "absent" <=> r.arguments = "absent"

ASSUME ProbeAssumption == MaxRepeats \in Nat /\ \A r \in Replies : Judgeable(r)

VARIABLES
  profile,  \* the selected provider profile
  args,     \* the command line
  stage,    \* where main is
  modes,    \* the tool-choice modes still to try
  plain,    \* the verdict on plain chat
  matrix,   \* the verdict on each mode tried
  rows,     \* what became of each production request
  status,   \* running, or how the probe ended
  sent      \* the last tool-choice mode requested

vars == <<profile, args, stage, modes, plain, matrix, rows, status, sent>>

Pass == "PASS"
-----------------------------------------------------------------------------
(* Judging one reply.  A verdict is Pass or the class of the failure.      *)

\* The plain chat accepts reasoning next to content, the others do not.
ReasoningValid(r, separated) ==
  CASE profile.policy = "require_empty"  -> ~r.reasoning
    [] profile.policy = "allow_nonempty" -> r.reasoning /\ (separated => r.content = "none")
    [] OTHER                             -> TRUE

PlainVerdict(r) ==
  IF /\ r.status = 200
     /\ r.content # "none" \/ r.reasoning
     /\ ReasoningValid(r, FALSE)
     /\ r.finish # "length"
  THEN Pass
  ELSE CASE ~ReasoningValid(r, FALSE) -> "CHAT_TEMPLATE_KWARGS_IGNORED_OR_UNSUPPORTED"
         [] r.finish = "length"       -> "OUTPUT_BUDGET_EXHAUSTED"
         [] OTHER                     -> "PLAIN_CHAT_FAILED"

OneNamedCall(r) == r.calls = "one"

ToolVerdict(r) ==
  IF /\ r.status = 200
     /\ OneNamedCall(r) /\ r.arguments = "plain"
     /\ ReasoningValid(r, TRUE)
     /\ r.content # "special"
     /\ r.finish \in profile.accepted
  THEN Pass
  ELSE CASE r.status = 500       -> "SERVER_TOOL_CHOICE_MODE_UNSUPPORTED"
         [] r.finish = "length"  -> "OUTPUT_BUDGET_EXHAUSTED"
         [] r.reasoning          -> "THINKING_DISABLE_PARAMETER_IGNORED"
         [] r.calls = "absent"   -> IF r.content = "special" THEN "SERVER_KIMI_TOOL_PARSER_MISSING"
                                    ELSE "MODEL_DID_NOT_CALL_TOOL"
         [] OTHER                -> "TOOL_PARSER_OR_MODEL_OUTPUT_INVALID"

\* The contract accepts the arguments; the enrichment accepts them too.
SchemaValid(r) == r.arguments \in {"plain", "binding", "unbacked"}
Enriches(r) == r.arguments \in {"plain", "binding"}

\* evaluate_structured_response; the contract has no evidence ids to check.
StructuredPass(r) ==
  /\ r.status = 200
  /\ OneNamedCall(r) /\ SchemaValid(r)
  /\ ReasoningValid(r, TRUE)
  /\ r.content # "special"
  /\ r.finish # "length" /\ r.finish \in profile.accepted

\* The span contract the probe adds to a schema-valid reply.
ContractPass(r) == Enriches(r) /\ (args.expectEmpty => r.arguments # "binding")

\* What the production worker accepts: raise_for_status lets any 2xx by.
WorkerAccepts(r) ==
  /\ r.status \in 200 .. 299
  /\ r.finish \in profile.accepted
  /\ profile.policy = "require_empty" => ~r.reasoning
  /\ OneNamedCall(r)
  /\ Enriches(r)
-----------------------------------------------------------------------------
\* What the argument parser lets through.
Arguments ==
  {a \in [productionOnly : BOOLEAN, toolOnly : BOOLEAN, expectEmpty : BOOLEAN,
          repeats : 0 .. MaxRepeats] :
     a.productionOnly => a.repeats > 0 /\ ~a.toolOnly}

ToolCases ==
  CASE args.productionOnly -> <<>>
    [] args.toolOnly       -> <<"auto">>
    [] OTHER               -> <<"auto", "required", "named", "none">>

SelectedMode ==
  CASE profile.toolChoice = "object" -> "named"
    [] profile.toolChoice = "null"   -> "none"
    [] OTHER                         -> profile.toolChoice

\* Mutant: any mode that works will do.
SelectedPass_AnyMode == args.productionOnly \/ \E m \in DOMAIN matrix : matrix[m] = Pass

\* Production-only probes take the selected mode on trust.
SelectedPass ==
  args.productionOnly \/ (SelectedMode \in DOMAIN matrix /\ matrix[SelectedMode] = Pass)

Init ==
  /\ profile \in Profiles
  /\ args \in Arguments
  /\ stage = "discovery" /\ status = "running"
  /\ modes = ToolCases
  /\ plain = "none" /\ matrix = <<>> /\ rows = <<>> /\ sent = "none"

Finish(how) == status' = how /\ stage' = "finished"

\* GET /models: unavailable (any error, 404, a malformed list) is recorded
\* and passed over; a list without the served model ends the probe.
Discover ==
  /\ stage = "discovery"
  /\ \E models \in {"unavailable", "served", "missing"} :
       IF models = "missing" THEN Finish("blocked")
       ELSE /\ stage' = IF args.productionOnly \/ args.toolOnly THEN "tools" ELSE "plain"
            /\ UNCHANGED status
  /\ UNCHANGED <<profile, args, modes, plain, matrix, rows, sent>>

PlainChat ==
  /\ stage = "plain"
  /\ \E r \in Replies :
       /\ plain' = PlainVerdict(r)
       /\ IF PlainVerdict(r) = Pass THEN stage' = "tools" /\ UNCHANGED status
          ELSE Finish("blocked")
  /\ UNCHANGED <<profile, args, modes, matrix, rows, sent>>

With(m, v) == [n \in DOMAIN matrix \cup {m} |-> IF n = m THEN v ELSE matrix[n]]

\* One mode after the other, whatever became of the one before.
TryMode ==
  /\ stage = "tools" /\ modes # <<>>
  /\ \E r \in Replies : matrix' = With(modes[1], ToolVerdict(r))
  /\ sent' = modes[1]
  /\ modes' = SubSeq(modes, 2, Len(modes))
  /\ UNCHANGED <<profile, args, stage, plain, rows, status>>

ModesTried ==
  /\ stage = "tools" /\ modes = <<>>
  /\ stage' = "choice"
  /\ UNCHANGED <<profile, args, modes, plain, matrix, rows, status, sent>>

CheckSelected ==
  /\ stage = "choice"
  /\ IF ~SelectedPass THEN Finish("blocked")
     ELSE IF args.repeats = 0 THEN Finish("passed")
     ELSE stage' = "input" /\ UNCHANGED status
  /\ UNCHANGED <<profile, args, modes, plain, matrix, rows, sent>>

\* The unit and the span asked for: one that is not in the input ends main.
SelectInput ==
  /\ stage = "input"
  /\ \E found \in BOOLEAN :
       IF found THEN stage' = "production" /\ UNCHANGED status ELSE Finish("error")
  /\ UNCHANGED <<profile, args, modes, plain, matrix, rows, sent>>

\* Mutant: the span contract is reported but does not decide.
Row_SchemaOnly(r) ==
  [result |-> StructuredPass(r), usable |-> WorkerAccepts(r), status |-> r.status]

\* A row of the report, with what the worker would do with the reply.
Row(r) ==
  [result |-> StructuredPass(r) /\ ContractPass(r),
   usable |-> WorkerAccepts(r),
   status |-> r.status]

ProductionRequest ==
  /\ stage = "production"
  /\ Len(rows) < args.repeats
  /\ \E r \in Replies : rows' = Append(rows, Row(r))
  /\ UNCHANGED <<profile, args, stage, modes, plain, matrix, status, sent>>

\* Judged together, when all repetitions are done.
JudgeRepetitions ==
  /\ stage = "production"
  /\ Len(rows) = args.repeats
  /\ Finish(IF \A i \in DOMAIN rows : rows[i].result THEN "passed" ELSE "failed")
  /\ UNCHANGED <<profile, args, modes, plain, matrix, rows, sent>>

Finished == stage = "finished" /\ UNCHANGED vars

Step ==
  \/ Discover \/ PlainChat \/ TryMode \/ ModesTried \/ CheckSelected
  \/ SelectInput \/ ProductionRequest \/ JudgeRepetitions
Next == Step \/ Finished
Spec == Init /\ [][Next]_vars
-----------------------------------------------------------------------------
\* Types: verdicts and stages of the code, modes tried without repetition.
ProbeTypeOK ==
  /\ profile \in Profiles /\ args \in Arguments
  /\ stage \in {"discovery", "plain", "tools", "choice", "input", "production", "finished"}
  /\ status \in {"running", "blocked", "failed", "passed", "error"}
  /\ (status = "running") <=> (stage # "finished")
  /\ DOMAIN matrix \subseteq {"auto", "required", "named", "none"}
  /\ Len(rows) <= args.repeats

\* What the verdict "passed" vouches for (main 607-670 against the worker's
\* own checks, production_runner.py 150-240): production would have accepted
\* every repetition, and unless told to skip them the plain chat and the mode
\* the profile selects had passed.
PassedMeansUsable ==
  status = "passed" =>
    /\ Len(rows) = args.repeats
    /\ \A i \in DOMAIN rows : rows[i].usable
    /\ args.productionOnly \/ (SelectedMode \in DOMAIN matrix /\ matrix[SelectedMode] = Pass)
    /\ args.productionOnly \/ args.toolOnly \/ plain = Pass

\* "without ... retries, or fallbacks" (module docstring): a mode that works
\* never stands in for the selected one, and a mode that fails never blocks a
\* probe whose selected mode works.
NoFallback ==
  stage = "finished" /\ matrix # <<>> /\ modes = <<>> =>
    ((status = "blocked") <=>
       ~(SelectedMode \in DOMAIN matrix /\ matrix[SelectedMode] = Pass))

\* The state invariant of the probe.
ProbeInv == ProbeTypeOK /\ NoFallback
=============================================================================
