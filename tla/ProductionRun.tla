---------------------------- MODULE ProductionRun ----------------------------
(***************************************************************************)
(* The life of an output directory: run() (src/runtime/production_runner)  *)
(* writes one artifact after the other, rebuild_projection may project the *)
(* graph again, and the viewer decides from the files which runs it shows. *)
(* Every write may fail and the process may die between any two of them.   *)
(* A rebuild may run beside the call that made the directory: an import is *)
(* the reading of what the namespace holds, its replacement and the check, *)
(* and a view is rewritten from what was read of the earlier one.          *)
(*                                                                         *)
(* What the artifacts hold is kept where a reader decides by it: who wrote *)
(* them, the parity verdict, the validation verdict, the time of           *)
(* completion, the projection names.                                       *)
(***************************************************************************)
EXTENDS Naturals, FiniteSets, SequencesExt

CONSTANTS
  Processes,    \* calls of run()
  Directories,  \* output directories
  Target,       \* the directory each call was given
  Names,        \* projection type names the operator may configure
  Nobody,       \* the author of an absent file
  MaxRebuilds   \* bound: rebuilds of one directory

ASSUME RunAssumption ==
  Target \in [Processes -> Directories] /\ Nobody \notin Processes /\ MaxRebuilds \in Nat

\* What run() does, in its order: the artifacts it writes, and the three
\* steps that write none.
Steps == <<"resolved_run_config", "prompt_manifest", "run_manifest", "source",
           "spans", "local_entities", "local_relations",
           "entity_resolution", "global_entities", "fact_graph",
           "model_call_budget", "projection_manifest", "import", "parity", "edge_diff",
           "validation_report", "run_report", "completion_status", "earlier_view",
           "graph_view">>
Unwritten == {"import", "parity", "earlier_view"}
Artifacts == (ToSet(Steps) \ Unwritten) \cup {"terminal_failure"}

\* The step before which a failed check writes terminal_failure.json: the
\* extraction, its evidence, the graph contract.
Checked == {"spans", "entity_resolution", "fact_graph"}

Verdicts == {"none", "passed", "schema", "data"}

VARIABLES
  configured,  \* the projection names in the settings files
  at,          \* the next step of each call: 0 before it has started
  ended,       \* calls that returned, raised or died
  settings,    \* the names each call read
  verdict,     \* the parity verdict each call holds
  earlier,     \* the time each call read in an earlier graph_view.json, or 0
  author,      \* who wrote each artifact of each directory
  manifest,    \* the names in projection_manifest.json
  diff,        \* the verdict in json_neo4j_edge_diff.json
  valid,       \* whether validation_report.json says passed
  completed,   \* completed_at_utc in graph_view.json, 0 when absent
  clock,       \* the time
  namespace,   \* the images of the directory's graph in Neo4j: whose graph,
               \* under which names, made by which import
  open,        \* the transactions that replace it: the images each has read,
               \* and whether it met another one
  overlapped,  \* history: whether the last import to commit met another one
  rebuild      \* the rebuild of each directory: where it is, what it knows, and
               \* (history) whether it began beside a call

runVars == <<at, ended, settings, verdict, earlier>>
fileVars == <<author, manifest, diff, valid, completed>>
neo4jVars == <<namespace, open, overlapped>>
vars == <<configured, runVars, fileVars, clock, neo4jVars, rebuild>>

Idle == [at |-> "idle", done |-> 0, names |-> {}, verdict |-> "none",
         earlier |-> 0, beside |-> FALSE]

Init ==
  /\ configured \in Names
  /\ at = [p \in Processes |-> 0] /\ ended = {}
  /\ settings = [p \in Processes |-> configured]
  /\ verdict = [p \in Processes |-> "none"]
  /\ earlier = [p \in Processes |-> 0]
  /\ author = [d \in Directories |-> [a \in Artifacts |-> Nobody]]
  /\ manifest = [d \in Directories |-> {}]
  /\ diff = [d \in Directories |-> "none"]
  /\ valid = [d \in Directories |-> FALSE]
  /\ completed = [d \in Directories |-> 0] /\ clock = 0
  /\ namespace = [d \in Directories |-> {}]
  /\ open = [d \in Directories |-> {}]
  /\ overlapped = [d \in Directories |-> FALSE]
  /\ rebuild = [d \in Directories |-> Idle]

Present(d) == {a \in Artifacts : author[d][a] # Nobody}
-----------------------------------------------------------------------------
(* Neo4j, as import_neo4j uses it for one namespace.                       *)

\* The transaction of import i begins, or is tried again, and reads what the
\* namespace holds.
Reads(d, i) ==
  LET others == {t \in open[d] : t.import # i}
  IN open' = [open EXCEPT ![d] =
       {[t EXCEPT !.met = TRUE] : t \in others}
       \cup {[import |-> i, seen |-> namespace[d], met |-> others # {}]}]

\* Mutant: nothing is deleted.
Replaced_Kept(images, t, image) == images \cup {image}

\* It deletes what it has read and creates its own image.
Replaced(images, t, image) == (images \ t.seen) \cup {image}

Commits(d, t, by, names) ==
  /\ namespace' = [namespace EXCEPT ![d] =
       Replaced(@, t, [by |-> by, names |-> names, import |-> t.import])]
  /\ open' = [open EXCEPT ![d] = @ \ {t}]
  /\ overlapped' = [overlapped EXCEPT ![d] = t.met]

RolledBack(d, i) == open' = [open EXCEPT ![d] = {t \in @ : t.import # i}]
-----------------------------------------------------------------------------
(* run()                                                                   *)

Running(p) == p \notin ended /\ at[p] > 0
AtWork(d) == \E p \in Processes : Running(p) /\ Target[p] = d

\* The directory must not exist; the settings are read.  It is made later.
Begin(p) ==
  /\ p \notin ended /\ at[p] = 0
  /\ IF Present(Target[p]) = {}
     THEN /\ at' = [at EXCEPT ![p] = 1]
          /\ settings' = [settings EXCEPT ![p] = configured]
          /\ UNCHANGED ended
     ELSE ended' = ended \cup {p} /\ UNCHANGED <<at, settings>>
  /\ UNCHANGED <<configured, verdict, earlier, fileVars, clock, neo4jVars, rebuild>>

Advance(p) == at' = [at EXCEPT ![p] = @ + 1]
Put(p, d, a) == author' = [author EXCEPT ![d][a] = p]
StepOf(p) == IF at[p] \in DOMAIN Steps THEN Steps[at[p]] ELSE "return"

\* Mutant: the files are written whatever validation said.
MayWrite_Always(p, a) == TRUE

\* completion_status.json only after a validation that passed.
MayWrite(p, a) == a = "completion_status" => verdict[p] = "passed"

\* Mutant: a rewritten view is a new one.
Stamp_Now(before) == clock + 1

\* write_graph_view keeps the time of the earlier view it has read.
Stamp(before) == IF before # 0 THEN before ELSE clock + 1

Write(p) ==
  /\ Running(p)
  /\ LET d == Target[p]
         a == StepOf(p)
         set(f, name, value) == IF a = name THEN [f EXCEPT ![d] = value] ELSE f
     IN /\ a \in Artifacts /\ MayWrite(p, a)
        /\ Put(p, d, a) /\ Advance(p)
        /\ manifest' = set(manifest, "projection_manifest", {settings[p]})
        /\ diff' = set(diff, "edge_diff", verdict[p])
        /\ valid' = set(valid, "validation_report", verdict[p] = "passed")
        /\ completed' = set(completed, "graph_view", Stamp(earlier[p]))
        /\ clock' = IF a = "graph_view" THEN clock + 1 ELSE clock
  /\ UNCHANGED <<configured, ended, settings, verdict, earlier, neo4jVars, rebuild>>

ImportReads(p) ==
  /\ Running(p) /\ StepOf(p) = "import"
  /\ Reads(Target[p], p)
  /\ UNCHANGED <<configured, runVars, fileVars, clock, namespace, overlapped, rebuild>>

\* The transaction commits, whether or not the call learns of it.
ImportCommits(p) ==
  /\ Running(p) /\ StepOf(p) = "import"
  /\ \E t \in open[Target[p]] : t.import = p /\ Commits(Target[p], t, p, settings[p])
  /\ Advance(p)
  /\ UNCHANGED <<configured, ended, settings, verdict, earlier, fileVars, clock, rebuild>>

\* The namespace is read back and compared with the document.
CheckParity(p) ==
  /\ Running(p) /\ StepOf(p) = "parity"
  /\ \E v \in Verdicts \ {"none"} : verdict' = [verdict EXCEPT ![p] = v]
  /\ Advance(p)
  /\ UNCHANGED <<configured, ended, settings, earlier, fileVars, clock, neo4jVars, rebuild>>

ReadEarlierView(p) ==
  /\ Running(p) /\ StepOf(p) = "earlier_view"
  /\ earlier' = [earlier EXCEPT ![p] = completed[Target[p]]]
  /\ Advance(p)
  /\ UNCHANGED <<configured, ended, settings, verdict, fileVars, clock, neo4jVars, rebuild>>

AfterCheck(p) == ended' = ended \cup {p}

\* A check fails in the way its handler expects.
CheckFails(p) ==
  /\ Running(p) /\ StepOf(p) \in Checked
  /\ Put(p, Target[p], "terminal_failure")
  /\ AfterCheck(p)
  /\ UNCHANGED <<configured, at, settings, verdict, earlier, manifest, diff, valid, completed,
                 clock, neo4jVars, rebuild>>

\* It returns, anything else raises, validation did not pass, or the process
\* dies: the files stay, an open transaction is rolled back.
Ends(p) ==
  /\ Running(p)
  /\ ended' = ended \cup {p}
  /\ RolledBack(Target[p], p)
  /\ UNCHANGED <<configured, at, settings, verdict, earlier, fileVars, clock, namespace,
                 overlapped, rebuild>>

Run(p) ==
  \/ Begin(p) \/ Write(p) \/ ImportReads(p) \/ ImportCommits(p) \/ CheckParity(p)
  \/ ReadEarlierView(p) \/ CheckFails(p) \/ Ends(p)
-----------------------------------------------------------------------------
(* rebuild_projection, and the operator.                                   *)

\* require_matching_projection
NamesMatch(d) == configured \in manifest[d]

RebuildTo(d, next) == rebuild' = [rebuild EXCEPT ![d] = next]

RebuildBegins(d) ==
  /\ rebuild[d].at = "idle" /\ rebuild[d].done < MaxRebuilds
  /\ {"fact_graph", "projection_manifest"} \subseteq Present(d)
  /\ NamesMatch(d)
  /\ RebuildTo(d, [rebuild[d] EXCEPT !.at = "import", !.done = @ + 1,
                                     !.names = {configured}, !.beside = AtWork(d)])
  /\ UNCHANGED <<configured, runVars, fileVars, clock, neo4jVars>>

\* Rebuilds of one directory are numbered as they begin.
RebuildReads(d) ==
  /\ rebuild[d].at = "import"
  /\ Reads(d, rebuild[d].done)
  /\ UNCHANGED <<configured, runVars, fileVars, clock, namespace, overlapped, rebuild>>

RebuildCommits(d) ==
  /\ rebuild[d].at = "import"
  /\ \E t \in open[d], n \in rebuild[d].names :
       t.import = rebuild[d].done /\ Commits(d, t, author[d]["fact_graph"], n)
  /\ RebuildTo(d, [rebuild[d] EXCEPT !.at = "parity"])
  /\ UNCHANGED <<configured, runVars, fileVars, clock>>

RebuildChecks(d) ==
  /\ rebuild[d].at = "parity"
  /\ \E v \in Verdicts \ {"none"} :
       RebuildTo(d, [rebuild[d] EXCEPT !.at = "diff", !.verdict = v])
  /\ UNCHANGED <<configured, runVars, fileVars, clock, neo4jVars>>

RebuildWritesDiff(d) ==
  /\ rebuild[d].at = "diff"
  /\ diff' = [diff EXCEPT ![d] = rebuild[d].verdict]
  /\ Put(author[d]["fact_graph"], d, "edge_diff")
  /\ RebuildTo(d, [rebuild[d] EXCEPT
       !.at = IF rebuild[d].verdict = "passed" THEN "earlier_view" ELSE "idle"])
  /\ UNCHANGED <<configured, runVars, manifest, valid, completed, clock, neo4jVars>>

RebuildReadsView(d) ==
  /\ rebuild[d].at = "earlier_view"
  /\ RebuildTo(d, [rebuild[d] EXCEPT !.at = "view", !.earlier = completed[d]])
  /\ UNCHANGED <<configured, runVars, fileVars, clock, neo4jVars>>

RebuildWritesView(d) ==
  /\ rebuild[d].at = "view"
  /\ Put(author[d]["fact_graph"], d, "graph_view")
  /\ completed' = [completed EXCEPT ![d] = Stamp(rebuild[d].earlier)]
  /\ clock' = clock + 1
  /\ RebuildTo(d, [rebuild[d] EXCEPT !.at = "idle"])
  /\ UNCHANGED <<configured, runVars, manifest, diff, valid, neo4jVars>>

RebuildFails(d) ==
  /\ rebuild[d].at # "idle"
  /\ RebuildTo(d, [rebuild[d] EXCEPT !.at = "idle"])
  /\ RolledBack(d, rebuild[d].done)
  /\ UNCHANGED <<configured, runVars, fileVars, clock, namespace, overlapped>>

Rebuild(d) ==
  \/ RebuildBegins(d) \/ RebuildReads(d) \/ RebuildCommits(d) \/ RebuildChecks(d)
  \/ RebuildWritesDiff(d) \/ RebuildReadsView(d) \/ RebuildWritesView(d) \/ RebuildFails(d)

\* The operator edits the settings.
Configure ==
  /\ configured' \in Names \ {configured}
  /\ UNCHANGED <<runVars, fileVars, clock, neo4jVars, rebuild>>

Next ==
  \/ \E p \in Processes : Run(p)
  \/ \E d \in Directories : Rebuild(d)
  \/ Configure

Spec == Init /\ [][Next]_vars

\* What nothing in the code ensures, and the properties below need: no two
\* calls are at work in one directory.  The test of Begin and the creation of
\* the directory are far apart (production_runner.py:309, 323), so two calls
\* can both find it absent.
Alone ==
  \A p, q \in Processes : Running(p) /\ Running(q) /\ Target[p] = Target[q] => p = q
-----------------------------------------------------------------------------
(* graph_view.py: what the viewer accepts.                                 *)

Required == {"fact_graph", "run_report", "validation_report", "edge_diff", "projection_manifest"}

\* load_successful_run: of the parity diff it reads the data fields only.
Loadable(d) ==
  /\ Required \subseteq Present(d)
  /\ valid[d]
  /\ diff[d] \in {"passed", "schema"}
-----------------------------------------------------------------------------
RunTypeOK ==
  /\ configured \in Names /\ settings \in [Processes -> Names]
  /\ at \in [Processes -> 0 .. Len(Steps) + 1] /\ ended \subseteq Processes
  /\ verdict \in [Processes -> Verdicts] /\ diff \in [Directories -> Verdicts]
  /\ author \in [Directories -> [Artifacts -> Processes \cup {Nobody}]]
  /\ \A p \in Processes : verdict[p] # "none" => manifest[Target[p]] # {}
  /\ \A d \in Directories : "fact_graph" \notin Present(d) => rebuild[d] = Idle

\* completion_status.json vouches for the whole directory: every earlier
\* artifact, a validation that passed, a projected graph, no failure report
\* (production_runner.py:385-395).
CompletionIsEarned ==
  \A d \in Directories : "completion_status" \in Present(d) =>
    /\ ToSet(Steps) \ (Unwritten \cup {"graph_view"}) \subseteq Present(d)
    /\ "terminal_failure" \notin Present(d)
    /\ valid[d] /\ namespace[d] # {}

\* A failed check stops the run before anything is persisted or projected
\* (production_runner.py:248, 339-371; docs/ARCHITECTURE.md "Any failure stops
\* the run before embeddings and Neo4j").
FailureExcludesGraph ==
  \A d \in Directories : "terminal_failure" \in Present(d) =>
    "fact_graph" \notin Present(d) /\ namespace[d] = {}

\* README.md:196: a graph can be opened only after its projection; and what
\* the viewer queries was projected from fact_graph.json under the recorded
\* names, once: it is doubled only if the last import to commit was at work
\* together with another one, and the next import alone repairs it
\* (graph_view.py:114-143, rebuild_projection.py:32-38,
\* json_neo4j_parity.py:280-333).
ViewableIsProjected ==
  \A d \in Directories : Loadable(d) =>
    /\ namespace[d] # {}
    /\ \A image \in namespace[d] :
         image.by = author[d]["fact_graph"] /\ image.names \in manifest[d]
    /\ overlapped[d] \/ \A a, b \in namespace[d] : a = b

\* fact_graph.json is the source of truth: nothing is projected before it is
\* on disk, and no later step, run or rebuild replaces it.  Nor does a rebuild
\* of an old run make it the most recently completed one: the time of its
\* first view stays, unless the rebuild began beside the call that made the
\* directory, when each may have found no view (graph_view.py:166, 249-256).
SourceOfTruth ==
  [][\A d \in Directories :
       /\ completed[d] \in {0, completed'[d]} \/ rebuild[d].beside
       /\ namespace'[d] # {} => author[d]["fact_graph"] # Nobody
       /\ author[d]["fact_graph"] \in {Nobody, author'[d]["fact_graph"]}]_vars

\* The state invariant of a run and its rebuilds.
RunInv == RunTypeOK /\ CompletionIsEarned /\ FailureExcludesGraph
=============================================================================
