# A formal model of the evidence-graph pipeline

The program turns text into a graph of facts. A document is split into evidence
spans; each span is sent to a language model in one schema-constrained request;
the answers are validated, aggregated, resolved into entities, written as an
authoritative `fact_graph.json` and projected into a namespace of Neo4j, which is
read back and compared. A *single run* does this for one input, a *batch* for many
documents in several graph groups, with one shared pool of requests. This
directory holds TLA+ modules that model the program, TLC configurations that
check them, and proofs that TLAPS checks.

Line numbers below are lines of the repository's files.

## 1. Inventory

| Component | State it keeps | Operations | What makes it correct |
|---|---|---|---|
| Batch scheduler, `runtime/batch_scheduler.py` | a queue per document, the rotation, three levels of in-flight counters | `acquire`, `complete`, `discard_graph` | limits hold, counters are exact, order in a document is kept, no stall while idle, bounded bypass |
| Batch runner, `runtime/batch_runner.py` | futures in flight, results and failures per graph, artifacts, report | submit, wait, record, finalize, report | no span lost or counted twice, the extraction barrier, one verdict per graph, isolation of failures, termination |
| Batch manifest and configuration, `runtime/batch_manifest.py`, `config/settings.py` | the resolved plan with source hashes, the settings | load, validate, resolve | membership, coherent limits, one profile, the identity recorded is the identity sent |
| Span extraction, `runtime/production_runner.py:74-300` | futures, `completed`, `failures`, the accounting object under a lock | worker stages, collection | one terminal outcome per attempt, accounting adds up, order restored |
| Model-call accounting, `runtime/model_call_budget.py` | counters and a terminal outcome per unit | `record_*`, `assert_valid` | at most one terminal outcome; an accepted unit validates |
| Transport, response checks and their probe, `runtime/transport_recovery.py`, `runtime/provider_compatibility.py`, `devtools/probe_model_compatibility.py` | none; the probe's report | parse, classify, judge | every malformed answer is rejected in a named category; a probe that passes means production would accept |
| Input splitting, `runtime/production_inputs.py` | none | `split_unit_spans`, `sentence_spans` | spans cover the text, offsets are right, splitting a span gives the span |
| Contracts, aggregation, projection, `prompts/contracts.py`, `runtime/span_semantic_temporal_contract.py`, `runtime/span_extraction.py`, `runtime/production_projection.py`, `runtime/final_graph_contract.py` | none | validate, enrich, namespace, project, deduplicate | references stay inside their span; the edges are the facts of the answers, each once |
| Entity resolution, `runtime/observable_entity_resolution.py`, `runtime/embedding_client.py` | parents of a union-find | embed, decide pairs, merge, number | the nodes are the components of the merge decisions |
| Neo4j importer, `runtime/json_neo4j_parity.py` | the nodes, edges and indexes of a namespace | check ownership, replace, read back, compare | all or nothing, never another owner's namespace, parity means equality |
| Single run, `runtime/production_runner.py:303-397` | the run directory | staged artifacts | completion is the last word and vouches for what precedes it |
| Viewer and rebuild, `runtime/graph_view.py`, `scripts/rebuild_projection.py` | the run directory, later | select, load, rebuild | only verified runs are shown |
| Artifact store, `runtime/artifact_store.py` | a file and a temporary file | `_atomic_write` | a reader sees the old or the new content |

How they interact: `run_batch` resolves the manifest, feeds all spans to the
scheduler, and is the scheduler's only caller. It submits `_extract_item` to a
thread pool; each call runs `_extract_span_units` (the worker pool of a single
run, with one task) on one span and its own accounting object. When nothing is
queued or in flight, the main thread finalizes the groups one by one: embedding
and resolution, projection, `fact_graph.json`, import, parity, completion file. A
single run goes through the same stages once. Viewer and rebuild read what those
left on disk. Shared state is small: the accounting object under its lock, the
run directory, and the Neo4j database.

What is hard: threads that end in any order; failures discovered while other
requests of the same group are in flight; the boundary between "admit no more"
and "await what runs"; a finalization that fails halfway, after effects on disk
and in the database; a crash between artifacts; a transaction that is retried or
whose reply is lost; closing pairwise decisions transitively; three series of ids
that are rebound one after the other. `PROJECT.json` lists each such place with
the properties that are about it.

## 2. Modules

| Module | Models | Checked by | Proofs |
|---|---|---|---|
| `BatchScheduler` | `FairRoundRobinScheduler` | `scheduler` | `BatchSchedulerProofs` |
| `BoundedBypass` (EXTENDS `BatchScheduler`) | the fairness of the rotation, by a history variable | `scheduler` | `BatchSchedulerProofs` |
| `BatchRunner` (EXTENDS `BatchScheduler`) | `run_batch`, `_extract_item` as one step, `_finalize_graph` | `batch_runner`, `failed_group` | `BatchRunnerProofs` |
| `BatchOutcome` | the abstract promise of a batch | implemented by `BatchRunner` | `OutcomeImplemented` |
| `BatchPlan` (EXTENDS `RequestContract`) | manifest validation, plan, start of a batch | `batch_plan` | `RequestProofs` |
| `RequestContract` | loading and validating settings, the request payload, its identity | `batch_plan` | `RequestProofs` |
| `ModelCallBudget` | a unit's record and the operations on it | used by `SpanExtraction` | `SpanExtractionProofs` |
| `SpanExtraction` (EXTENDS `ModelCallBudget`) | `_extract_span_units`: worker pool, lock, collection, artifacts | `span_extraction`, `attempt_categories` | `SpanExtractionProofs` |
| `AttemptLedger` | the abstract promise of the accounting | implemented by `SpanExtraction` | `LedgerImplemented` |
| `EvidenceSpans` | both splitting functions, character by character | `evidence_spans` | `DocumentProofs` |
| `FactGraph` | contracts, aggregation, projection, final contract | `fact_graph` | `DocumentProofs` |
| `EntityResolution` | embedding response, pair decisions, union-find, numbering | `entity_resolution` | `EntityResolutionProofs` |
| `Neo4jProjection` | `import_neo4j`: indexes, ownership, replacement, read-back, diff | `neo4j_projection` | `Neo4jProjectionProofs` |
| `ProjectedNamespace` | the abstract promise of a namespace to its readers | implemented by `Neo4jProjection` | `NamespaceImplemented` |
| `ProductionRun` | an output directory: `run()`, rebuilds, the viewer's acceptance | `production_run` | `ProductionRunProofs` |
| `CompatibilityProbe` | the probe's `main`, its checks, and the worker's | `compatibility_probe` | `RequestProofs` |
| `AtomicArtifact` | `_atomic_write` with deaths and power failures | proved only | `ProductionRunProofs` |
| `AtomicRegister` | what readers of an artifact rely on | implemented by `AtomicArtifact` | `RegisterImplemented` |

How they stand on each other: `AtomicArtifact` is why a write of an artifact is
one step in all other modules; a write that is interrupted after its rename is
there a write and then a raise. `SpanExtraction` with one unit is what one request
of `BatchRunner` stands for: it returns (accepted) or raises (rejected).
`EvidenceSpans` shows that splitting a span yields the span, on which
`_extract_item` relies. `FactGraph` takes from `EntityResolution` only that
mentions are partitioned. `Neo4jProjection` is the `import` step of
`ProductionRun` and of the finalization in `BatchRunner`, which keep of it a
verdict and the three ways it can end: returned, raised before, raised after its
effect. `BatchPlan` is what happens before `BatchRunner` starts, and establishes
the assumptions of `BatchScheduler` on limits and groups.

## 3. How the models correspond to the code

*BatchScheduler.* `queues` are the deques, `rotation` is `_active_documents`, the
counters have their names; `active` is the caller's dictionary of unfinished
requests. `Acquire(item)` is the whole of `acquire()`, including the limit on the
batch, the scan of the rotation and the move of the admitted document to its end.
The code rotates a deque past the documents it skips and rotates back; `Rotated`
states the result: the skipped documents keep their place. Document ids are
integers because the code only sorts and compares them. `Complete` is allowed
only for an active span, which is how the only caller uses it: the theorem
`RunnerRefinesScheduler` shows that.

*BatchRunner.* `phase` is the main thread's program counter: `admit` (the inner
loop), `wait`, `drain` (the loop over `done`), `select` (the loop over the
groups), the stages of `_finalize_graph`, `report`. `outcome` is the state of each
future and changes at any moment (`EndRequest`), also while the main thread
drains. Handling a future takes two steps, `PopDone` and `RecordAccepted` or
`RecordFailure`, so worker threads may interleave between them; an interrupt
while an accepted span is handled counts as its failure. `files`,
`published`, `neo4j` and `parity` are what is on disk and in the database.
`continueOthers` is the failure policy, chosen initially and never changed.
`FinalizeRaises` is any exception at any stage, an interrupt included; the embedder
and the importer may raise after their effect. The `try` ends only after the row of
the group is appended, so a stage of its own (`return`) stands between
`WriteCompletion` and `RecordCompleted`, and what is raised there is told apart in
`reported` (`interrupted`). The reports at the end are written one by one:
each document's status, `batch_report.json`, `batch_completion_status.json`. `Crash`
is the process dying between two steps: a rerun refuses the existing directory, so
there is no recovery to model.

*BatchOutcome.* A span is undecided, accepted or rejected; a group is open,
completed or failed. The refinement mapping reads spans from the results and
failures and verdicts from the two verdict files on disk; a completion file
stands, whatever an interrupt adds beside it.

*RequestContract, BatchPlan.* Settings are assembled (`Loaded`) from the two
sections of `extraction.yaml`, `runtime.yaml`, the environment and the caller, in
the code's order of precedence. `ValidRemote` and `ValidContract` are the validation,
`Schema` the tool schema (told apart by the two limits it is built from), `Payload`
the merged request body, `Requests` what is sent (nothing for a profile with another
transport, for which the code raises) and `Identity` what is recorded. `BatchPlan`
takes each batch through the two loads of the settings, validation, hashing, reading
and the creation of its output directory. A load is three steps, one for each section
that says something of requests, so an edit may fall between two of them and the
load be torn. `stale` is a history variable: the files that were written after a
batch's first load had read them and before its second one did.

*SpanExtraction.* `stage` is the program counter of each unit's worker: `queued`
(a task of the pool), `request`, `attempt`, `post`, `sent`, `answered`, the four
checks `provider`, `tool`, `schema`, `evidence`, and `returned` or `raised`.
`budget` is the accounting object, a record of counters per unit, and `saved` is
`model_call_attempts.json`. Every `with lock:` block is two steps: `Record`
changes the object and leaves the thread holding a `snapshot` (the payload built
by `as_dict()`), `Save` replaces the file by it. Between the two any other worker
may run, which is what the lock has to make harmless; `SaveRaises` is a write
that fails after the object was changed. `RecordOutcome` models that `_terminal`
raises on a second outcome. `Abort` is any exception that no handler expects.
The main thread is `phase`: it collects ended futures in any order, then reports
the failures or sorts and writes the results, counts them as persisted, and
returns. `Crash` may happen at any moment and leaves the files as they are.

*AttemptLedger.* A unit is unused, attempted, accepted, failed in a category, or
persisted; units become persisted all together and only when all are accepted.
The refinement mapping reads the status of a unit from its counters and its
terminal outcome.

*EvidenceSpans.* A text is a sequence over an alphabet whose classes the code
tells apart: white space, line ends, stops, the period. The two loops read line by
line and character by character, one step per turn. The ranges are those of the
code with both ends included. `pass` and `paragraph` are where the loops are.

*FactGraph.* An answer is what a model said of one span. `WellFormed` and `Backed`
are the contracts, `Facts` what enrichment and aggregation keep, `Fact` the
rebinding of a relation from span ids over local ids to global ids. Free text is
told apart by what the code does with it (`Words`): none, plain, exactly a local
id, a longer text with one in it, an id of a span, white space, a text of more than
300 characters. A local id need not be one the run has: `M000` has the shape of one
and never is. `Refused` is the validation that aggregation adds to that of the
answers.

*EntityResolution.* Entities are numbered in extraction order. `Embed` sorts the
items of a response by index; `Decision` is `_structural_decision`, its tests in
their order; `Selected` the cut to nearest pairs. The union-find takes one step
per turn of the loop in `find` (`Halve`), so intermediate forests are states.

*Neo4jProjection.* Each statement is one step, the two that create indexes and the
seven queries of the read-back included, and each transaction has what it deleted,
created and linked; others see only what is committed, and writes wait for locks. The
managed transaction is retried after transient errors, ends on others, and a commit
may succeed without its reply. A namespace node remembers the writer that created it,
which stands for the owner and values in its properties. The ownership query returns
one row for each pair of owner and label. `ParityDiff` has one field per group of
checks of `build_parity_diff`; `ByKey` models that records are put into dictionaries.
`serial`, chosen initially, says whether each importer waits for the others; nothing
in the code makes it true.

*ProductionRun.* `Steps` is the order in which `run()` writes artifacts, imports,
checks parity, and reads the time of an earlier view; each is a step, and every
artifact keeps its author and what readers decide by. A call begins where the
directory is absent, and makes it only with its first artifact, as the code does. A
rebuild runs at any time, also beside the run, under settings that may have changed.
An import is a transaction that reads what the namespace holds (`Reads`) and, steps
later, deletes that and creates its own image (`Commits`), so two that meet may both
leave theirs; `overlapped` records that the last one to commit met another. A view is
read and rewritten in two steps, by call and rebuild alike. `Loadable` is
`load_successful_run`.

*CompatibilityProbe.* `stage` is where `main` is; a request gets any reply. The
verdict of the probe is built from its own checks (`PlainVerdict`, `ToolVerdict`,
`StructuredPass`, `ContractPass`), next to what the worker would do with the same
reply (`WorkerAccepts`).

*AtomicArtifact.* One call of `_atomic_write` per writer: temporary file, write,
fsync, rename, return. It may raise or die at each point: before the `try` begins and
no handler runs, inside it the rename included, and in the handler, whose `unlink`
may fail. A power failure undoes a rename that was not on disk and voids a file that
was not synchronized.

## 4. Runs

| Run | Instance | States | Shows |
|---|---|---|---|
| `scheduler` | 5 documents of 3 spans (one of 2), 2 groups, limits 3 (batch), 2 (group), 1 (document) | 99,285 | limits, exact counters, order, no idle stall, bounded bypass, queues drain |
| `batch_runner` | 3 documents (5 spans), 2 groups, limits 3, 2, 2, both failure policies | 171,258 | every span counted once, publication earned, one verdict per group, exact reports, nothing admitted after a failure that stops the batch, termination, the refinement of `BatchOutcome` |
| `failed_group` | the same instance | violation | section 7 |
| `span_extraction` | 3 units, 2 workers | 508,772 | one outcome per unit and exact counters, requests on disk before they are posted, a file that never goes back, results in source order, an exact failure report, the refinement of `AttemptLedger`, termination |
| `attempt_categories` | 2 units, 2 workers | violation | section 7 |
| `neo4j_projection` | 2 importers: one after the other with 8 documents, or overlapping with 3 (`Contended`); 6 databases with foreign indexes or graph ids, 2 attempts | 2,521,627 | one after the other: the namespace is whole or empty, a lone import fails parity only for foreign reasons, the refinement of `ProjectedNamespace`; however they overlap: a passed diff proves that the document was read back |
| `production_run` | 2 calls on one directory, one after the other (`CONSTRAINT Alone`), up to 2 rebuilds beside them, 2 projection names | 538,236 | completion is earned, a failure report excludes a graph, what the viewer accepts was projected from `fact_graph.json` and is doubled only when imports met, a view keeps its time unless a rebuild began beside the call |
| `entity_resolution` | 4 entities, all patterns of similarity, 6 sets of relations, 5 responses | 90,827 | nodes are components, ids dense and in order, vectors of their entities, stated equivalences survive the cut, termination |
| `fact_graph` | 1 to 3 spans, 20 kinds of answers, all partitions of the mentions | 11,392 | edges are the facts, each once with its family, but for facts that differ only in it; nodes cover the mentions, the causes of a late failure |
| `evidence_spans` | all texts of up to 6 characters over 5 classes | 181,763 | spans in order, nothing lost, blank lines separate, a span splits into itself |
| `compatibility_probe` | 15 profiles, all options, 61 kinds of replies | 1,704,204 | a passed probe means a usable endpoint; no fallback |
| `batch_plan` | 2 batches, one with any of 11 manifests, 3 extraction and 6 runtime files, 4 environments, 1 edit | 1,175,883 | one batch per directory, groups partition the documents, the manifest's profile is used, what of the recorded identity is sent when which file changed, extensions only add |

*Bounds.* A batch, a run and a text are finite, so most models cap nothing; the
caps are `MaxAttempts`, `MaxRebuilds`, `MaxEdits`, `MaxRepeats`, `MaxLength` and
`Contended`, the documents of importers that may overlap.
The instances are chosen so that each limit binds while another one is free, the
manifest order differs from the id order, a group has one document and another
several, and a document has more spans than its limit. In `scheduler` documents
are often skipped, since each may have one span in flight; in `batch_runner` two
spans of one document may be in flight together and end in either order. In
`span_extraction` one unit waits in the pool while two others contend for the
lock, and results complete in an order that sorting must repair.
`neo4j_projection` has documents that differ from the first in one respect each
(owner, names, values, edges, an edge without its node, invalid, no nodes at all),
so each check of ownership and parity is the only one to notice something; overlapping
importers have the first one, a rerun of it, and one of another owner. In `batch_plan`
the extraction files differ in a limit, in the name of the contract and in
strictness, so a torn load may be refused, and an edit of one file changes only
what comes from it. Four entities are
what it takes for two trees of the forest to be joined and for halving to change
a path; `fact_graph` lowers the last local id to reach it. Six characters hold
two sentences, a blank line and a character on either side. The proofs of section
5 hold without the bounds.

*Fairness.* `FairSpec` of `BatchRunner` assumes that the main thread goes on and
that each request ends: the HTTP client bounds every call by `timeout_seconds`,
and a worker thread does not depend on the main one. Choices among outcomes are
not fair: nothing says that a request must succeed. `SchedulerFairness` assumes
the caller asks again until `acquire()` returns `None` and reports each
completion, which `RunnerRefinesScheduler` and `BatchEnds` show of the actual
caller. In `SpanExtraction` the main thread and the `Progress` of each worker are
fair: a thread that can run does, a critical section only builds and writes a
small file, and the HTTP client bounds the call. `Abort` is not part of
`Progress`, so termination never relies on a worker failing. `EntityResolution` is
sequential code: `WF_vars(Resolve)`. The other modules state safety only. Their
operations may stop anywhere, and `production_run` turns deadlock checking off
because a directory no one touches any more is a legal end.

*Violations.* Two runs check what a document says against what the code does; see
section 7. Every property of a passing run has a mutant in `PROJECT.json`: a
plausible bug under which the run finds the property violated.

## 5. Proofs

TLAPS checks eight modules of proofs. What they show holds for all values of the
constants, not only for the instances of section 4. Every state invariant and every
action property of a passing run is proved, and so are the four refinements; only
liveness is left to TLC.

*Scheduler.* For any finite set of documents, any assignment to groups, any span
counts and any coherent limits. `LimitsRespected` is not inductive: the limits are
enforced on counters and stated of the requests outstanding, so the inductive
invariant `SchedulerInv` adds that counters are cardinalities
(`CountersMatchActive`), that a queue is a tail of its document (so an admitted
span is not already active), and that every document with work is in the rotation
(needed for `IdleMeansAdmission`: if nothing is active all counters are zero, every
document with a span is admissible, and the least rotation index of such a document
is the one `acquire()` takes). `BypassBounded` relates the history variable to the
rotation: who has overtaken a waiting document stands behind it.

*Batch runner.* `RunnerRefinesScheduler`: every step of the runner is a step of the
scheduler or leaves it alone, which carries the limits over. `RunnerInv` has two
halves. `ExtractionFits` says where each span is while requests run: queued, in
flight, ended and not yet handled, recorded as a result or as a failure, or
discarded with its group, always exactly one of them, and what the counts and the
stop flag say of that. `PublicationFits` says what may stand in the directory of
each group at each stage of its finalization. The barrier connects them: the first
artifact of a group needs as many results as the group has spans, and by the first
half that means every one of them was accepted. From `RunnerInv` follow
`SpansAccounted`, `PublicationEarned`, `OneVerdict`,
`NothingAdmittedAfterFailure`, and that the runner implements `BatchOutcome`.
`OneVerdict` allows a second verdict where the code does: to a group that was
completed when an interrupt came, which the row in `reported` shows.
`ReportsExact` needs more: no span stands twice in a list (`ListsDistinct`), so
lengths of lists are cardinalities and the report's sums come out
(`EntriesCount`), and sorting by document and order puts every result of a graph
into its file, in order (`OrderedSorts`, from ranks in a strict total order).

*Worker pool.* For any number of units and workers. That counters balance is not
inductive: whether the next increment is the first one depends on where the worker
is. `SpanInv` gives the exact record a unit may have at each stage (`LedgerAt`),
says that at most one thread is between its change and its save (`OneHolder`), that
the main thread is so only while it persists (`MainHolds`), that a collected unit
has ended (`CollectedEnded`), that units are persisted after all were accepted
(`PersistedLast`), and that the file holds an earlier record of each unit
(`SavedIsEarlier`) with every posted request in it (`PostedIsSaved`). From it
follow `OutcomesBalance`, `RequestsAreOnDisk`, `ReturnedRunValidates` and
`SavedNeverRegresses`. The crucial step is that a snapshot equals the accounting
object when it is written, because nobody else can change the object in between.
`FilesInv` adds what the two result files may hold in each phase, which gives
`ExtractionInv`: a unit is collected once, so as many results as units means all of
them, and their sorted list is the units in source order. For
`LedgerImplemented`, a lemma reads the abstract status of a unit off its exact
record, and each step either leaves it, moves one unit along the ledger, or
persists all units at once.

*Entity resolution.* For any number of entities, any input and any answer of the
embedding server: two entities get one node exactly when a chain of MERGE decisions
joins them (`NodesAlwaysComponents`), and what the text equates is one node
(`EquatedAlwaysTogether`). Paths are never followed, so no induction on them is
needed. `ForestInv` says that the sets closed under the forest are those closed
under the pairs linked so far. Halving a path keeps these sets; linking a root adds
one pair to both sides, given that the finder stands in the tree of each end of the
pair. At the end each entity shares all such sets with the root its id stands for,
ids stand for roots one to one, and `RootsApart` separates two roots by the least
set that holds one of them and every entity below its members. `DenseInv` (the ids
of the first k entities are an interval from 1) makes ids dense and in order. The
vectors are those of their entities because a response is accepted only when its
indexes are all of 1 to `Count`, so sorting them gives each index its own place.

*Importer.* For any importers, documents, prior content and number of attempts.
However imports overlap, a parity that passes proves that what was read back is the
document, up to copies of one id (`PassedAlwaysProves`): the proof is about the diff
alone, field by field, and needs nothing of what other imports did between the
queries. `CoreInvariant` holds then too: a commit never leaves a relationship without
its nodes, because a node another transaction links is locked against deletion. One
import at a time (`serial`), the namespace is whole or empty at every moment
(`AlwaysWholeOrEmpty`). `SerialInv` says what an open transaction has deleted, created
and linked at each of its stages, and that an importer past its transaction left its
document behind. The assumption is necessary, see section 7. `ReaderInv` says what a
lone importer has read at each stage, so a parity that fails has one of the listed
foreign reasons (`LoneImportPasses`). `NamespaceImplemented` needs `OwnedInv`: what the
ownership check established holds until the commit, so a replacement is by the owner;
the abstract namespace promises nothing of imports that overlap.

*Run directory.* For any calls, directories, names and number of rebuilds, as long
as no two calls are at work in one directory (`[]Alone`, which nothing in the code
ensures, section 7). `DirectoryInv` says that one call has written in a directory,
which artifacts are there as a function of how far it has come (`ProgressFits`, from
the order in `Steps`), and what a rebuild in any of its stages may rely on
(`ProjectionFits`): it starts from a persisted graph and a manifest that no longer
change, and each image it or the run commits is of that graph under those names.
`NamespaceInv` (without `Alone`) says that a transaction that met no other has read
all the namespace holds, so its commit leaves one image; `TimeInv` that a rebuild at
work beside a call began beside it, and that one that began later writes the time it
has read. From these follow `RunInv`, `ViewableIsProjected` and `SourceOfTruth`.

*Splitting.* For any texts, and any character classes in which line ends are white
space. `SplitInv` says that the lines read are in the finished paragraphs or in the
open one (`ReadingFits`), that the finished spans hold exactly what stands before
the sentence being scanned (`SpansFit`), and that this sentence has no end yet
(`ScanFits`). The last conjunct is what makes a span split into itself: inside it
there is no end of a sentence, and with its own end as the end of the text there is
still none, which `ResplitIsIdentity` needs.

*From answers to the graph.* For any answers the schema admits, any partition of the
mentions into nodes and any number of local ids. Sequences of results, extractions
and edges are built step by step, so nothing about them is inductive unless their
contents are known: `FactInv` says that result k is `Enriched(k)`, extraction k is
`Extracted(k)` and the edges are those of the facts of the units projected, all
functions of the answers. The link is the place of a mention among all of them: the
cursor before span k is the number of mentions before it (`Offset`), and the
mentions of a span take the next places (`PlaceFacts`). So each of the three series
of ids is a function of the place; deduplication keeps one edge of each signature
(`Nth`: the n-th kept relation exists and every kept one is some n-th), and an edge
says all its facts say. `LateFailuresExplained` was too narrow until its proof
failed: `M000` has the shape of a local id and no run has it.

*Plan.* For any batches, manifests, files, environments and number of edits:
`BatchFits` says what a batch has established at each stage of its start. Since the
world may change between any two of its file accesses, it speaks only of what the
batch itself holds: the settings it loaded are sound, its manifest was accepted
against the first load, and the identity is a function of that load. `ReadFits` says
where the settings come from: while a file is between the two loads and not `stale`,
what the first load read is what the file says, so the second reads the same. What
comes from a file that stayed is then equal in both loads, whatever happened to the
other one, and with it the part of the identity that is computed from it
(`IdentityAlwaysSent`).

*Probe.* For any profiles, replies and number of repetitions: a probe that passes
saw only replies the worker would accept, and the selected mode alone decides
whether it is blocked. `JudgedInv` says what each stage has established; `RowSound`
compares the probe's checks with the worker's.

*Artifact store.* For any number of writers of a path, with interrupts, deaths and
power failures: no reader ever sees a torn file (`NeverTornHolds`), what a path shows
is the content of a call past its rename whose temporary file is gone, so leftovers
may be deleted at any time (`LeftoversHold`), and the path implements `AtomicRegister`.

The assumptions on constants are named, and TLC evaluates them in the runs:
`PlanAssumption` and `LimitsAssumption` of `BatchScheduler` (what manifest validation
guarantees), `GraphOrderAssumption` (each group once), `SpanAssumption` (at least one
unit and one worker), `CountAssumption` and `ResponsesAssumption` (indexes are
integers), `ImportersAssumption`, `DocumentsAssumption` (no two edges of one id, which
the final contract refuses), `RunAssumption`, `CharactersAssumption` and
`TextsAssumption` (a text is a finite sequence), `LastAssumption` and
`AnswersAssumption` (the fields of the schema; a run has a span),
`PlanAssumption` of `BatchPlan` (the schemas of manifest and settings files), and
`ProbeAssumption` (what a reply without a choice looks like). Two groups of properties
assume something of the environment instead: `serial` of the importer, in their
statements, and `Alone` of the run directory, in the theorems.

*Model-checked only.* Liveness (`QueuesDrain`, `BatchEnds`, `ExtractionEnds`,
`Terminates`), since fairness is out of the prover's reach. The two runs that expect
a violation show a counterexample each and have nothing to prove. No module uses a
RECURSIVE operator: the loops of the code are steps, and what they compute is an
invariant.

## 6. Not modelled

- Contents: the text of prompts, the words of answers, token and latency counts,
  structural metrics of reports, the JSON schema of the tool. No decision of the
  modelled code depends on them beyond what the models tell apart.
- Connection settings, environment lookups, path names and hashes; the viewer's
  choice among the runs it accepts, its read-only preflight queries and URLs.
- The typed semantic conflict of entity resolution: a run's entities have none of
  the attributes it looks at. `evaluate_saved_matrix`, which no run calls.
- The non-blocking semantic assertions of the probe.
- `scripts/run_batch.py` (argument parsing) and the scheduler's timing script.
- `devtools/` apart from the probe: conformance and golden comparisons, benchmark
  builders, report writers and one-off experiments on entity resolution. They
  compute statistics from files, sequentially, and feed nothing back into a run.
- Two calls at work in one output directory, and two imports at once of one
  namespace, are behaviours of the modules. The run of `ProductionRun` leaves the
  former out (`CONSTRAINT Alone`), and its theorems assume `[]Alone`. The run of the
  importer has the latter; three of its properties are about imports one after the
  other, because they do not hold otherwise; section 7 says how.
- In `BatchRunner`, an interrupt in the one statement between taking a future from
  the active ones and the `try` around its result (`batch_runner.py:245-246`).
- `entity_resolution.yaml` and `neo4j.yaml` in `BatchPlan`: they say nothing of
  requests. The contents of retrieval and report records of entity resolution.
- Two rebuilds at once of one directory: `ProductionRun` has one at a time, beside
  any call.

## 7. Divergences

Checked by a run that is expected to fail:

- `docs/BATCH_PROCESSING.md:48-49`: "A failed group does not embed, persist a
  FinalGraph, or mutate Neo4j." True of a group whose extraction failed. A group
  whose finalization fails is also reported as failed, and by then may have done
  all three (`batch_runner.py:276-286`). Run `failed_group`.
- `README.md:51`: "Every primary attempt ends in exactly one recorded terminal
  category". The worker catches only `httpx.HTTPError` around the request
  (`production_runner.py:145`). Any other exception after the attempt was
  recorded, such as the `AttributeError` that `discard_reasoning_text` (line 132)
  raises on an answer that is a JSON list, or an answer artifact that cannot be
  written (line 135), ends the unit without a category. The run still fails, and
  names the unit in `terminal_failure.json`. Run `attempt_categories`.

Met while modelling, in the models but without a run of their own:

- *Importer.* Two imports of an empty namespace at once both create their nodes;
  the read-back puts records into dictionaries (`json_neo4j_parity.py:428`), so the
  copies are not seen and both pass, against `docs/HUMAN_REVIEW_GUIDE.md:111`
  ("prove projection equality"). What a verdict does prove is that the document was
  read back (`PassedProvesReadBack`); the doubled graph is accepted by the viewer
  until a lone import repairs it (`ViewableIsProjected`). A graph without nodes or edges fails its parity
  for a label or type that is not in use (line 183-194), although
  `docs/ARCHITECTURE.md:81` holds such omissions not to invalidate a graph.
- *Batch.* The handler around a finalization catches `BaseException` until the row of
  the group is appended (`batch_runner.py:276-286`): an interrupt after
  `completion_status.json` was written leaves `terminal_failure.json` beside it, and
  possibly a failed row beside the completed one.
- *Run directory.* `README.md:161` wants a new directory; its existence is tested
  long before it is made with `exist_ok` (`production_runner.py:309`), so two runs
  can enter one. `open_graph --latest` does not look at `completion_status.json`
  (`graph_view.py:114-143`), while `README.md:178` speaks of the most recently
  completed run: one that failed its schema parity, or crashed before completion,
  can be shown. A rebuild whose parity fails leaves the earlier
  `validation_report.json` in place.
- *Entity resolution.* `README.md:282`: a token-contained name expansion is blocked
  without explicit evidence. The pair is, but a third entity that merges with both
  joins them (`observable_entity_resolution.py:312`).
- *Projection.* `README.md:45` speaks of exact consolidation; the signature leaves
  out the relation family, so the second of two facts that differ only in it is
  dropped (`production_projection.py:75`). `EdgesAreFacts` keeps the first with its
  family and says so.
- *Contract.* A relation has no limit in the answer (`contracts.py:92`); enrichment
  copies it into the description, which has one of 300 characters (line 44) that is
  checked only in aggregation. A longer relation fails the run after every call was
  made (`LateFailuresExplained`).
- *Probe.* `--capability-tool-only` is documented as the profile-selected request
  (line 306) and sends `auto` (line 450); a profile that selects another mode is
  always blocked by it. The worker's `raise_for_status`
  (`production_runner.py:144`) lets any 2xx pass where `docs/ARCHITECTURE.md:49`
  requires 200.
- *Plan.* `effective_request_identity` (`production_inputs.py:158`) names the
  sampling profile but not its values, and leaves out the token limit, `strict`,
  streaming and parallel calls, so two requests that differ in them can have one
  identity. It is computed from the first of two loads, the requests from the second
  (`batch_runner.py:184-194`): an edit of `extraction.yaml` in between changes the
  schema, one of `runtime.yaml` the model, which the second load does not compare
  with the manifest's again. A load reads `extraction.yaml` twice
  (`settings.py:332-339`) and may put two versions together. A document is hashed when the plan is resolved
  (`batch_manifest.py:175`) and read again later (`batch_runner.py:32`): what is
  extracted may not be what the recorded hash is of.
