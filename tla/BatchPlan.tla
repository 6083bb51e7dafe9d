----------------------------- MODULE BatchPlan -----------------------------
(***************************************************************************)
(* How a batch starts (src/runtime/batch_manifest.py and the head of       *)
(* run_batch in src/runtime/batch_runner.py): load the settings, validate  *)
(* the manifest, hash the documents, record the request identity, load the *)
(* settings again with the manifest's profile, read the documents, create  *)
(* the output directory.  Several batches start at once, and configuration *)
(* and documents may be edited at any time, between two reads of one load  *)
(* too: extraction.yaml is read for its first section, then runtime.yaml,  *)
(* then extraction.yaml for its second.  The files entity_resolution.yaml  *)
(* and neo4j.yaml say nothing of requests and are left out.                *)
(***************************************************************************)
EXTENDS RequestContract, FiniteSets

CONSTANTS
  Batches,       \* the batches that are started
  Starts,        \* what their manifest files may say
  Extractions,   \* what extraction.yaml may say
  Runtimes,      \* what runtime.yaml may say
  Environments,  \* profiles and selection given in the environment
  Names,         \* what manifests call profiles, models, directories, documents and graphs
  Paths,         \* files the documents may be in
  MaxEdits       \* bound: edits of configuration and documents

\* The schema of a manifest file.
Manifests ==
  [profile : Names, model : Names, output : Names,
   perDocument : Int, perGraph : Int, global : Int,
   documents : Seq([id : Names, path : Paths]),
   graphs : Seq([id : Names, documents : Seq(Names)])]

ASSUME PlanAssumption ==
  /\ MaxEdits \in Nat /\ NoValue \notin Names
  /\ \A m \in Starts : DOMAIN m = Batches /\ \A b \in Batches : m[b] \in Manifests
  /\ \A e \in Extractions : IsExtraction(e)
  /\ \A r \in Runtimes : IsRuntime(r)
  /\ \A e \in Environments : \A k \in DOMAIN e.profiles : IsProfile(e.profiles[k])

VARIABLES
  files,     \* the two configuration files on disk
  env,       \* the environment
  disk,      \* the version of each document on disk; 0 if there is none
  outputs,   \* output directories that exist, with the batch that made them
  edits,     \* edits so far
  manifest,  \* the manifest of each batch
  progress,  \* where the batch is
  loading,   \* the sections its load has read
  base,      \* the settings of its first load: none or one
  hashed,    \* the versions hashed, in the manifest's order
  identity,  \* the request identity of its plan: none or one
  settings,  \* the settings of its second load: none or one
  read,      \* the versions read, in the manifest's order
  stale      \* history: files written since its first load read them, before its second did

world == <<files, env, disk, outputs, edits>>
own == <<loading, base, hashed, identity, settings, read>>
planVars == <<world, manifest, progress, own, stale>>

ConfigFiles == {"extraction", "runtime"}

Image(s) == {s[i] : i \in DOMAIN s}
Distinct(s) == Cardinality(Image(s)) = Len(s)
-----------------------------------------------------------------------------
Ids(s) == [i \in DOMAIN s |-> s[i].id]

\* Every reference to a document: the graph, and the place in its list.
References(m) ==
  UNION {{<<g, i>> : i \in DOMAIN m.graphs[g].documents} : g \in DOMAIN m.graphs}
Referenced(m, r) == m.graphs[r[1]].documents[r[2]]

ValidMembership(m) ==
  /\ {Referenced(m, r) : r \in References(m)} = Image(Ids(m.documents))
  /\ \A r, s \in References(m) : Referenced(m, r) = Referenced(m, s) => r = s

\* The manifest's own validators; "bad id" stands for every malformed id.
ValidManifest(m) ==
  /\ 0 < m.perDocument
  /\ m.perDocument <= m.perGraph /\ m.perGraph <= m.global
  /\ m.documents # <<>> /\ m.graphs # <<>>
  /\ \A g \in Image(m.graphs) : g.documents # <<>>
  /\ "bad id" \notin Image(Ids(m.documents)) \cup Image(Ids(m.graphs))
  /\ Distinct(Ids(m.documents)) /\ Distinct(Ids(m.graphs))
  /\ ValidMembership(m)

\* The graph of a document in the plan: the last one that names it.
GraphOf(m, d) ==
  LET naming == {g \in DOMAIN m.graphs : d \in Image(m.graphs[g].documents)} IN
    m.graphs[CHOOSE g \in naming : \A h \in naming : h <= g].id

\* Mutant: the profile selected by the files or the environment.
Selected_AsLoaded(c, m) == c

\* The settings the identity is computed from.
Selected(c, m) == [c EXCEPT !.selected = m.profile]
-----------------------------------------------------------------------------
PlanInit ==
  /\ files \in [extraction : Extractions, runtime : Runtimes] /\ env \in Environments
  /\ disk = [p \in Paths |-> 1]
  /\ outputs = <<>> /\ edits = 0
  /\ manifest \in Starts
  /\ progress = [b \in Batches |-> "start"]
  /\ loading = [b \in Batches |-> [extraction |-> NoValue, runtime |-> NoValue]]
  /\ base = [b \in Batches |-> {}]
  /\ hashed = [b \in Batches |-> <<>>]
  /\ identity = [b \in Batches |-> {}]
  /\ settings = [b \in Batches |-> {}]
  /\ read = [b \in Batches |-> <<>>]
  /\ stale = [b \in Batches |-> {}]

Goto(b, s) == progress' = [progress EXCEPT ![b] = s]

\* A load begins: the first section of extraction.yaml.
ReadExtraction(b) ==
  /\ progress[b] \in {"start", "load"}
  /\ loading' = [loading EXCEPT ![b].extraction = files.extraction.extraction]
  /\ Goto(b, "runtime")
  /\ UNCHANGED <<world, manifest, base, hashed, identity, settings, read, stale>>

ReadRuntime(b) ==
  /\ progress[b] = "runtime"
  /\ loading' = [loading EXCEPT ![b].runtime = files.runtime]
  /\ Goto(b, "contracts")
  /\ UNCHANGED <<world, manifest, base, hashed, identity, settings, read, stale>>

\* The last section, then environment, overrides and validation.
Assembled(b, override) ==
  Loaded(loading[b].extraction, loading[b].runtime, files.extraction.contracts, env, override)
ValidSettings(c) == ValidRemote(c) /\ ValidContract(c)

\* The first load: the caller overrides nothing.
LoadBase(b) ==
  /\ progress[b] = "contracts" /\ identity[b] = {}
  /\ LET c == Assembled(b, NoValue) IN
       IF ValidSettings(c)
       THEN base' = [base EXCEPT ![b] = {c}] /\ Goto(b, "manifest")
       ELSE Goto(b, "refused") /\ UNCHANGED base
  /\ UNCHANGED <<world, manifest, loading, hashed, identity, settings, read, stale>>

CheckManifest(b) ==
  /\ progress[b] = "manifest"
  /\ LET m == manifest[b] IN
       IF /\ ValidManifest(m)
          /\ \E c \in base[b] :
               m.profile \in DOMAIN c.profiles /\ c.profiles[m.profile].model = m.model
          /\ m.output \notin DOMAIN outputs
       THEN Goto(b, "hash") ELSE Goto(b, "refused")
  /\ UNCHANGED <<world, manifest, own, stale>>

\* The file of the next document to hash or to read.
NextPath(b, done) == manifest[b].documents[Len(done) + 1].path

HashDocument(b) ==
  /\ progress[b] = "hash" /\ Len(hashed[b]) < Len(manifest[b].documents)
  /\ LET version == disk[NextPath(b, hashed[b])] IN
       IF version = 0 THEN Goto(b, "refused") /\ UNCHANGED hashed
       ELSE hashed' = [hashed EXCEPT ![b] = Append(@, version)] /\ UNCHANGED progress
  /\ UNCHANGED <<world, manifest, loading, base, identity, settings, read, stale>>

RecordIdentity(b) ==
  /\ progress[b] = "hash" /\ Len(hashed[b]) = Len(manifest[b].documents)
  /\ identity' = [identity EXCEPT ![b] = {Identity(Selected(c, manifest[b])) : c \in base[b]}]
  /\ Goto(b, "load")
  /\ UNCHANGED <<world, manifest, loading, base, hashed, settings, read, stale>>

\* The second load: the manifest's profile comes last.
LoadSelected(b) ==
  /\ progress[b] = "contracts" /\ identity[b] # {}
  /\ LET c == Assembled(b, manifest[b].profile) IN
       IF ValidSettings(c)
       THEN settings' = [settings EXCEPT ![b] = {c}] /\ Goto(b, "read")
       ELSE Goto(b, "refused") /\ UNCHANGED settings
  /\ UNCHANGED <<world, manifest, loading, base, hashed, identity, read, stale>>

ReadDocument(b) ==
  /\ progress[b] = "read" /\ Len(read[b]) < Len(manifest[b].documents)
  /\ LET version == disk[NextPath(b, read[b])] IN
       IF version = 0 THEN Goto(b, "refused") /\ UNCHANGED read
       ELSE read' = [read EXCEPT ![b] = Append(@, version)] /\ UNCHANGED progress
  /\ UNCHANGED <<world, manifest, loading, base, hashed, identity, settings, stale>>

\* Mutant: a directory that exists is used.
CreateOutput_ExistOk(b) ==
  /\ progress[b] = "read" /\ Len(read[b]) = Len(manifest[b].documents)
  /\ outputs' = Over([o \in {manifest[b].output} |-> b], outputs)
  /\ Goto(b, "running")
  /\ UNCHANGED <<files, env, disk, edits, manifest, own, stale>>

\* mkdir(exist_ok=False), then the resolved manifest and the source manifests.
CreateOutput(b) ==
  /\ progress[b] = "read" /\ Len(read[b]) = Len(manifest[b].documents)
  /\ IF manifest[b].output \in DOMAIN outputs
     THEN Goto(b, "refused") /\ UNCHANGED outputs
     ELSE /\ outputs' = Over([o \in {manifest[b].output} |-> b], outputs)
          /\ Goto(b, "running")
  /\ UNCHANGED <<files, env, disk, edits, manifest, own, stale>>

\* The first load of b has read file f and its second has not.
Between(b, f) ==
  IF identity[b] = {}
  THEN progress[b] \in {"contracts", "manifest", "hash"} \/ (progress[b] = "runtime" /\ f = "extraction")
  ELSE progress[b] = "load" \/ (progress[b] = "runtime" /\ f = "runtime")

\* Somebody edits a configuration file.
EditFile(f) ==
  /\ edits < MaxEdits /\ edits' = edits + 1
  /\ \E v \in (IF f = "extraction" THEN Extractions ELSE Runtimes) \ {files[f]} :
       files' = [files EXCEPT ![f] = v]
  /\ stale' = [b \in Batches |-> IF Between(b, f) THEN stale[b] \cup {f} ELSE stale[b]]
  /\ UNCHANGED <<env, disk, outputs, manifest, progress, own>>

\* Somebody writes or removes a document.
EditDocument ==
  /\ edits < MaxEdits /\ edits' = edits + 1
  /\ \E p \in Paths : disk' \in {[disk EXCEPT ![p] = v] : v \in {0, edits + 2}} \ {disk}
  /\ UNCHANGED <<files, env, outputs, manifest, progress, own, stale>>

Proceed(b) ==
  \/ ReadExtraction(b) \/ ReadRuntime(b) \/ LoadBase(b) \/ CheckManifest(b)
  \/ HashDocument(b) \/ RecordIdentity(b)
  \/ LoadSelected(b) \/ ReadDocument(b) \/ CreateOutput(b)

Started == \A b \in Batches : progress[b] \in {"refused", "running"}
Edit == EditDocument \/ \E f \in ConfigFiles : EditFile(f)
PlanNext == (\E b \in Batches : Proceed(b)) \/ Edit \/ (Started /\ UNCHANGED planVars)
PlanSpec == PlanInit /\ [][PlanNext]_planVars
-----------------------------------------------------------------------------
PlanTypeOK ==
  /\ files \in [extraction : Extractions, runtime : Runtimes]
  /\ env \in Environments /\ manifest \in Starts
  /\ disk \in [Paths -> Nat] /\ edits \in 0 .. MaxEdits
  /\ \A o \in DOMAIN outputs : outputs[o] \in Batches
  /\ \A b \in Batches :
       /\ progress[b] \in {"start", "runtime", "contracts", "manifest", "hash", "load", "read",
                           "running", "refused"}
       /\ progress[b] \in {"read", "running"} => settings[b] # {}
       /\ progress[b] \in {"load", "read", "running"} => identity[b] # {}
       /\ 0 \notin Image(hashed[b]) \cup Image(read[b])

\* A running batch has its output directory to itself (batch_manifest.py 164,
\* batch_runner.py 199), however the two checks of two batches interleave.
OwnDirectory ==
  \A b \in Batches : progress[b] = "running" => outputs[manifest[b].output] = b

\* "Every declared document must exist and belong to exactly one non-empty
\* graph group." (docs/BATCH_PROCESSING.md): the groups of a plan partition
\* its documents, and a document's own record agrees with them.
GroupsPartitionDocuments ==
  \A b \in Batches : identity[b] # {} =>
    LET m == manifest[b] IN
      \A d \in Image(Ids(m.documents)) :
        /\ Cardinality({r \in References(m) : Referenced(m, r) = d}) = 1
        /\ \A g \in Image(m.graphs) : g.id = GraphOf(m, d) <=> d \in Image(g.documents)

\* "a batch uses exactly one primary profile" (docs/BATCH_PROCESSING.md): the
\* manifest's, whatever files and environment select.
ManifestProfileIsUsed ==
  \A b \in Batches : \A c \in settings[b] : Effective(c).id = manifest[b].profile

\* The identity in batch_manifest_resolved.json is computed from the first load
\* of the settings, the requests are built from the second. They part only as
\* far as a file changed after the first load had read it: while runtime.yaml
\* stays, model, tool choice and extension are those recorded and the model is
\* the manifest's, whatever happens to extraction.yaml; while extraction.yaml
\* stays, the schema is the one recorded, whatever happens to runtime.yaml, and
\* the prompt always is (batch_manifest.py:181-191, batch_runner.py:184-194).
RecordedIdentityIsSent ==
  \A b \in Batches : \A c \in settings[b] : \A sent \in Requests(c) : \A i \in identity[b] :
    /\ sent.messages = i.prompt
    /\ "extraction" \notin stale[b] => sent.tools.parameters = i.schema
    /\ "runtime" \notin stale[b] =>
         /\ sent.model = i.served /\ i.model = manifest[b].model
         /\ i.choice = IF "tool_choice" \in DOMAIN sent THEN sent.tool_choice ELSE NoValue
         /\ i.extra = [k \in DOMAIN sent \ DOMAIN Base(c) |-> sent[k]]

\* "not a generic payload escape hatch" (docs/CONFIGURATION.md): extensions
\* and overrides change no part of the request that the profile determines,
\* and a sampling profile that gives no value leaves none in the request.
ExtensionsAddOnly ==
  \A b \in Batches : \A c \in settings[b] : \A sent \in Requests(c) :
    LET p == c.profiles[c.selected]
        given == IF p.sampling = NoValue THEN p ELSE c.samplings[p.sampling]
    IN /\ \A k \in DOMAIN sent \ {"chat_template_kwargs"} :
            k \in DOMAIN Base(c) /\ sent[k] = Base(c)[k]
       /\ \A k \in {"temperature", "top_p", "seed"} :
            IF given[k] = NoValue THEN k \notin DOMAIN sent ELSE sent[k] = given[k]

\* The state invariant of planning.
PlanInv == PlanTypeOK /\ OwnDirectory /\ GroupsPartitionDocuments /\ ManifestProfileIsUsed
=============================================================================
