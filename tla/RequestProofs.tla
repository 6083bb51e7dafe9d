---------------------------- MODULE RequestProofs ----------------------------
(***************************************************************************)
(* What is known of the requests before they are sent.                     *)
(*                                                                         *)
(* The plan of a batch, for every set of batches, manifests and            *)
(* configurations and any number of edits: BatchFits says what a batch has *)
(* established at each stage of its start, ReadFits which files its        *)
(* settings come from, and the facts about settings and manifests turn     *)
(* that into the properties.                                               *)
(*                                                                         *)
(* The probe's verdict, for every set of profiles, every reply a server    *)
(* may give and every number of repetitions.                               *)
(***************************************************************************)
EXTENDS BatchPlan, CompatibilityProbe, FiniteSetTheorems, TLAPS

\* Settings that a load returned.
Sound(c) == IsConfig(c) /\ ValidRemote(c)

\* What the checks of the manifest have established of a batch.
Accepted(b) ==
  /\ ValidManifest(manifest[b])
  /\ \E c \in base[b] : /\ manifest[b].profile \in DOMAIN c.profiles
                        /\ c.profiles[manifest[b].profile].model = manifest[b].model

Recorded(b) == identity[b] = {Identity(Selected(c, manifest[b])) : c \in base[b]}

\* What a batch has established when it has come this far.
BatchFits(b) ==
  /\ \A c, d \in base[b] : c = d
  /\ \A c \in base[b] : Sound(c)
  /\ identity[b] = {} /\ progress[b] \in {"start", "runtime", "contracts"} => base[b] = {}
  /\ progress[b] \in {"start", "manifest", "hash"} => identity[b] = {}
  /\ progress[b] \in {"load", "read", "running"} => identity[b] # {}
  /\ progress[b] = "hash" \/ identity[b] # {} => Accepted(b)
  /\ identity[b] # {} => Recorded(b)
  /\ progress[b] \notin {"read", "running", "refused"} => settings[b] = {}
  /\ progress[b] \in {"read", "running"} => settings[b] # {}
  /\ \A c \in settings[b] : Sound(c) /\ c.selected = manifest[b].profile /\ identity[b] # {}
  /\ progress[b] = "running" =>
       manifest[b].output \in DOMAIN outputs /\ outputs[manifest[b].output] = b

\* Settings whose sections come from what a load of b has read.
FromExtraction(c, b) == c.extraction = loading[b].extraction
FromRuntime(c, b) ==
  /\ c.overrides = loading[b].runtime.overrides /\ c.samplings = loading[b].runtime.samplings
  /\ c.profiles = Over(env.profiles, loading[b].runtime.profiles)

\* Where the sections read come from: a file that was not written between the
\* loads is the one both have read.
ReadFits(b) ==
  /\ progress[b] = "contracts" => loading[b].runtime \in Runtimes
  /\ Between(b, "extraction") /\ "extraction" \notin stale[b] =>
       loading[b].extraction = files.extraction.extraction
  /\ Between(b, "runtime") /\ "runtime" \notin stale[b] => loading[b].runtime = files.runtime
  /\ \A c \in base[b] :
       /\ Between(b, "extraction") \/ "extraction" \notin stale[b] => FromExtraction(c, b)
       /\ Between(b, "runtime") \/ "runtime" \notin stale[b] => FromRuntime(c, b)
  /\ \A c \in settings[b] : FromExtraction(c, b) /\ FromRuntime(c, b)

WorldFits ==
  /\ files \in [extraction : Extractions, runtime : Runtimes]
  /\ env \in Environments /\ manifest \in Starts
  /\ disk \in [Paths -> Nat] /\ edits \in 0 .. MaxEdits
  /\ \A o \in DOMAIN outputs : outputs[o] \in Batches
  /\ progress \in [Batches -> {"start", "runtime", "contracts", "manifest", "hash", "load", "read",
                               "running", "refused"}]
  /\ hashed \in [Batches -> Seq(Nat \ {0})] /\ read \in [Batches -> Seq(Nat \ {0})]
  /\ DOMAIN base = Batches /\ DOMAIN identity = Batches /\ DOMAIN settings = Batches
  /\ DOMAIN loading = Batches /\ DOMAIN stale = Batches
  /\ \A b \in Batches : DOMAIN loading[b] = {"extraction", "runtime"}

\* The inductive invariant.
PlanningInv == WorldFits /\ \A b \in Batches : BatchFits(b) /\ ReadFits(b)
-----------------------------------------------------------------------------
(* Settings and requests.                                                  *)

LEMMA LoadedFacts ==
  ASSUME NEW x, NEW r \in Runtimes, NEW k, NEW e \in Environments, NEW n
  PROVE  /\ IsConfig(Loaded(x, r, k, e, n))
         /\ n # NoValue => Loaded(x, r, k, e, n).selected = n
<1> DEFINE l == Loaded(x, r, k, e, n)
<1>1. IsRuntime(r) /\ \A i \in DOMAIN e.profiles : IsProfile(e.profiles[i])
  BY PlanAssumption
<1>2. /\ DOMAIN l = {"extraction", "contracts", "selected", "overrides", "samplings", "profiles"}
      /\ l.profiles = Over(e.profiles, r.profiles) /\ l.samplings = r.samplings
      /\ l.selected = Optional(n, Optional(e.selected, r.selected))
  BY DEF Loaded
<1>3. \A i \in DOMAIN l.profiles : IsProfile(l.profiles[i])
  BY <1>1, <1>2 DEF Over, IsRuntime
<1>4. \A i \in DOMAIN l.samplings : IsSampling(l.samplings[i])
  BY <1>1, <1>2 DEF IsRuntime
<1> QED BY <1>2, <1>3, <1>4 DEF IsConfig, Optional

LEMMA EffectiveFacts ==
  ASSUME NEW c, Sound(c)
  PROVE  LET p == c.profiles[c.selected]
             e == Effective(c)
             given == IF p.sampling = NoValue THEN p ELSE c.samplings[p.sampling]
         IN /\ e.id = c.selected /\ e.model = p.model
            /\ \A k \in {"temperature", "top_p", "seed"} : e[k] = given[k]
            /\ DOMAIN e.extra \subseteq {"chat_template_kwargs"}
<1> DEFINE p == c.profiles[c.selected]
<1>1. IsProfile(p) /\ p.id = c.selected /\ ValidExtension(p.extra)
  BY DEF Sound, IsConfig, ValidRemote
<1>2. DOMAIN p.extra \subseteq {"chat_template_kwargs"}
  BY <1>1 DEF ValidExtension
<1> QED BY <1>1, <1>2 DEF Effective, IsProfile

\* Settings with the same runtime part and selection have the same effective
\* profile and the same extension.
LEMMA SameRuntimeFacts ==
  ASSUME NEW c, NEW d, c.profiles = d.profiles, c.samplings = d.samplings,
         c.overrides = d.overrides, c.selected = d.selected
  PROVE  Effective(c) = Effective(d) /\ Extras(c) = Extras(d)
<1>1. Effective(c) = Effective(d)
  BY DEF Effective
<1> QED BY <1>1 DEF Extras

\* The parts of a request: the profile's, and at most one extension.
LEMMA PayloadFacts ==
  ASSUME NEW c, Sound(c)
  PROVE  /\ {"model", "messages", "tools"} \subseteq DOMAIN Base(c)
         /\ Base(c).model = Optional(Effective(c).served, Effective(c).model)
         /\ Base(c).messages = Prompt /\ Base(c).tools.parameters = Schema(c)
         /\ Effective(c).choice =
              IF "tool_choice" \in DOMAIN Base(c) THEN Base(c).tool_choice ELSE NoValue
         /\ \A k \in {"temperature", "top_p", "seed"} :
              IF Effective(c)[k] = NoValue THEN k \notin DOMAIN Base(c)
              ELSE k \in DOMAIN Base(c) /\ Base(c)[k] = Effective(c)[k]
         /\ DOMAIN Extras(c) \subseteq {"chat_template_kwargs"}
         /\ "chat_template_kwargs" \notin DOMAIN Base(c)
         /\ DOMAIN Payload(c) = DOMAIN Extras(c) \cup DOMAIN Base(c)
         /\ \A k \in DOMAIN Base(c) : Payload(c)[k] = Base(c)[k]
         /\ Extras(c) = [k \in DOMAIN Payload(c) \ DOMAIN Base(c) |-> Payload(c)[k]]
<1> DEFINE e == Effective(c)
           fixed == [model |-> Optional(e.served, e.model), max_tokens |-> e.max_tokens,
                     messages |-> Prompt,
                     tools |-> [parameters |-> Schema(c),
                                strict |-> c.contracts[c.extraction.contract].strict]]
           chosen == [tool_choice |-> e.choice, parallel_tool_calls |-> e.parallel,
                      stream |-> e.stream, temperature |-> e.temperature, top_p |-> e.top_p,
                      seed |-> e.seed]
           optional == {"tool_choice", "parallel_tool_calls", "stream", "temperature", "top_p", "seed"}
<1>1. DOMAIN Extras(c) \subseteq {"chat_template_kwargs"}
  BY EffectiveFacts DEF Extras, Over, Sound, ValidRemote, ValidExtension
<1>2. Extras(c) = [k \in DOMAIN Extras(c) |-> Extras(c)[k]]
  BY DEF Extras, Over
<1>3. Base(c) = Over(fixed, Given(chosen))
  BY DEF Base
<1>4. /\ DOMAIN chosen = optional /\ chosen.tool_choice = e.choice
      /\ chosen.temperature = e.temperature /\ chosen.top_p = e.top_p /\ chosen.seed = e.seed
  OBVIOUS
<1>5. /\ DOMAIN fixed = {"model", "max_tokens", "messages", "tools"}
      /\ fixed.model = Optional(e.served, e.model) /\ fixed.messages = Prompt
      /\ fixed.tools.parameters = Schema(c)
  OBVIOUS
<1> HIDE DEF fixed, chosen, e
<1>6. /\ DOMAIN Given(chosen) = {k \in optional : chosen[k] # NoValue}
      /\ \A k \in DOMAIN Given(chosen) : Given(chosen)[k] = chosen[k]
  BY <1>4 DEF Given
<1>7. /\ DOMAIN Base(c) = DOMAIN fixed \cup DOMAIN Given(chosen)
      /\ \A k \in DOMAIN Base(c) :
           Base(c)[k] = IF k \in DOMAIN fixed THEN fixed[k] ELSE Given(chosen)[k]
  BY <1>3 DEF Over
<1>8. /\ {"model", "messages", "tools"} \subseteq DOMAIN Base(c)
      /\ Base(c).model = Optional(e.served, e.model) /\ Base(c).messages = Prompt
      /\ Base(c).tools.parameters = Schema(c)
  BY <1>5, <1>7
<1>9. \A k \in optional : IF chosen[k] = NoValue THEN k \notin DOMAIN Base(c)
                          ELSE k \in DOMAIN Base(c) /\ Base(c)[k] = chosen[k]
  BY <1>5, <1>6, <1>7
<1>10. e.choice = IF "tool_choice" \in DOMAIN Base(c) THEN Base(c).tool_choice ELSE NoValue
  BY <1>4, <1>9
<1>11. \A k \in {"temperature", "top_p", "seed"} :
         IF e[k] = NoValue THEN k \notin DOMAIN Base(c) ELSE k \in DOMAIN Base(c) /\ Base(c)[k] = e[k]
  <2>1. \A k \in {"temperature", "top_p", "seed"} : chosen[k] = e[k] /\ k \in optional
    BY <1>4
  <2> QED BY <1>9, <2>1
<1>12. "chat_template_kwargs" \notin DOMAIN Base(c)
  BY <1>5, <1>6, <1>7
<1>13. /\ DOMAIN Payload(c) = DOMAIN Extras(c) \cup DOMAIN Base(c)
       /\ \A k \in DOMAIN Base(c) : k \notin DOMAIN Extras(c) => Payload(c)[k] = Base(c)[k]
       /\ \A k \in DOMAIN Extras(c) : Payload(c)[k] = Extras(c)[k]
  BY DEF Payload, Over
<1>14. \A k \in DOMAIN Base(c) : Payload(c)[k] = Base(c)[k]
  BY <1>1, <1>12, <1>13
<1>15. Extras(c) = [k \in DOMAIN Payload(c) \ DOMAIN Base(c) |-> Payload(c)[k]]
  <2>1. DOMAIN Payload(c) \ DOMAIN Base(c) = DOMAIN Extras(c)
    BY <1>1, <1>12, <1>13
  <2> QED BY <1>2, <1>13, <2>1
<1> QED BY <1>1, <1>8, <1>10, <1>11, <1>12, <1>13, <1>14, <1>15 DEF e
-----------------------------------------------------------------------------
(* The groups of a manifest.                                               *)

LEMMA MemberOf ==
  ASSUME NEW S, NEW s \in Seq(S), NEW i \in DOMAIN s
  PROVE  s[i] \in S
  OBVIOUS

\* As many members as places: no member is listed twice.
LEMMA DistinctFacts ==
  ASSUME NEW S, NEW s \in Seq(S), Distinct(s)
  PROVE  \A i, j \in DOMAIN s : s[i] = s[j] => i = j
<1>1. DOMAIN s = 1 .. Len(s) /\ Len(s) \in Nat /\ s \in [1 .. Len(s) -> S]
  OBVIOUS
<1>2. IsFiniteSet(1 .. Len(s)) /\ Cardinality(1 .. Len(s)) = Len(s)
  <2>1. 1 \in Int /\ Len(s) \in Int
    BY <1>1
  <2> QED BY <1>1, <2>1, FS_Interval
<1>3. s \in Surjection(1 .. Len(s), Image(s))
  BY <1>1 DEF Surjection, Image
<1>4. s \in Injection(1 .. Len(s), Image(s))
  BY <1>2, <1>3, FS_SurjSameCardinalityImpliesInj DEF Distinct
<1> QED BY <1>1, <1>4 DEF Injection, IsInjective

LEMMA ReferenceFacts ==
  ASSUME NEW m
  PROVE  \A r : r \in References(m) <=>
           \E g \in DOMAIN m.graphs : \E i \in DOMAIN m.graphs[g].documents : r = <<g, i>>
  BY DEF References

LEMMA PartitionFacts ==
  ASSUME NEW m \in Manifests, ValidManifest(m), NEW d \in Image(Ids(m.documents))
  PROVE  /\ Cardinality({r \in References(m) : Referenced(m, r) = d}) = 1
         /\ \A g \in Image(m.graphs) : g.id = GraphOf(m, d) <=> d \in Image(g.documents)
<1> DEFINE naming == {g \in DOMAIN m.graphs : d \in Image(m.graphs[g].documents)}
<1>1. /\ {Referenced(m, r) : r \in References(m)} = Image(Ids(m.documents))
      /\ \A r, s \in References(m) : Referenced(m, r) = Referenced(m, s) => r = s
  BY DEF ValidManifest, ValidMembership
<1>2. PICK r \in References(m) : Referenced(m, r) = d
  BY <1>1
<1>3. {s \in References(m) : Referenced(m, s) = d} = {r}
  BY <1>1, <1>2
<1>4. Cardinality({s \in References(m) : Referenced(m, s) = d}) = 1
  BY <1>3, FS_Singleton
<1>5. PICK g \in DOMAIN m.graphs : \E i \in DOMAIN m.graphs[g].documents : r = <<g, i>>
  BY <1>2, ReferenceFacts
<1>6. g \in naming
  BY <1>2, <1>5 DEF Referenced, Image
<1>7. ASSUME NEW h \in naming PROVE h = g
  <2>1. PICK j \in DOMAIN m.graphs[h].documents : m.graphs[h].documents[j] = d
    BY <1>7 DEF Image
  <2>2. <<h, j>> \in References(m) /\ Referenced(m, <<h, j>>) = d
    BY <1>7, <2>1, ReferenceFacts DEF Referenced
  <2>3. <<h, j>> = r
    BY <1>1, <1>2, <2>2
  <2> QED BY <1>5, <2>3
<1>8. m.graphs \in Seq([id : Names, documents : Seq(Names)]) /\ g \in Nat
  BY <1>5 DEF Manifests
<1>9. GraphOf(m, d) = m.graphs[g].id
  <2>1. naming = {g}
    BY <1>6, <1>7
  <2>2. (CHOOSE x \in naming : \A h \in naming : h <= x) = g
    BY <1>8, <2>1
  <2> QED BY <2>2 DEF GraphOf
<1>10. ASSUME NEW x \in DOMAIN m.graphs, m.graphs[x].id = m.graphs[g].id PROVE x = g
  <2>1. Ids(m.graphs) \in Seq(Names) /\ DOMAIN Ids(m.graphs) = DOMAIN m.graphs
    <3>1. DOMAIN m.graphs = 1 .. Len(m.graphs) /\ Len(m.graphs) \in Nat
      BY <1>8
    <3>2. \A i \in DOMAIN m.graphs : m.graphs[i] \in [id : Names, documents : Seq(Names)]
      BY <1>8, MemberOf
    <3>3. \A i \in DOMAIN m.graphs : m.graphs[i].id \in Names
      BY <3>2
    <3> QED BY <3>1, <3>3 DEF Ids
  <2>2. Ids(m.graphs)[x] = Ids(m.graphs)[g]
    BY <1>5, <1>10 DEF Ids
  <2> QED BY <1>5, <2>1, <2>2, DistinctFacts DEF ValidManifest
<1>11. ASSUME NEW q \in Image(m.graphs) PROVE q.id = GraphOf(m, d) <=> d \in Image(q.documents)
  <2>1. PICK x \in DOMAIN m.graphs : q = m.graphs[x]
    BY DEF Image
  <2>2. q.id = GraphOf(m, d) => x = g
    BY <1>9, <1>10, <2>1
  <2>3. d \in Image(q.documents) => x = g
    BY <1>7, <2>1
  <2> QED BY <1>6, <1>9, <2>1, <2>2, <2>3
<1> QED BY <1>4, <1>11
-----------------------------------------------------------------------------
(* The steps.                                                              *)

LEMMA PlanningInit == PlanInit => PlanningInv
<1> SUFFICES ASSUME PlanInit PROVE PlanningInv
  OBVIOUS
<1>1. DOMAIN outputs = {}
  BY DEF PlanInit
<1>2. WorldFits
  BY <1>1, PlanAssumption DEF PlanInit, WorldFits
<1>3. \A b \in Batches : BatchFits(b)
  BY DEF PlanInit, BatchFits
<1>4. \A b \in Batches : ReadFits(b)
  BY DEF PlanInit, ReadFits, Between
<1> QED BY <1>2, <1>3, <1>4 DEF PlanningInv

\* A batch that a step does not touch keeps what it has established.
LEMMA OthersKeep ==
  ASSUME PlanningInv, NEW b \in Batches,
         manifest' = manifest, base'[b] = base[b], identity'[b] = identity[b],
         settings'[b] = settings[b], progress'[b] \in {progress[b], "refused"},
         progress[b] = "running" /\ manifest[b].output \in DOMAIN outputs =>
           manifest[b].output \in DOMAIN outputs' /\ outputs'[manifest[b].output] = outputs[manifest[b].output]
  PROVE  BatchFits(b)'
<1>1. BatchFits(b)
  BY DEF PlanningInv
<1>2. manifest'[b] = manifest[b]
  OBVIOUS
<1>3. CASE progress'[b] = "refused"
  BY <1>1, <1>2, <1>3 DEF BatchFits, Accepted, Recorded
<1>4. CASE progress'[b] = progress[b]
  BY <1>1, <1>2, <1>4 DEF BatchFits, Accepted, Recorded
<1> QED BY <1>3, <1>4

\* So it does with what it has read, if an edit of a file that it has read
\* once is noted.
LEMMA ReadKeeps ==
  ASSUME PlanningInv, NEW b \in Batches, env' = env,
         loading'[b] = loading[b], base'[b] = base[b], settings'[b] = settings[b],
         progress'[b] = "contracts" => progress[b] = "contracts",
         \A f \in ConfigFiles : Between(b, f)' => Between(b, f),
         stale[b] \subseteq stale'[b],
         \A f \in ConfigFiles : files'[f] = files[f] \/ (Between(b, f) => f \in stale'[b])
  PROVE  ReadFits(b)'
<1>1. ReadFits(b)
  BY DEF PlanningInv
<1>2. \A f \in ConfigFiles : Between(b, f)' => Between(b, f)
  OBVIOUS
<1>3. \A c : (FromExtraction(c, b)' <=> FromExtraction(c, b)) /\ (FromRuntime(c, b)' <=> FromRuntime(c, b))
  BY DEF FromExtraction, FromRuntime
<1>4. progress'[b] = "contracts" => loading'[b].runtime \in Runtimes
  BY <1>1 DEF ReadFits
<1>5. \A f \in ConfigFiles : Between(b, f)' /\ f \notin stale'[b] =>
        Between(b, f) /\ f \notin stale[b] /\ files'[f] = files[f]
  BY <1>2
<1>6. /\ Between(b, "extraction")' /\ "extraction" \notin stale'[b] =>
           loading'[b].extraction = files'.extraction.extraction
      /\ Between(b, "runtime")' /\ "runtime" \notin stale'[b] => loading'[b].runtime = files'.runtime
  BY <1>1, <1>5 DEF ReadFits, ConfigFiles
<1>7. ASSUME NEW c \in base'[b]
      PROVE  /\ Between(b, "extraction")' \/ "extraction" \notin stale'[b] => FromExtraction(c, b)'
             /\ Between(b, "runtime")' \/ "runtime" \notin stale'[b] => FromRuntime(c, b)'
  BY <1>1, <1>2, <1>3 DEF ReadFits, ConfigFiles
<1>8. ASSUME NEW c \in settings'[b] PROVE FromExtraction(c, b)' /\ FromRuntime(c, b)'
  BY <1>1, <1>3 DEF ReadFits
<1> QED BY <1>4, <1>6, <1>7, <1>8 DEF ReadFits

\* Both, for a batch that stays where it is or is refused.
LEMMA OthersFit ==
  ASSUME PlanningInv, NEW b \in Batches, env' = env, manifest' = manifest,
         loading'[b] = loading[b], base'[b] = base[b], identity'[b] = identity[b],
         settings'[b] = settings[b], progress'[b] \in {progress[b], "refused"},
         stale[b] \subseteq stale'[b],
         \A f \in ConfigFiles : files'[f] = files[f] \/ (Between(b, f) => f \in stale'[b]),
         progress[b] = "running" /\ manifest[b].output \in DOMAIN outputs =>
           manifest[b].output \in DOMAIN outputs' /\ outputs'[manifest[b].output] = outputs[manifest[b].output]
  PROVE  BatchFits(b)' /\ ReadFits(b)'
<1>1. \A f \in ConfigFiles : Between(b, f)' => Between(b, f)
  BY DEF Between, ConfigFiles
<1>2. progress'[b] = "contracts" => progress[b] = "contracts"
  OBVIOUS
<1> QED BY <1>1, <1>2, OthersKeep, ReadKeeps

LEMMA ManifestFacts ==
  ASSUME WorldFits, NEW b \in Batches
  PROVE  /\ manifest[b] \in Manifests /\ manifest[b].profile # NoValue
         /\ \A i \in DOMAIN manifest[b].documents : manifest[b].documents[i].path \in Paths
         /\ DOMAIN manifest[b].documents = 1 .. Len(manifest[b].documents)
         /\ Len(manifest[b].documents) \in Nat
<1>1. manifest[b] \in Manifests
  BY PlanAssumption DEF WorldFits
<1>2. manifest[b].documents \in Seq([id : Names, path : Paths]) /\ manifest[b].profile \in Names
  BY <1>1 DEF Manifests
<1>3. \A i \in DOMAIN manifest[b].documents : manifest[b].documents[i] \in [id : Names, path : Paths]
  BY <1>2, MemberOf
<1> QED BY <1>1, <1>2, <1>3, PlanAssumption

\* A section is read: nothing is made of it yet.
LEMMA SectionStep ==
  ASSUME PlanningInv, NEW b \in Batches, NEW s \in {"runtime", "contracts"},
         progress[b] \in {"start", "load", "runtime"},
         progress' = [progress EXCEPT ![b] = s],
         DOMAIN loading' = Batches, DOMAIN loading'[b] = {"extraction", "runtime"},
         \A a \in Batches \ {b} : loading'[a] = loading[a],
         UNCHANGED <<files, env, disk, outputs, edits, manifest, base, hashed, identity, settings,
                     read, stale>>,
         ReadFits(b)'
  PROVE  PlanningInv'
<1>1. \A a \in Batches : DOMAIN loading'[a] = {"extraction", "runtime"}
  BY DEF PlanningInv, WorldFits
<1>2. WorldFits'
  BY <1>1 DEF PlanningInv, WorldFits
<1>3. ASSUME NEW a \in Batches PROVE BatchFits(a)' /\ ReadFits(a)'
  <2>1. CASE a # b
    <3>1. progress'[a] = progress[a] /\ loading'[a] = loading[a]
      BY <2>1 DEF PlanningInv, WorldFits
    <3> QED BY <3>1, OthersFit
  <2>2. CASE a = b
    <3>1. progress'[b] \in {"runtime", "contracts"} /\ BatchFits(b) /\ manifest'[b] = manifest[b]
      BY DEF PlanningInv, WorldFits
    <3>2. settings[b] = {} /\ (identity[b] = {} => base[b] = {})
      BY <3>1 DEF BatchFits
    <3>3. BatchFits(b)'
      BY <3>1, <3>2 DEF BatchFits, Accepted, Recorded
    <3> QED BY <2>2, <3>3
  <2> QED BY <2>1, <2>2
<1> QED BY <1>2, <1>3 DEF PlanningInv

\* What the first load makes of this section comes from the file as it is when
\* the second reads it, unless it was written in between.
LEMMA ReadExtractionStep ==
  ASSUME PlanningInv, NEW b \in Batches, ReadExtraction(b)
  PROVE  PlanningInv'
<1>1. /\ progress[b] \in {"start", "load"} /\ progress' = [progress EXCEPT ![b] = "runtime"]
      /\ loading' = [loading EXCEPT ![b].extraction = files.extraction.extraction]
      /\ UNCHANGED <<files, env, disk, outputs, edits, manifest, base, hashed, identity, settings,
                     read, stale>>
  BY DEF ReadExtraction, Goto, world
<1>2. /\ progress'[b] = "runtime" /\ loading'[b].extraction = files.extraction.extraction
      /\ loading'[b].runtime = loading[b].runtime
      /\ BatchFits(b) /\ ReadFits(b)
  BY <1>1 DEF PlanningInv, WorldFits
<1>3. settings[b] = {} /\ (identity[b] = {} => base[b] = {})
      /\ (progress[b] = "start" => identity[b] = {}) /\ (progress[b] = "load" => identity[b] # {})
  BY <1>1, <1>2 DEF BatchFits
<1>4. Between(b, "runtime")' => Between(b, "runtime")
  BY <1>1, <1>2, <1>3 DEF Between
<1>5. ASSUME NEW c \in base[b], "extraction" \notin stale[b] PROVE FromExtraction(c, b)'
  <2>1. progress[b] = "load" /\ identity[b] # {}
    BY <1>1, <1>3
  <2>2. loading[b].extraction = files.extraction.extraction
    BY <1>2, <1>5, <2>1 DEF ReadFits, Between
  <2> QED BY <1>2, <1>5, <2>2 DEF ReadFits, FromExtraction
<1>6. ASSUME NEW c \in base[b], Between(b, "extraction")' PROVE FALSE
  BY <1>1, <1>2, <1>3, <1>6 DEF Between
<1>7. ASSUME NEW c \in base[b], Between(b, "runtime")' \/ "runtime" \notin stale[b]
      PROVE  FromRuntime(c, b)'
  <2>1. FromRuntime(c, b)
    BY <1>2, <1>4, <1>7 DEF ReadFits
  <2> QED BY <1>1, <1>2, <2>1 DEF FromRuntime
<1>8. Between(b, "runtime")' /\ "runtime" \notin stale[b] => loading'[b].runtime = files.runtime
  BY <1>2, <1>4 DEF ReadFits
<1>9. ReadFits(b)'
  BY <1>1, <1>2, <1>3, <1>5, <1>6, <1>7, <1>8 DEF ReadFits
<1>10. /\ DOMAIN loading' = Batches /\ DOMAIN loading'[b] = {"extraction", "runtime"}
       /\ \A a \in Batches \ {b} : loading'[a] = loading[a]
  BY <1>1 DEF PlanningInv, WorldFits
<1> QED BY <1>1, <1>9, <1>10, SectionStep

LEMMA ReadRuntimeStep ==
  ASSUME PlanningInv, NEW b \in Batches, ReadRuntime(b)
  PROVE  PlanningInv'
<1>1. /\ progress[b] = "runtime" /\ progress' = [progress EXCEPT ![b] = "contracts"]
      /\ loading' = [loading EXCEPT ![b].runtime = files.runtime]
      /\ UNCHANGED <<files, env, disk, outputs, edits, manifest, base, hashed, identity, settings,
                     read, stale>>
  BY DEF ReadRuntime, Goto, world
<1>2. /\ progress'[b] = "contracts" /\ loading'[b].runtime = files.runtime
      /\ loading'[b].extraction = loading[b].extraction
      /\ files.runtime \in Runtimes /\ BatchFits(b) /\ ReadFits(b)
  BY <1>1 DEF PlanningInv, WorldFits
<1>3. settings[b] = {} /\ (identity[b] = {} => base[b] = {})
  BY <1>1, <1>2 DEF BatchFits
<1>4. Between(b, "extraction")' => Between(b, "extraction")
  BY <1>1, <1>2 DEF Between
<1>5. ASSUME NEW c \in base[b], "runtime" \notin stale[b] PROVE FromRuntime(c, b)'
  <2>1. loading[b].runtime = files.runtime
    BY <1>1, <1>2, <1>3, <1>5 DEF ReadFits, Between
  <2>2. FromRuntime(c, b)
    BY <1>2, <1>5 DEF ReadFits
  <2> QED BY <1>1, <1>2, <2>1, <2>2 DEF FromRuntime
<1>6. ASSUME NEW c \in base[b], Between(b, "runtime")' PROVE FALSE
  BY <1>1, <1>2, <1>3, <1>6 DEF Between
<1>7. ASSUME NEW c \in base[b], Between(b, "extraction")' \/ "extraction" \notin stale[b]
      PROVE  FromExtraction(c, b)'
  <2>1. FromExtraction(c, b)
    BY <1>2, <1>4, <1>7 DEF ReadFits
  <2> QED BY <1>1, <1>2, <2>1 DEF FromExtraction
<1>8. Between(b, "extraction")' /\ "extraction" \notin stale[b] =>
        loading'[b].extraction = files.extraction.extraction
  BY <1>2, <1>4 DEF ReadFits
<1>9. ReadFits(b)'
  BY <1>1, <1>2, <1>3, <1>5, <1>6, <1>7, <1>8 DEF ReadFits
<1>10. /\ DOMAIN loading' = Batches /\ DOMAIN loading'[b] = {"extraction", "runtime"}
       /\ \A a \in Batches \ {b} : loading'[a] = loading[a]
  BY <1>1 DEF PlanningInv, WorldFits
<1> QED BY <1>1, <1>9, <1>10, SectionStep

\* What a load returns has the sections it read.
LEMMA AssembledFacts ==
  ASSUME PlanningInv, NEW b \in Batches, progress[b] = "contracts", NEW n
  PROVE  LET c == Assembled(b, n) IN
           /\ IsConfig(c) /\ (n # NoValue => c.selected = n)
           /\ FromExtraction(c, b) /\ FromRuntime(c, b)
<1>1. loading[b].runtime \in Runtimes /\ env \in Environments
  BY DEF PlanningInv, ReadFits, WorldFits
<1> DEFINE c == Loaded(loading[b].extraction, loading[b].runtime, files.extraction.contracts, env, n)
<1>2. Assembled(b, n) = c
  BY DEF Assembled
<1>3. IsConfig(c) /\ (n # NoValue => c.selected = n)
  BY <1>1, LoadedFacts
<1>4. FromExtraction(c, b) /\ FromRuntime(c, b)
  BY DEF Loaded, FromExtraction, FromRuntime
<1> HIDE DEF c
<1> QED BY <1>2, <1>3, <1>4

LEMMA LoadBaseStep ==
  ASSUME PlanningInv, NEW b \in Batches, LoadBase(b)
  PROVE  PlanningInv'
<1>0. PICK c : c = Assembled(b, NoValue)
  OBVIOUS
<1>1. /\ progress[b] = "contracts" /\ identity[b] = {}
      /\ UNCHANGED <<files, env, disk, outputs, edits, manifest, loading, hashed, identity, settings,
                     read, stale>>
      /\ \/ ValidRemote(c) /\ base' = [base EXCEPT ![b] = {c}] /\ progress' = [progress EXCEPT ![b] = "manifest"]
         \/ progress' = [progress EXCEPT ![b] = "refused"] /\ base' = base
  BY <1>0 DEF LoadBase, Goto, world, ValidSettings
<1>2. WorldFits'
  BY <1>1 DEF PlanningInv, WorldFits
<1>3. IsConfig(c) /\ FromExtraction(c, b) /\ FromRuntime(c, b)
  BY <1>0, <1>1, AssembledFacts
<1>4. ASSUME NEW a \in Batches PROVE BatchFits(a)' /\ ReadFits(a)'
  <2>1. CASE a # b \/ (progress' = [progress EXCEPT ![b] = "refused"] /\ base' = base)
    <3>1. /\ base'[a] = base[a] /\ progress'[a] \in {progress[a], "refused"}
      BY <1>1, <2>1 DEF PlanningInv, WorldFits
    <3> QED BY <1>1, <3>1, OthersFit
  <2>2. CASE /\ a = b /\ ValidRemote(c) /\ base' = [base EXCEPT ![b] = {c}]
             /\ progress' = [progress EXCEPT ![b] = "manifest"]
    <3>1. /\ base'[b] = {c} /\ progress'[b] = "manifest" /\ Sound(c)
          /\ BatchFits(b) /\ ReadFits(b)
      BY <1>1, <1>3, <2>2 DEF PlanningInv, WorldFits, Sound
    <3>2. settings'[b] = {} /\ identity'[b] = {}
      BY <1>1, <3>1 DEF BatchFits
    <3>3. BatchFits(b)'
      BY <3>1, <3>2 DEF BatchFits
    <3>4. FromExtraction(c, b)' /\ FromRuntime(c, b)'
      BY <1>1, <1>3 DEF FromExtraction, FromRuntime
    <3>5. \A f \in ConfigFiles : Between(b, f)' => Between(b, f)
      BY <1>1 DEF Between, ConfigFiles
    <3>6. ReadFits(b)'
      BY <1>1, <3>1, <3>2, <3>4, <3>5 DEF ReadFits, ConfigFiles
    <3> QED BY <2>2, <3>3, <3>6
  <2> QED BY <1>1, <2>1, <2>2
<1> QED BY <1>2, <1>4 DEF PlanningInv

LEMMA CheckManifestStep ==
  ASSUME PlanningInv, NEW b \in Batches, CheckManifest(b)
  PROVE  PlanningInv'
<1>1. /\ progress[b] = "manifest"
      /\ UNCHANGED <<files, env, disk, outputs, edits, manifest, own, stale>>
      /\ \/ Accepted(b) /\ progress' = [progress EXCEPT ![b] = "hash"]
         \/ progress' = [progress EXCEPT ![b] = "refused"]
  BY DEF CheckManifest, Goto, world, Accepted
<1>2. WorldFits'
  BY <1>1 DEF PlanningInv, WorldFits, own
<1>3. ASSUME NEW a \in Batches PROVE BatchFits(a)' /\ ReadFits(a)'
  <2>1. CASE a # b \/ progress' = [progress EXCEPT ![b] = "refused"]
    <3>1. progress'[a] \in {progress[a], "refused"}
      BY <1>1, <2>1 DEF PlanningInv, WorldFits
    <3> QED BY <1>1, <3>1, OthersFit DEF own
  <2>2. CASE a = b /\ Accepted(b) /\ progress' = [progress EXCEPT ![b] = "hash"]
    <3>1. progress'[b] = "hash" /\ BatchFits(b) /\ settings[b] = {} /\ identity[b] = {}
      BY <1>1, <2>2 DEF PlanningInv, WorldFits, BatchFits
    <3>2. BatchFits(b)'
      BY <1>1, <2>2, <3>1 DEF BatchFits, Accepted, own
    <3>3. \A f \in ConfigFiles : Between(b, f)' => Between(b, f)
      BY <1>1, <3>1 DEF Between, ConfigFiles
    <3> QED BY <1>1, <2>2, <3>1, <3>2, <3>3, ReadKeeps DEF own
  <2> QED BY <1>1, <2>1, <2>2
<1> QED BY <1>2, <1>3 DEF PlanningInv

\* A version is added to those hashed or read.
LEMMA VersionFacts ==
  ASSUME WorldFits, NEW b \in Batches, NEW s \in Seq(Nat \ {0}),
         Len(s) < Len(manifest[b].documents), disk[NextPath(b, s)] # 0
  PROVE  Append(s, disk[NextPath(b, s)]) \in Seq(Nat \ {0})
<1>1. Len(s) + 1 \in DOMAIN manifest[b].documents
  BY ManifestFacts
<1>2. NextPath(b, s) \in Paths
  BY <1>1, ManifestFacts DEF NextPath
<1>3. disk[NextPath(b, s)] \in Nat \ {0}
  BY <1>2 DEF WorldFits
<1> QED BY <1>3

LEMMA HashDocumentStep ==
  ASSUME PlanningInv, NEW b \in Batches, HashDocument(b)
  PROVE  PlanningInv'
<1>1. /\ progress[b] = "hash"
      /\ UNCHANGED <<files, env, disk, outputs, edits, manifest, loading, base, identity, settings, read,
                     stale>>
      /\ progress' \in {progress, [progress EXCEPT ![b] = "refused"]}
      /\ \/ hashed' = hashed
         \/ /\ disk[NextPath(b, hashed[b])] # 0 /\ Len(hashed[b]) < Len(manifest[b].documents)
            /\ hashed' = [hashed EXCEPT ![b] = Append(@, disk[NextPath(b, hashed[b])])]
  BY DEF HashDocument, Goto, world
<1>2. hashed' \in [Batches -> Seq(Nat \ {0})]
  <2>1. hashed[b] \in Seq(Nat \ {0}) /\ WorldFits
    BY DEF PlanningInv, WorldFits
  <2>2. CASE hashed' = hashed
    BY <2>2 DEF PlanningInv, WorldFits
  <2>3. CASE hashed' # hashed
    <3>1. Append(hashed[b], disk[NextPath(b, hashed[b])]) \in Seq(Nat \ {0})
      BY <1>1, <2>1, <2>3, VersionFacts
    <3>2. hashed' = [hashed EXCEPT ![b] = Append(hashed[b], disk[NextPath(b, hashed[b])])]
      BY <1>1, <2>3
    <3> QED BY <2>1, <3>1, <3>2 DEF WorldFits
  <2> QED BY <2>2, <2>3
<1>3. WorldFits'
  BY <1>1, <1>2 DEF PlanningInv, WorldFits
<1>4. ASSUME NEW a \in Batches PROVE BatchFits(a)' /\ ReadFits(a)'
  <2>1. progress'[a] \in {progress[a], "refused"}
    BY <1>1 DEF PlanningInv, WorldFits
  <2> QED BY <1>1, <2>1, OthersFit
<1> QED BY <1>3, <1>4 DEF PlanningInv

LEMMA RecordIdentityStep ==
  ASSUME PlanningInv, NEW b \in Batches, RecordIdentity(b)
  PROVE  PlanningInv'
<1>1. /\ progress[b] = "hash"
      /\ UNCHANGED <<files, env, disk, outputs, edits, manifest, loading, base, hashed, settings, read,
                     stale>>
      /\ progress' = [progress EXCEPT ![b] = "load"]
      /\ identity' = [identity EXCEPT ![b] = {Identity(Selected(c, manifest[b])) : c \in base[b]}]
  BY DEF RecordIdentity, Goto, world
<1>2. WorldFits'
  BY <1>1 DEF PlanningInv, WorldFits
<1>3. ASSUME NEW a \in Batches PROVE BatchFits(a)' /\ ReadFits(a)'
  <2>1. CASE a # b
    <3>1. progress'[a] = progress[a] /\ identity'[a] = identity[a]
      BY <1>1, <2>1 DEF PlanningInv, WorldFits
    <3> QED BY <1>1, <3>1, OthersFit
  <2>2. CASE a = b
    <3>1. /\ progress'[b] = "load" /\ BatchFits(b) /\ settings[b] = {} /\ identity[b] = {}
          /\ Accepted(b)
          /\ identity'[b] = {Identity(Selected(c, manifest[b])) : c \in base[b]}
      BY <1>1, <2>2 DEF PlanningInv, WorldFits, BatchFits
    <3>2. identity'[b] # {}
      BY <3>1 DEF Accepted
    <3>3. BatchFits(b)'
      BY <1>1, <2>2, <3>1, <3>2 DEF BatchFits, Accepted, Recorded
    <3>4. \A f \in ConfigFiles : Between(b, f)' => Between(b, f)
      BY <1>1, <3>1 DEF Between, ConfigFiles
    <3> QED BY <1>1, <2>2, <3>1, <3>3, <3>4, ReadKeeps
  <2> QED BY <2>1, <2>2
<1> QED BY <1>2, <1>3 DEF PlanningInv

LEMMA LoadSelectedStep ==
  ASSUME PlanningInv, NEW b \in Batches, LoadSelected(b)
  PROVE  PlanningInv'
<1>0. PICK c : c = Assembled(b, manifest[b].profile)
  OBVIOUS
<1>1. /\ progress[b] = "contracts" /\ identity[b] # {}
      /\ UNCHANGED <<files, env, disk, outputs, edits, manifest, loading, base, hashed, identity, read,
                     stale>>
      /\ \/ ValidRemote(c) /\ settings' = [settings EXCEPT ![b] = {c}] /\ progress' = [progress EXCEPT ![b] = "read"]
         \/ progress' = [progress EXCEPT ![b] = "refused"] /\ settings' = settings
  BY <1>0 DEF LoadSelected, Goto, world, ValidSettings
<1>2. WorldFits'
  BY <1>1 DEF PlanningInv, WorldFits
<1>3. IsConfig(c) /\ c.selected = manifest[b].profile /\ FromExtraction(c, b) /\ FromRuntime(c, b)
  BY <1>0, <1>1, AssembledFacts, ManifestFacts DEF PlanningInv
<1>4. ASSUME NEW a \in Batches PROVE BatchFits(a)' /\ ReadFits(a)'
  <2>1. CASE a # b \/ (progress' = [progress EXCEPT ![b] = "refused"] /\ settings' = settings)
    <3>1. /\ settings'[a] = settings[a] /\ progress'[a] \in {progress[a], "refused"}
      BY <1>1, <2>1 DEF PlanningInv, WorldFits
    <3> QED BY <1>1, <3>1, OthersFit
  <2>2. CASE /\ a = b /\ ValidRemote(c) /\ settings' = [settings EXCEPT ![b] = {c}]
             /\ progress' = [progress EXCEPT ![b] = "read"]
    <3>1. /\ settings'[b] = {c} /\ progress'[b] = "read" /\ Sound(c)
          /\ BatchFits(b) /\ ReadFits(b)
      BY <1>1, <1>3, <2>2 DEF PlanningInv, WorldFits, Sound
    <3>2. BatchFits(b)'
      BY <1>1, <1>3, <3>1 DEF BatchFits, Accepted, Recorded
    <3>3. FromExtraction(c, b)' /\ FromRuntime(c, b)'
      BY <1>1, <1>3 DEF FromExtraction, FromRuntime
    <3>4. \A f \in ConfigFiles : ~Between(b, f)'
      BY <1>1, <3>1 DEF Between
    <3>5. \A d \in base'[b] : (FromExtraction(d, b)' <=> FromExtraction(d, b)) /\ (FromRuntime(d, b)' <=> FromRuntime(d, b))
      BY <1>1 DEF FromExtraction, FromRuntime
    <3>6. ReadFits(b)'
      BY <1>1, <3>1, <3>3, <3>4, <3>5 DEF ReadFits, ConfigFiles
    <3> QED BY <2>2, <3>2, <3>6
  <2> QED BY <1>1, <2>1, <2>2
<1> QED BY <1>2, <1>4 DEF PlanningInv

LEMMA ReadDocumentStep ==
  ASSUME PlanningInv, NEW b \in Batches, ReadDocument(b)
  PROVE  PlanningInv'
<1>1. /\ progress[b] = "read"
      /\ UNCHANGED <<files, env, disk, outputs, edits, manifest, loading, base, hashed, identity, settings,
                     stale>>
      /\ progress' \in {progress, [progress EXCEPT ![b] = "refused"]}
      /\ \/ read' = read
         \/ /\ disk[NextPath(b, read[b])] # 0 /\ Len(read[b]) < Len(manifest[b].documents)
            /\ read' = [read EXCEPT ![b] = Append(@, disk[NextPath(b, read[b])])]
  BY DEF ReadDocument, Goto, world
<1>2. read' \in [Batches -> Seq(Nat \ {0})]
  <2>1. read[b] \in Seq(Nat \ {0}) /\ WorldFits
    BY DEF PlanningInv, WorldFits
  <2>2. CASE read' = read
    BY <2>2 DEF PlanningInv, WorldFits
  <2>3. CASE read' # read
    <3>1. Append(read[b], disk[NextPath(b, read[b])]) \in Seq(Nat \ {0})
      BY <1>1, <2>1, <2>3, VersionFacts
    <3>2. read' = [read EXCEPT ![b] = Append(read[b], disk[NextPath(b, read[b])])]
      BY <1>1, <2>3
    <3> QED BY <2>1, <3>1, <3>2 DEF WorldFits
  <2> QED BY <2>2, <2>3
<1>3. WorldFits'
  BY <1>1, <1>2 DEF PlanningInv, WorldFits
<1>4. ASSUME NEW a \in Batches PROVE BatchFits(a)' /\ ReadFits(a)'
  <2>1. progress'[a] \in {progress[a], "refused"}
    BY <1>1 DEF PlanningInv, WorldFits
  <2> QED BY <1>1, <2>1, OthersFit
<1> QED BY <1>3, <1>4 DEF PlanningInv

\* The directory is made by one batch only: another finds it there.
LEMMA CreateOutputStep ==
  ASSUME PlanningInv, NEW b \in Batches, CreateOutput(b)
  PROVE  PlanningInv'
<1> DEFINE o == manifest[b].output
<1>1. /\ progress[b] = "read"
      /\ UNCHANGED <<files, env, disk, edits, manifest, own, stale>>
      /\ \/ progress' = [progress EXCEPT ![b] = "refused"] /\ outputs' = outputs
         \/ /\ o \notin DOMAIN outputs /\ progress' = [progress EXCEPT ![b] = "running"]
            /\ outputs' = Over([x \in {o} |-> b], outputs)
  BY DEF CreateOutput, Goto
<1>2. CASE progress' = [progress EXCEPT ![b] = "refused"] /\ outputs' = outputs
  <2>1. WorldFits'
    BY <1>1, <1>2 DEF PlanningInv, WorldFits, own
  <2>2. ASSUME NEW a \in Batches PROVE BatchFits(a)' /\ ReadFits(a)'
    <3>1. progress'[a] \in {progress[a], "refused"}
      BY <1>2 DEF PlanningInv, WorldFits
    <3> QED BY <1>1, <1>2, <3>1, OthersFit DEF own
  <2> QED BY <2>1, <2>2 DEF PlanningInv
<1>3. CASE /\ o \notin DOMAIN outputs /\ progress' = [progress EXCEPT ![b] = "running"]
           /\ outputs' = Over([x \in {o} |-> b], outputs)
  <2>1. /\ DOMAIN outputs' = DOMAIN outputs \cup {o} /\ outputs'[o] = b
        /\ \A x \in DOMAIN outputs : outputs'[x] = outputs[x]
    BY <1>3 DEF Over
  <2>2. WorldFits'
    BY <1>1, <1>3, <2>1 DEF PlanningInv, WorldFits, own
  <2>3. ASSUME NEW a \in Batches PROVE BatchFits(a)' /\ ReadFits(a)'
    <3>1. CASE a # b
      <4>1. progress'[a] = progress[a]
        BY <1>3, <3>1 DEF PlanningInv, WorldFits
      <4> QED BY <1>1, <2>1, <4>1, OthersFit DEF own
    <3>2. CASE a = b
      <4>1. progress'[b] = "running" /\ BatchFits(b)
        BY <1>3 DEF PlanningInv, WorldFits
      <4>2. BatchFits(b)'
        BY <1>1, <2>1, <3>2, <4>1 DEF BatchFits, Accepted, Recorded, own
      <4>3. \A f \in ConfigFiles : Between(b, f)' => Between(b, f)
        BY <1>1, <4>1 DEF Between, ConfigFiles, own
      <4> QED BY <1>1, <3>2, <4>1, <4>2, <4>3, ReadKeeps DEF own
    <3> QED BY <3>1, <3>2
  <2> QED BY <2>2, <2>3 DEF PlanningInv
<1> QED BY <1>1, <1>2, <1>3

\* An edit of a file that a first load has read, and its second has not, is
\* noted.
LEMMA EditFileStep ==
  ASSUME PlanningInv, NEW f \in ConfigFiles, EditFile(f)
  PROVE  PlanningInv'
<1> DEFINE values == IF f = "extraction" THEN Extractions ELSE Runtimes
<1>1. PICK v \in values : files' = [files EXCEPT ![f] = v]
  BY DEF EditFile
<1>2. /\ edits < MaxEdits /\ edits' = edits + 1
      /\ stale' = [b \in Batches |-> IF Between(b, f) THEN stale[b] \cup {f} ELSE stale[b]]
      /\ UNCHANGED <<env, disk, outputs, manifest, progress, own>>
  BY DEF EditFile
<1>3. /\ files' \in [extraction : Extractions, runtime : Runtimes]
      /\ \A g \in ConfigFiles \ {f} : files'[g] = files[g]
  BY <1>1 DEF PlanningInv, WorldFits, ConfigFiles
<1>4. WorldFits'
  BY <1>2, <1>3, PlanAssumption DEF PlanningInv, WorldFits, own
<1>5. ASSUME NEW a \in Batches PROVE BatchFits(a)' /\ ReadFits(a)'
  <2>1. stale[a] \subseteq stale'[a] /\ (Between(a, f) => f \in stale'[a])
    BY <1>2
  <2> QED BY <1>2, <1>3, <2>1, OthersFit DEF own
<1> QED BY <1>4, <1>5 DEF PlanningInv

LEMMA EditDocumentStep ==
  ASSUME PlanningInv, EditDocument
  PROVE  PlanningInv'
<1>1. /\ edits < MaxEdits /\ edits' = edits + 1 /\ disk' \in [Paths -> Nat]
      /\ UNCHANGED <<files, env, outputs, manifest, progress, own, stale>>
  <2>1. edits \in Nat /\ disk \in [Paths -> Nat]
    BY PlanAssumption DEF PlanningInv, WorldFits
  <2>2. PICK p \in Paths : disk' \in {[disk EXCEPT ![p] = v] : v \in {0, edits + 2}} \ {disk}
    BY DEF EditDocument
  <2>3. disk' \in [Paths -> Nat]
    BY <2>1, <2>2
  <2> QED BY <2>3 DEF EditDocument
<1>2. WorldFits'
  BY <1>1, PlanAssumption DEF PlanningInv, WorldFits, own
<1>3. ASSUME NEW a \in Batches PROVE BatchFits(a)' /\ ReadFits(a)'
  BY <1>1, OthersFit DEF own
<1> QED BY <1>2, <1>3 DEF PlanningInv

\* Every step of every batch, and every edit between them, keeps PlanningInv
\* (batch_manifest.py:146-197, batch_runner.py:28-33 and 184-199).
THEOREM PlanningInvariant == PlanSpec => []PlanningInv
<1>1. PlanningInv /\ [PlanNext]_planVars => PlanningInv'
  <2> SUFFICES ASSUME PlanningInv, [PlanNext]_planVars PROVE PlanningInv'
    OBVIOUS
  <2>1. CASE UNCHANGED planVars
    <3>1. WorldFits'
      BY <2>1 DEF planVars, world, own, PlanningInv, WorldFits
    <3>2. ASSUME NEW b \in Batches PROVE BatchFits(b)' /\ ReadFits(b)'
      BY <2>1, OthersFit DEF planVars, world, own
    <3> QED BY <3>1, <3>2 DEF PlanningInv
  <2>2. ASSUME NEW b \in Batches, Proceed(b) PROVE PlanningInv'
    BY <2>2, ReadExtractionStep, ReadRuntimeStep, LoadBaseStep, CheckManifestStep, HashDocumentStep, RecordIdentityStep,
       LoadSelectedStep, ReadDocumentStep, CreateOutputStep DEF Proceed
  <2> QED BY <2>1, <2>2, EditFileStep, EditDocumentStep DEF PlanNext, Edit
<1> QED BY <1>1, PlanningInit, PTL DEF PlanSpec

\* However the starts of several batches interleave and whatever is edited in
\* between: a running batch has its directory to itself, its groups partition
\* its documents, and the manifest's profile is the one used.
THEOREM PlanAlwaysInv == PlanSpec => []PlanInv
<1>1. PlanningInv => PlanInv
  <2> SUFFICES ASSUME PlanningInv PROVE PlanInv
    OBVIOUS
  <2>1. PlanTypeOK
    <3>1. ASSUME NEW b \in Batches PROVE 0 \notin Image(hashed[b]) \cup Image(read[b])
      <4>1. hashed[b] \in Seq(Nat \ {0}) /\ read[b] \in Seq(Nat \ {0})
        BY DEF PlanningInv, WorldFits
      <4> QED BY <4>1, MemberOf DEF Image
    <3> QED BY <3>1 DEF PlanTypeOK, PlanningInv, WorldFits, BatchFits
  <2>2. OwnDirectory
    BY DEF OwnDirectory, PlanningInv, BatchFits
  <2>3. GroupsPartitionDocuments
    <3>1. \A b \in Batches : identity[b] # {} =>
            ValidManifest(manifest[b]) /\ manifest[b] \in Manifests
      BY ManifestFacts DEF PlanningInv, WorldFits, BatchFits, Accepted
    <3> QED BY <3>1, PartitionFacts DEF GroupsPartitionDocuments
  <2>4. ManifestProfileIsUsed
    BY EffectiveFacts DEF ManifestProfileIsUsed, PlanningInv, BatchFits
  <2> QED BY <2>1, <2>2, <2>3, <2>4 DEF PlanInv
<1> QED BY <1>1, PlanningInvariant, PTL

\* The identity recorded when a batch is planned is that of its requests as far
\* as the files the two loads read are the same: edits of one file do not
\* touch what comes from the other.
THEOREM IdentityAlwaysSent == PlanSpec => []RecordedIdentityIsSent
<1>1. PlanningInv => RecordedIdentityIsSent
  <2> SUFFICES ASSUME PlanningInv, NEW b \in Batches, NEW c \in settings[b],
                      NEW built \in Requests(c), NEW i \in identity[b]
               PROVE  /\ built.messages = i.prompt
                      /\ "extraction" \notin stale[b] => built.tools.parameters = i.schema
                      /\ "runtime" \notin stale[b] =>
                           /\ built.model = i.served /\ i.model = manifest[b].model
                           /\ i.choice = IF "tool_choice" \in DOMAIN built THEN built.tool_choice ELSE NoValue
                           /\ i.extra = [k \in DOMAIN built \ DOMAIN Base(c) |-> built[k]]
    BY DEF RecordedIdentityIsSent
  <2>1. /\ Sound(c) /\ c.selected = manifest[b].profile /\ Accepted(b) /\ Recorded(b)
        /\ \A x, y \in base[b] : x = y /\ Sound(x)
        /\ FromExtraction(c, b) /\ FromRuntime(c, b)
    BY DEF PlanningInv, BatchFits, ReadFits
  <2>2. PICK first \in base[b] : i = Identity(Selected(first, manifest[b]))
    BY <2>1 DEF Recorded
  <2> DEFINE d == Selected(first, manifest[b])
  <2>3. /\ Sound(first) /\ manifest[b].profile \in DOMAIN first.profiles
        /\ first.profiles[manifest[b].profile].model = manifest[b].model
    BY <2>1, <2>2 DEF Accepted
  <2>4. /\ d.extraction = first.extraction /\ d.profiles = first.profiles
        /\ d.samplings = first.samplings /\ d.overrides = first.overrides
        /\ d.selected = manifest[b].profile
    BY <2>3 DEF Selected, Sound, IsConfig
  <2>5. built = Payload(c)
    BY DEF Requests
  <2>6. /\ i.prompt = Prompt /\ i.schema = Schema(d) /\ i.model = Effective(d).model
        /\ i.served = Optional(Effective(d).served, Effective(d).model)
        /\ i.choice = Effective(d).choice /\ i.extra = Extras(d)
    BY <2>2 DEF Identity
  <2> HIDE DEF d
  <2>7. built.messages = Prompt /\ built.tools.parameters = Schema(c)
    BY <2>1, <2>5, PayloadFacts, ZenonT(60)
  <2>8. ASSUME "extraction" \notin stale[b] PROVE Schema(c) = Schema(d)
    <3>1. first.extraction = c.extraction
      BY <2>1, <2>8 DEF PlanningInv, ReadFits, FromExtraction
    <3> QED BY <2>4, <3>1 DEF Schema
  <2>9. ASSUME "runtime" \notin stale[b]
        PROVE  Effective(c) = Effective(d) /\ Extras(c) = Extras(d)
    <3>1. FromRuntime(first, b)
      BY <2>9 DEF PlanningInv, ReadFits
    <3>2. /\ c.profiles = d.profiles /\ c.samplings = d.samplings
          /\ c.overrides = d.overrides /\ c.selected = d.selected
      BY <2>1, <2>4, <3>1 DEF FromRuntime
    <3> QED BY <3>2, SameRuntimeFacts
  <2>10. Effective(c).model = c.profiles[c.selected].model
    BY <2>1, EffectiveFacts
  <2>11. ASSUME "runtime" \notin stale[b] PROVE i.model = manifest[b].model
    <3>1. FromRuntime(first, b)
      BY <2>11 DEF PlanningInv, ReadFits
    <3>2. c.profiles = first.profiles
      BY <2>1, <3>1 DEF FromRuntime
    <3> QED BY <2>1, <2>3, <2>6, <2>9, <2>10, <2>11, <3>2
  <2>12. /\ built.model = Optional(Effective(c).served, Effective(c).model)
         /\ Effective(c).choice = IF "tool_choice" \in DOMAIN built THEN built.tool_choice ELSE NoValue
         /\ Extras(c) = [k \in DOMAIN built \ DOMAIN Base(c) |-> built[k]]
    <3>1. /\ DOMAIN Extras(c) \subseteq {"chat_template_kwargs"}
          /\ DOMAIN Payload(c) = DOMAIN Extras(c) \cup DOMAIN Base(c)
          /\ \A k \in DOMAIN Base(c) : Payload(c)[k] = Base(c)[k]
          /\ "model" \in DOMAIN Base(c)
      BY <2>1, PayloadFacts
    <3>2. /\ "tool_choice" \in DOMAIN Payload(c) <=> "tool_choice" \in DOMAIN Base(c)
          /\ Payload(c).model = Base(c).model
          /\ "tool_choice" \in DOMAIN Base(c) => Payload(c).tool_choice = Base(c).tool_choice
      BY <3>1
    <3>3. built.model = Optional(Effective(c).served, Effective(c).model)
      BY <2>1, <2>5, <3>2, PayloadFacts
    <3>4. Effective(c).choice = IF "tool_choice" \in DOMAIN Base(c) THEN Base(c).tool_choice ELSE NoValue
      BY <2>1, PayloadFacts
    <3>5. Extras(c) = [k \in DOMAIN built \ DOMAIN Base(c) |-> built[k]]
      <4>1. Extras(c) = [k \in DOMAIN Payload(c) \ DOMAIN Base(c) |-> Payload(c)[k]]
        BY <2>1, PayloadFacts
      <4> QED BY <2>5, <4>1, Zenon
    <3> QED BY <2>5, <3>2, <3>3, <3>4, <3>5
  <2> QED BY <2>6, <2>7, <2>8, <2>9, <2>11, <2>12
<1> QED BY <1>1, PlanningInvariant, PTL

\* Extensions and overrides of a validated configuration add one key to the
\* request and change none of those the profile determines.
THEOREM ExtensionsAlwaysAddOnly == PlanSpec => []ExtensionsAddOnly
<1>1. PlanningInv => ExtensionsAddOnly
  <2> SUFFICES ASSUME PlanningInv, NEW b \in Batches, NEW c \in settings[b], NEW built \in Requests(c)
               PROVE LET p == c.profiles[c.selected]
                         given == IF p.sampling = NoValue THEN p ELSE c.samplings[p.sampling]
                     IN /\ \A k \in DOMAIN built \ {"chat_template_kwargs"} :
                             k \in DOMAIN Base(c) /\ built[k] = Base(c)[k]
                        /\ \A k \in {"temperature", "top_p", "seed"} :
                             IF given[k] = NoValue THEN k \notin DOMAIN built ELSE built[k] = given[k]
    BY DEF ExtensionsAddOnly
  <2>1. Sound(c) /\ built = Payload(c)
    BY DEF PlanningInv, BatchFits, Requests
  <2> DEFINE p == c.profiles[c.selected]
             given == IF p.sampling = NoValue THEN p ELSE c.samplings[p.sampling]
  <2>2. \A k \in {"temperature", "top_p", "seed"} : Effective(c)[k] = given[k]
    BY <2>1, EffectiveFacts
  <2> HIDE DEF given
  <2>3. \A k \in DOMAIN built \ {"chat_template_kwargs"} : k \in DOMAIN Base(c) /\ built[k] = Base(c)[k]
    BY <2>1, PayloadFacts
  <2>4. ASSUME NEW k \in {"temperature", "top_p", "seed"}
        PROVE  IF given[k] = NoValue THEN k \notin DOMAIN built ELSE built[k] = given[k]
    <3>1. IF Effective(c)[k] = NoValue THEN k \notin DOMAIN Base(c)
          ELSE k \in DOMAIN Base(c) /\ Base(c)[k] = Effective(c)[k]
      BY <2>1, PayloadFacts
    <3>2. /\ k \in DOMAIN Payload(c) <=> k \in DOMAIN Base(c)
          /\ k \in DOMAIN Base(c) => Payload(c)[k] = Base(c)[k]
      BY <2>1, PayloadFacts
    <3> QED BY <2>1, <2>2, <3>1, <3>2
  <2> QED BY <2>3, <2>4 DEF given
<1> QED BY <1>1, PlanningInvariant, PTL
-----------------------------------------------------------------------------
(* The compatibility probe.                                                *)

Rows == [result : BOOLEAN, usable : BOOLEAN, status : {r.status : r \in Replies}]
Modes == {"auto", "required", "named", "none"}
Stages == {"discovery", "plain", "tools", "choice", "input", "production", "finished"}

SelectedWorks == SelectedMode \in DOMAIN matrix /\ matrix[SelectedMode] = Pass
PlainWorks == args.productionOnly \/ args.toolOnly \/ plain = Pass

\* What each stage has established, before the verdict.
StageInv ==
  /\ stage \in Stages
  /\ stage \in {"discovery", "plain"} => matrix = <<>>
  /\ stage \in {"tools", "choice", "input", "production"} => PlainWorks
  /\ stage \in {"choice", "input", "production"} => modes = <<>>
  /\ stage \in {"input", "production"} => args.productionOnly \/ SelectedWorks
  /\ stage \notin {"production", "finished"} => rows = <<>>

\* The report and the modes.  A production-only probe tries none.
ReportInv ==
  /\ profile \in Profiles /\ args \in Arguments
  /\ modes \in Seq(Modes)
  /\ DOMAIN matrix \subseteq Modes
  /\ args.productionOnly => modes = <<>> /\ matrix = <<>>
  /\ rows \in Seq(Rows)
  /\ Len(rows) <= args.repeats
  /\ \A i \in DOMAIN rows : rows[i].result => rows[i].usable

VerdictInv ==
  /\ status \in {"running", "blocked", "failed", "passed", "error"}
  /\ (status = "running") <=> (stage # "finished")
  /\ NoFallback
  /\ PassedMeansUsable

JudgedInv == StageInv /\ ReportInv /\ VerdictInv

LEMMA JudgedInit == Init => JudgedInv
<1> SUFFICES ASSUME Init PROVE JudgedInv
  OBVIOUS
<1>1. StageInv
  BY DEF Init, StageInv, Stages
<1>2. args.repeats \in Nat
  BY DEF Init, Arguments
<1>3. modes \in Seq(Modes) /\ (args.productionOnly => modes = <<>>)
  <2>1. <<>> \in Seq(Modes) /\ <<"auto">> \in Seq(Modes)
    BY DEF Modes
  <2>2. <<"auto", "required", "named", "none">> \in Seq(Modes)
    BY DEF Modes
  <2>3. /\ args.productionOnly \in BOOLEAN /\ args.toolOnly \in BOOLEAN
        /\ args.productionOnly => ~args.toolOnly
    BY DEF Init, Arguments
  <2>4. CASE args.productionOnly
    <3>1. ToolCases = <<>>
      BY <2>3, <2>4 DEF ToolCases
    <3> QED BY <2>1, <3>1 DEF Init
  <2>5. CASE ~args.productionOnly
    <3>1. ToolCases \in {<<"auto">>, <<"auto", "required", "named", "none">>}
      BY <2>3, <2>5 DEF ToolCases
    <3> QED BY <2>1, <2>2, <2>5, <3>1 DEF Init
  <2> QED BY <2>4, <2>5
<1>4. ReportInv
  BY <1>2, <1>3 DEF Init, ReportInv
<1>5. VerdictInv
  BY DEF Init, VerdictInv, NoFallback, PassedMeansUsable
<1> QED BY <1>1, <1>4, <1>5 DEF JudgedInv

\* The rows of the report are rows, and one that passes is one the worker
\* would have taken.
LEMMA RowSound ==
  ASSUME NEW r \in Replies
  PROVE  Row(r) \in Rows /\ (Row(r).result => Row(r).usable)
<1>1. StructuredPass(r) /\ ContractPass(r) => WorkerAccepts(r)
  BY DEF StructuredPass, ContractPass, WorkerAccepts, ReasoningValid
<1>2. /\ (StructuredPass(r) /\ ContractPass(r)) \in BOOLEAN
      /\ WorkerAccepts(r) \in BOOLEAN
  BY DEF StructuredPass, ContractPass, WorkerAccepts
<1>3. Row(r) \in Rows
  BY <1>2, Zenon DEF Row, Rows
<1>4. Row(r).result = (StructuredPass(r) /\ ContractPass(r)) /\ Row(r).usable = WorkerAccepts(r)
  BY Zenon DEF Row
<1> QED BY <1>1, <1>3, <1>4, Zenon

LEMMA JudgedStep == ASSUME JudgedInv, [Next]_vars PROVE JudgedInv'
<1> USE DEF JudgedInv
<1>1. CASE UNCHANGED vars
  BY <1>1 DEF vars, StageInv, ReportInv, VerdictInv, SelectedWorks, PlainWorks, SelectedMode,
              NoFallback, PassedMeansUsable
<1>2. CASE Discover
  BY <1>2 DEF Discover, Finish, StageInv, ReportInv, VerdictInv, PlainWorks, NoFallback,
              PassedMeansUsable, Stages
<1>3. CASE PlainChat
  BY <1>3 DEF PlainChat, Finish, StageInv, ReportInv, VerdictInv, PlainWorks, NoFallback,
              PassedMeansUsable, Stages
<1>4. CASE TryMode
  <2>1. modes # <<>> /\ modes \in Seq(Modes) /\ stage = "tools"
    BY <1>4 DEF TryMode, ReportInv
  <2>2. modes[1] \in Modes /\ SubSeq(modes, 2, Len(modes)) \in Seq(Modes)
    BY <2>1
  <2>3. PICK r \in Replies : matrix' = With(modes[1], ToolVerdict(r))
    BY <1>4 DEF TryMode
  <2>4. DOMAIN matrix' \subseteq Modes
    BY <2>2, <2>3 DEF With, ReportInv
  <2>5. ~args.productionOnly
    BY <2>1 DEF ReportInv
  <2>6. StageInv'
    BY <1>4, <2>1 DEF TryMode, StageInv, PlainWorks
  <2>7. ReportInv'
    BY <1>4, <2>2, <2>4, <2>5 DEF TryMode, ReportInv
  <2>8. VerdictInv'
    BY <1>4, <2>1 DEF TryMode, VerdictInv, NoFallback, PassedMeansUsable
  <2> QED BY <2>6, <2>7, <2>8
<1>5. CASE ModesTried
  BY <1>5 DEF ModesTried, StageInv, ReportInv, VerdictInv, PlainWorks, NoFallback,
              PassedMeansUsable, Stages
<1>6. CASE CheckSelected
  BY <1>6 DEF CheckSelected, Finish, SelectedPass, SelectedWorks, SelectedMode, StageInv, ReportInv,
              VerdictInv, PlainWorks, NoFallback, PassedMeansUsable, Stages
<1>7. CASE SelectInput
  BY <1>7 DEF SelectInput, Finish, SelectedWorks, SelectedMode, StageInv, ReportInv,
              VerdictInv, PlainWorks, NoFallback, PassedMeansUsable, Stages
<1>8. CASE ProductionRequest
  <2>1. PICK r \in Replies : rows' = Append(rows, Row(r))
    BY <1>8 DEF ProductionRequest
  <2>2. Row(r) \in Rows /\ (Row(r).result => Row(r).usable)
    BY RowSound
  <2>3. rows \in Seq(Rows) /\ Len(rows) < args.repeats /\ args.repeats \in Nat
    BY <1>8 DEF ProductionRequest, ReportInv, Arguments
  <2>4. rows' \in Seq(Rows) /\ Len(rows') <= args.repeats
    BY <2>1, <2>2, <2>3
  <2>5. \A i \in DOMAIN rows' : rows'[i].result => rows'[i].usable
    BY <2>1, <2>2, <2>3 DEF ReportInv
  <2>6. ReportInv'
    BY <1>8, <2>4, <2>5 DEF ProductionRequest, ReportInv
  <2>7. StageInv'
    BY <1>8 DEF ProductionRequest, StageInv, PlainWorks, SelectedWorks, SelectedMode
  <2>8. VerdictInv'
    BY <1>8 DEF ProductionRequest, VerdictInv, NoFallback, PassedMeansUsable
  <2> QED BY <2>6, <2>7, <2>8
<1>9. CASE JudgeRepetitions
  BY <1>9 DEF JudgeRepetitions, Finish, SelectedWorks, SelectedMode, StageInv, ReportInv,
              VerdictInv, PlainWorks, NoFallback, PassedMeansUsable, Stages
<1> QED BY <1>1, <1>2, <1>3, <1>4, <1>5, <1>6, <1>7, <1>8, <1>9 DEF Next, Step, Finished
-----------------------------------------------------------------------------
\* At every step: what the stages established and what the report says.
THEOREM JudgedInvariant == Spec => []JudgedInv
<1>1. JudgedInv /\ [Next]_vars => JudgedInv'
  BY JudgedStep
<1> QED BY JudgedInit, <1>1, PTL DEF Spec

\* "passed" (main 607-670): the worker of production_runner.py would have taken
\* every reply to a repetition, and the tests the command line kept passed.
THEOREM PassedAlwaysUsable == Spec => []PassedMeansUsable
<1>1. JudgedInv => PassedMeansUsable
  BY DEF JudgedInv, VerdictInv
<1> QED BY <1>1, JudgedInvariant, PTL

\* The state invariant of the probe, with "without retries or fallbacks": the
\* selected mode alone decides whether the probe is blocked after the matrix.
THEOREM ProbeAlwaysInv == Spec => []ProbeInv
<1>1. JudgedInv => ProbeInv
  BY DEF JudgedInv, StageInv, ReportInv, VerdictInv, ProbeInv, ProbeTypeOK, Stages, Modes
<1> QED BY <1>1, JudgedInvariant, PTL
=============================================================================
