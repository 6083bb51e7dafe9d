------------------------- MODULE ProductionRunProofs -------------------------
(***************************************************************************)
(* What a reader of an output directory may rely on.  First of one file:   *)
(* _atomic_write, for any number of writers, deaths and power failures.    *)
(* Then of what the files say of each other, for any number of calls,      *)
(* directories, projection names and rebuilds, as long as no two calls     *)
(* work in one directory at a time.                                        *)
(*                                                                         *)
(* The first invariant says what a call has done by the time it reaches    *)
(* each step of the protocol: only a synchronized file is renamed, and     *)
(* only a call past its rename is ever shown.  The second says how far the *)
(* one call that writes in a directory has come, and what is there then;   *)
(* two more, what imports that meet and rebuilds that began beside a call  *)
(* may do to the namespace and to the time of the view.                    *)
(***************************************************************************)
EXTENDS ProductionRun, AtomicArtifact, TLAPS

(* One artifact: _atomic_write.                                            *)

\* Only a synchronized file is renamed.
FileFits(w) == pc[w] = "replace" => temp[w] = "synced"

Renamed == {"replaced", "unlink", "returned", "raised", "died"}

\* What may be shown is the old content or that of a call past its rename,
\* whose temporary file is gone.
ShownRenamed(c) == c = Old \/ (c \in Writers /\ pc[c] \in Renamed /\ temp[c] = "none")

ArtifactInv ==
  /\ ArtifactTypeOK
  /\ \A w \in Writers : FileFits(w)
  /\ \A c \in survives : ShownRenamed(c)

\* One step of one call keeps the types and moves only that call.
LEMMA StepMoves ==
  ASSUME NEW w \in Writers, NEW from, NEW to \in Calls, NEW file \in Temps,
         pc \in [Writers -> Calls \cup {"mkstemp"}], temp \in [Writers -> Temps],
         Step(w, from, to, file)
  PROVE  /\ pc' \in [Writers -> Calls \cup {"mkstemp"}]
         /\ temp' \in [Writers -> Temps]
         /\ pc[w] = from /\ pc'[w] = to /\ temp'[w] = file
         /\ \A v \in Writers \ {w} : pc'[v] = pc[v] /\ temp'[v] = temp[v]
BY DEF Step

\* A step that is not a rename: if its file fits its new place, and what was
\* shown is still past its rename without a file, the invariant is kept.
LEMMA QuietStep ==
  ASSUME NEW w \in Writers, NEW from, NEW to \in Calls, NEW file \in Temps,
         ArtifactInv, Step(w, from, to, file), UNCHANGED <<path, survives>>,
         to = "replace" => file = "synced",
         from \in Renamed /\ temp[w] = "none" => to \in Renamed /\ file = "none"
  PROVE  ArtifactInv'
<1> USE DEF ArtifactInv, ArtifactTypeOK
<1>1. /\ pc' \in [Writers -> Calls \cup {"mkstemp"}]
      /\ temp' \in [Writers -> Temps]
      /\ pc[w] = from /\ pc'[w] = to /\ temp'[w] = file
      /\ \A v \in Writers \ {w} : pc'[v] = pc[v] /\ temp'[v] = temp[v]
  BY StepMoves
<1>2. \A v \in Writers : FileFits(v)'
  BY <1>1 DEF FileFits
<1>3. \A c \in survives' : ShownRenamed(c)'
  BY <1>1 DEF ShownRenamed
<1> QED BY <1>1, <1>2, <1>3

LEMMA InitArtifactInv == ArtifactInit => ArtifactInv
BY DEF ArtifactInit, ArtifactInv, ArtifactTypeOK, FileFits, ShownRenamed, Temps

LEMMA WriteArtifactInv ==
  ASSUME NEW w \in Writers, ArtifactInv, WriteAtomic(w)
  PROVE  ArtifactInv'
<1>0. temp[w] \in Temps
  BY DEF ArtifactInv, ArtifactTypeOK
<1>1. CASE Create(w) BY <1>1, QuietStep DEF Create, Calls, Temps, Renamed
<1>2. CASE Enter(w) BY <1>2, QuietStep DEF Enter, Calls, Temps, Renamed
<1>3. CASE Fill(w) BY <1>3, QuietStep DEF Fill, Calls, Temps, Renamed
<1>4. CASE Sync(w) BY <1>4, QuietStep DEF Sync, Calls, Temps, Renamed
<1>5. CASE Return(w)
  <2>1. Step(w, "replaced", "returned", temp[w]) /\ UNCHANGED <<path, survives>>
    BY <1>5 DEF Return
  <2> QED BY <1>0, <2>1, QuietStep DEF Calls, Renamed
<1>6. CASE Unlink(w)
  <2>1. PICK left \in {"none", temp[w]} : Step(w, "unlink", "raised", left)
    BY <1>6 DEF Unlink
  <2>2. left \in Temps
    BY <1>0 DEF Temps
  <2> QED BY <1>6, <2>1, <2>2, QuietStep DEF Unlink, Calls, Renamed
<1>7. CASE Raises(w)
  <2>1. PICK s \in Guarded : Step(w, s, "unlink", temp[w])
    BY <1>7 DEF Raises
  <2> QED BY <1>0, <1>7, <2>1, QuietStep DEF Raises, Calls, Renamed
<1>8. CASE RaisesOutside(w)
  <2>1. PICK s \in {"mkstemp", "opened"} : Step(w, s, "raised", temp[w])
    BY <1>8 DEF RaisesOutside
  <2> QED BY <1>0, <1>8, <2>1, QuietStep DEF RaisesOutside, Calls, Renamed
<1>9. CASE Dies(w)
  <2>1. PICK s \in {"mkstemp", "opened", "unlink"} \cup Guarded : Step(w, s, "died", temp[w])
    BY <1>9 DEF Dies
  <2> QED BY <1>0, <1>9, <2>1, QuietStep DEF Dies, Calls, Renamed
<1>10. CASE Replace(w)
  <2>1. /\ pc' \in [Writers -> Calls \cup {"mkstemp"}]
        /\ temp' \in [Writers -> Temps]
        /\ pc[w] = "replace" /\ pc'[w] = "replaced" /\ temp'[w] = "none"
        /\ \A v \in Writers \ {w} : pc'[v] = pc[v] /\ temp'[v] = temp[v]
    BY <1>10, StepMoves DEF Replace, ArtifactInv, ArtifactTypeOK, Calls, Temps
  <2>2. path' = w /\ survives' = survives \cup {w}
    BY <1>10, <2>1 DEF Replace, ArtifactInv, FileFits
  <2>3. ArtifactTypeOK' BY <2>1, <2>2 DEF ArtifactTypeOK
  <2>4. \A v \in Writers : FileFits(v)' BY <2>1 DEF ArtifactInv, FileFits
  <2>5. \A c \in survives' : ShownRenamed(c)' BY <2>1, <2>2 DEF ArtifactInv, ShownRenamed, Renamed
  <2> QED BY <2>3, <2>4, <2>5 DEF ArtifactInv
<1> QED BY <1>1, <1>2, <1>3, <1>4, <1>5, <1>6, <1>7, <1>8, <1>9, <1>10 DEF WriteAtomic

LEMMA StepArtifactInv == ArtifactInv /\ [ArtifactNext]_artifactVars => ArtifactInv'
<1> SUFFICES ASSUME ArtifactInv, [ArtifactNext]_artifactVars PROVE ArtifactInv' OBVIOUS
<1>1. CASE \E w \in Writers : WriteAtomic(w) BY <1>1, WriteArtifactInv
<1>2. CASE Flush
  BY <1>2 DEF Flush, ArtifactInv, ArtifactTypeOK, FileFits, ShownRenamed
<1>3. CASE PowerFails
  <2>1. PICK undone \in SUBSET ((survives \cap Writers) \ {path'}) :
          temp' = [w \in Writers |-> IF w \in undone THEN "synced" ELSE temp[w]]
    BY <1>3 DEF PowerFails
  <2>2. /\ pc' \in [Writers -> Calls \cup {"mkstemp"}] /\ temp' \in [Writers -> Temps]
        /\ path' \in survives /\ survives' = {path'}
        /\ \A w \in Writers : pc'[w] = IF pc[w] \in {"returned", "raised"} THEN pc[w] ELSE "died"
    BY <1>3, <2>1 DEF PowerFails, ArtifactInv, ArtifactTypeOK, Calls, Temps
  <2>3. \A w \in Writers : FileFits(w)' BY <2>2 DEF FileFits
  <2>4. \A c \in survives' : ShownRenamed(c)'
    BY <2>1, <2>2 DEF ArtifactInv, ShownRenamed, Renamed
  <2> QED BY <2>2, <2>3, <2>4 DEF ArtifactInv, ArtifactTypeOK
<1>4. CASE UNCHANGED artifactVars
  BY <1>4 DEF artifactVars, ArtifactInv, ArtifactTypeOK, FileFits, ShownRenamed
<1> QED BY <1>1, <1>2, <1>3, <1>4 DEF ArtifactNext

\* The inductive invariant holds in every run.
THEOREM ArtifactInvariant == ArtifactSpec => []ArtifactInv
BY InitArtifactInv, StepArtifactInv, PTL DEF ArtifactSpec

\* Types of every variable of _atomic_write, for any set of writers.
THEOREM ArtifactTypesHold == ArtifactSpec => []ArtifactTypeOK
<1>1. ArtifactInv => ArtifactTypeOK BY DEF ArtifactInv
<1> QED BY <1>1, ArtifactInvariant, PTL

\* Before and after any crash a reader finds the old artifact or one whole
\* new one (artifact_store.py:25-38), for any number of writers.
THEOREM NeverTornHolds == ArtifactSpec => []NeverTorn
<1>1. ArtifactInv => NeverTorn BY DEF ArtifactInv, ArtifactTypeOK, ShownRenamed, NeverTorn
<1> QED BY <1>1, ArtifactInvariant, PTL

\* What a path shows is past its rename and not also left behind: whatever
\* temporary file a death, an interrupt, a failed unlink or a power failure
\* leaves, it is never of the shown content (artifact_store.py:27-37).
THEOREM LeftoversHold == ArtifactSpec => []LeftoversNeverShow
<1>1. ArtifactInv => LeftoversNeverShow
  BY DEF ArtifactInv, ArtifactTypeOK, ShownRenamed, Renamed, LeftoversNeverShow
<1> QED BY <1>1, ArtifactInvariant, PTL

\* _atomic_write implements an atomic register: every step of a writer, of the
\* file system or of a power failure is one change of the whole content, or
\* none that a reader can see.
THEOREM RegisterImplemented == ArtifactSpec => ImplementsRegister
<1>1. ArtifactInit => Register!Init BY DEF ArtifactInit, Register!Init
<1>2. ArtifactInv /\ [ArtifactNext]_artifactVars => [Register!Next]_path
  <2> SUFFICES ASSUME ArtifactInv, [ArtifactNext]_artifactVars, path' # path PROVE Register!Next OBVIOUS
  <2>1. ArtifactInv' BY StepArtifactInv
  <2>2. path' \in Writers \cup {Old}
    BY <2>1 DEF ArtifactInv, ArtifactTypeOK, ShownRenamed
  <2> QED BY <2>2 DEF Register!Next, Register!Set
<1> QED BY <1>1, <1>2, ArtifactInvariant, PTL DEF ArtifactSpec, ImplementsRegister, Register!Spec
-----------------------------------------------------------------------------
(* A directory: run(), rebuild_projection, and the viewer.                 *)

Writes(p, d) == at[p] > 1 /\ Target[p] = d

\* What a writer has passed is there, what it has not reached is not: except
\* that a rebuild may bring the diff and the view before the run does.
ProgressFits(p) ==
  LET d == Target[p] IN
    \A i \in DOMAIN Steps :
      /\ i < at[p] /\ Steps[i] \notin Unwritten => author[d][Steps[i]] = p
      /\ i >= at[p] /\ Steps[i] \notin Unwritten \cup {"edge_diff", "graph_view"} => author[d][Steps[i]] = Nobody

\* What a writer holds, and what its directory says by then.
WriterFits(p) ==
  LET d == Target[p] IN
    /\ ProgressFits(p)
    /\ author[d]["terminal_failure"] # Nobody => p \in ended /\ at[p] <= 10
    /\ manifest[d] = IF at[p] > 12 THEN {settings[p]} ELSE {}
    /\ at[p] > 13 => namespace[d] # {}
    /\ at[p] > 16 => (valid[d] <=> verdict[p] = "passed")
    /\ at[p] > 18 => verdict[p] = "passed"

\* One call writes in a directory; where none does, there is nothing.
DirectoryFits(d) ==
  /\ \A p, q \in Processes : Writes(p, d) /\ Writes(q, d) => p = q
  /\ (\A p \in Processes : ~Writes(p, d)) => Present(d) = {} /\ manifest[d] = {} /\ namespace[d] = {}
  /\ \A a \in Artifacts : author[d][a] # Nobody => Writes(author[d][a], d)

\* Where a rebuild has committed its import.
Projects == {"parity", "diff", "earlier_view", "view"}

\* A projection is of the persisted graph, under the recorded names; the diff
\* and the rebuild come after it.
ProjectionFits(d) ==
  /\ namespace[d] # {} =>
       /\ author[d]["projection_manifest"] # Nobody
       /\ \A image \in namespace[d] :
            image.by = author[d]["fact_graph"] /\ image.names \in manifest[d]
  /\ author[d]["edge_diff"] # Nobody => namespace[d] # {}
  /\ rebuild[d] # Idle => author[d]["fact_graph"] # Nobody
  /\ rebuild[d].at # "idle" =>
       author[d]["projection_manifest"] # Nobody /\ rebuild[d].names = manifest[d]
  /\ rebuild[d].at \in Projects => namespace[d] # {}

\* A call that has not begun knows nothing, one that has written nothing is in
\* an empty directory.
CallFits(p) ==
  /\ verdict[p] # "none" => at[p] > 14
  /\ Running(p) /\ at[p] = 1 => Present(Target[p]) = {}

Rebuilds == [at : {"idle", "import"} \cup Projects, done : Nat, names : SUBSET Names,
             verdict : Verdicts, earlier : Nat, beside : BOOLEAN]

DirectoryTypes ==
  /\ configured \in Names /\ settings \in [Processes -> Names]
  /\ at \in [Processes -> 0 .. 21] /\ ended \subseteq Processes
  /\ verdict \in [Processes -> Verdicts] /\ diff \in [Directories -> Verdicts]
  /\ author \in [Directories -> [Artifacts -> Processes \cup {Nobody}]]
  /\ manifest \in [Directories -> SUBSET Names]
  /\ valid = [d \in Directories |-> valid[d]]
  /\ completed \in [Directories -> Nat] /\ clock \in Nat
  /\ earlier \in [Processes -> Nat]
  /\ namespace = [d \in Directories |-> namespace[d]]
  /\ rebuild \in [Directories -> Rebuilds]

DirectoryInv ==
  /\ DirectoryTypes
  /\ \A p \in Processes : CallFits(p)
  /\ \A p \in Processes : at[p] > 1 => WriterFits(p)
  /\ \A d \in Directories : DirectoryFits(d) /\ ProjectionFits(d)
-----------------------------------------------------------------------------
(* The order of the steps.                                                 *)

LEMMA StepFacts ==
  /\ DOMAIN Steps = 1 .. 20 /\ Len(Steps) = 20
  /\ Steps[1] = "resolved_run_config" /\ Steps[5] = "spans" /\ Steps[8] = "entity_resolution"
  /\ Steps[10] = "fact_graph" /\ Steps[12] = "projection_manifest" /\ Steps[13] = "import"
  /\ Steps[14] = "parity" /\ Steps[15] = "edge_diff" /\ Steps[16] = "validation_report"
  /\ Steps[17] = "run_report" /\ Steps[18] = "completion_status"
  /\ Steps[19] = "earlier_view" /\ Steps[20] = "graph_view"
BY DEF Steps

LEMMA StepsDistinct ==
  /\ \A i, j \in 1 .. 20 : Steps[i] = Steps[j] => i = j
  /\ \A i \in 1 .. 20 : Steps[i] # "terminal_failure"
<1> DEFINE Place == [resolved_run_config |-> 1, prompt_manifest |-> 2, run_manifest |-> 3, source |-> 4,
                     spans |-> 5, local_entities |-> 6, local_relations |-> 7, entity_resolution |-> 8,
                     global_entities |-> 9, fact_graph |-> 10, model_call_budget |-> 11,
                     projection_manifest |-> 12, import |-> 13, parity |-> 14, edge_diff |-> 15,
                     validation_report |-> 16, run_report |-> 17, completion_status |-> 18,
                     earlier_view |-> 19, graph_view |-> 20, terminal_failure |-> 0]
<1>1. \A i \in 1 .. 20 : Place[Steps[i]] = i
  <2>1. \A i \in 1 .. 5 : Place[Steps[i]] = i
    BY DEF Steps
  <2>2. \A i \in 6 .. 10 : Place[Steps[i]] = i
    BY DEF Steps
  <2>3. \A i \in 11 .. 15 : Place[Steps[i]] = i
    BY DEF Steps
  <2>4. \A i \in 16 .. 20 : Place[Steps[i]] = i
    BY DEF Steps
  <2> QED BY <2>1, <2>2, <2>3, <2>4
<1>2. Place["terminal_failure"] = 0
  OBVIOUS
<1> HIDE DEF Place
<1> QED BY <1>1, <1>2

LEMMA ArtifactFacts ==
  /\ \A i \in 1 .. 20 : Steps[i] \notin Unwritten => Steps[i] \in Artifacts
  /\ \A a \in Artifacts : a = "terminal_failure" \/ \E i \in 1 .. 20 : a = Steps[i] /\ a \notin Unwritten
  /\ "terminal_failure" \in Artifacts
  /\ {"fact_graph", "projection_manifest", "edge_diff", "validation_report", "completion_status",
      "graph_view"} \subseteq Artifacts
<1>1. ToSet(Steps) = {Steps[i] : i \in 1 .. 20}
  BY StepFacts DEF ToSet
<1>2. \A i \in 1 .. 20 : Steps[i] \in ToSet(Steps)
  BY <1>1
<1>3. /\ \A i \in 1 .. 20 : Steps[i] \notin Unwritten => Steps[i] \in Artifacts
      /\ \A a \in Artifacts : a = "terminal_failure" \/ \E i \in 1 .. 20 : a = Steps[i] /\ a \notin Unwritten
      /\ "terminal_failure" \in Artifacts
  BY <1>1, <1>2 DEF Artifacts
<1>4. {Steps[10], Steps[12], Steps[15], Steps[16], Steps[18], Steps[20]} \subseteq Artifacts
  BY <1>3, StepFacts DEF Unwritten
<1> QED BY <1>3, <1>4, StepFacts
-----------------------------------------------------------------------------
(* What the invariant says of a directory and of a call in it.             *)

LEMMA DirectoryInitInv == Init => DirectoryInv
<1> SUFFICES ASSUME Init PROVE DirectoryInv
  OBVIOUS
<1> USE DEF Init
<1>1. DirectoryTypes
  BY RunAssumption DEF DirectoryTypes, Rebuilds, Verdicts, Idle
<1>2. \A d \in Directories : Present(d) = {}
  BY DEF Present
<1>3. \A p \in Processes : CallFits(p) /\ ~(at[p] > 1)
  BY DEF CallFits, Running
<1>4. ASSUME NEW d \in Directories PROVE DirectoryFits(d) /\ ProjectionFits(d)
  <2>1. \A p \in Processes : ~Writes(p, d)
    BY DEF Writes
  <2>2. \A a \in Artifacts : author[d][a] = Nobody
    OBVIOUS
  <2>3. DirectoryFits(d)
    BY <1>2, <2>1, <2>2 DEF DirectoryFits
  <2>4. ProjectionFits(d)
    BY <2>2, ArtifactFacts DEF ProjectionFits, Projects, Idle
  <2> QED BY <2>3, <2>4
<1> QED BY <1>1, <1>3, <1>4 DEF DirectoryInv

\* What has been passed by the writer of a directory.
LEMMA WriterFacts ==
  ASSUME DirectoryInv, NEW p \in Processes, NEW d \in Directories, Writes(p, d)
  PROVE  /\ at[p] \in 2 .. 21
         /\ author[d]["resolved_run_config"] = p
         /\ author[d]["fact_graph"] = IF at[p] > 10 THEN p ELSE Nobody
         /\ author[d]["projection_manifest"] = IF at[p] > 12 THEN p ELSE Nobody
         /\ author[d]["completion_status"] = IF at[p] > 18 THEN p ELSE Nobody
         /\ author[d]["edge_diff"] # Nobody => at[p] > 12
         /\ \A a \in Artifacts : author[d][a] \in {p, Nobody}
         /\ p # Nobody
<1>1. WriterFits(p) /\ ProgressFits(p) /\ d = Target[p]
  BY DEF DirectoryInv, Writes, WriterFits
<1>2. at[p] \in 2 .. 21
  BY DEF Writes, DirectoryInv, DirectoryTypes
<1>3. /\ author[d]["resolved_run_config"] = p
      /\ author[d]["fact_graph"] = IF at[p] > 10 THEN p ELSE Nobody
      /\ author[d]["projection_manifest"] = IF at[p] > 12 THEN p ELSE Nobody
      /\ author[d]["completion_status"] = IF at[p] > 18 THEN p ELSE Nobody
  <2>1. \A i \in 1 .. 20 :
          /\ i < at[p] /\ Steps[i] \notin Unwritten => author[d][Steps[i]] = p
          /\ i >= at[p] /\ Steps[i] \notin Unwritten \cup {"edge_diff", "graph_view"}
               => author[d][Steps[i]] = Nobody
    BY <1>1, StepFacts DEF ProgressFits
  <2>2. author[d][Steps[1]] = p
    BY <1>2, <2>1, StepFacts DEF Unwritten
  <2>3. author[d][Steps[10]] = IF at[p] > 10 THEN p ELSE Nobody
    BY <1>2, <2>1, StepFacts DEF Unwritten
  <2>4. author[d][Steps[12]] = IF at[p] > 12 THEN p ELSE Nobody
    BY <1>2, <2>1, StepFacts DEF Unwritten
  <2>5. author[d][Steps[18]] = IF at[p] > 18 THEN p ELSE Nobody
    BY <1>2, <2>1, StepFacts DEF Unwritten
  <2> QED BY <2>2, <2>3, <2>4, <2>5, StepFacts
<1>4. p # Nobody
  BY RunAssumption
<1>5. author[d]["edge_diff"] # Nobody => at[p] > 12
  BY <1>3, <1>4 DEF DirectoryInv, ProjectionFits
<1>6. \A a \in Artifacts : author[d][a] \in {p, Nobody}
  <2> SUFFICES ASSUME NEW a \in Artifacts, author[d][a] # Nobody PROVE author[d][a] = p
    OBVIOUS
  <2>1. Writes(author[d][a], d) /\ author[d][a] \in Processes
    BY DEF DirectoryInv, DirectoryFits, DirectoryTypes
  <2> QED BY <2>1 DEF DirectoryInv, DirectoryFits
<1> QED BY <1>2, <1>3, <1>4, <1>5, <1>6

\* A file is there because a call wrote it.
LEMMA SomeoneWrote ==
  ASSUME DirectoryInv, NEW d \in Directories, Present(d) # {} \/ manifest[d] # {} \/ namespace[d] # {}
  PROVE  \E p \in Processes : Writes(p, d)
BY DEF DirectoryInv, DirectoryFits

\* A call at work is alone with what it has written itself.
LEMMA SoleWriter ==
  ASSUME DirectoryInv, NEW p \in Processes, Running(p),
         NEW q \in Processes, Writes(q, Target[p])
  PROVE  q = p
<1>1. Target[p] \in Directories /\ at[p] \in 0 .. 21 /\ at[p] > 0
  BY RunAssumption DEF DirectoryInv, DirectoryTypes, Running
<1>2. CASE at[p] > 1
  BY <1>1, <1>2 DEF DirectoryInv, DirectoryFits, Writes
<1>3. CASE at[p] = 1
  <2>1. author[Target[p]]["resolved_run_config"] # Nobody
    BY <1>1, WriterFacts
  <2>2. "resolved_run_config" \in Artifacts
    BY ArtifactFacts, StepFacts DEF Unwritten
  <2>3. Present(Target[p]) # {}
    BY <2>1, <2>2 DEF Present
  <2> QED BY <1>3, <2>3 DEF DirectoryInv, CallFits
<1> QED BY <1>1, <1>2, <1>3

\* A step that stays in one directory keeps what holds of the others.
LEMMA ElsewhereKept ==
  ASSUME DirectoryInv, DirectoryTypes', NEW d \in Directories,
         \A q \in Processes : Target[q] # d =>
           /\ at'[q] = at[q] /\ settings'[q] = settings[q] /\ verdict'[q] = verdict[q]
           /\ q \in ended' <=> q \in ended,
         \A e \in Directories : e # d =>
           /\ author'[e] = author[e] /\ manifest'[e] = manifest[e] /\ valid'[e] = valid[e]
           /\ namespace'[e] = namespace[e] /\ rebuild'[e] = rebuild[e]
  PROVE  /\ \A q \in Processes : Target[q] # d => CallFits(q)' /\ (at'[q] > 1 => WriterFits(q)')
         /\ \A e \in Directories : e # d => DirectoryFits(e)' /\ ProjectionFits(e)'
<1>1. \A q \in Processes : Target[q] \in Directories
  BY RunAssumption
<1>2. \A e \in Directories : e # d => Present(e)' = Present(e)
  BY DEF Present
<1>3. \A e \in Directories, q \in Processes : e # d => (Writes(q, e)' <=> Writes(q, e))
  BY DEF Writes
<1>4. ASSUME NEW q \in Processes, Target[q] # d PROVE CallFits(q)' /\ (at'[q] > 1 => WriterFits(q)')
  <2>1. CallFits(q)'
    BY <1>1, <1>2, <1>4 DEF DirectoryInv, CallFits, Running
  <2>2. ASSUME at'[q] > 1 PROVE WriterFits(q)'
    <3>1. WriterFits(q)
      BY <1>4, <2>2 DEF DirectoryInv
    <3>2. ProgressFits(q)'
      BY <1>1, <1>4, <3>1 DEF WriterFits, ProgressFits
    <3> QED BY <1>1, <1>4, <3>1, <3>2 DEF WriterFits
  <2> QED BY <2>1, <2>2
<1>5. ASSUME NEW e \in Directories, e # d PROVE DirectoryFits(e)' /\ ProjectionFits(e)'
  <2>1. \A a \in Artifacts : author[e][a] \in Processes \cup {Nobody}
    BY DEF DirectoryInv, DirectoryTypes
  <2>2. DirectoryFits(e)'
    BY <1>2, <1>3, <1>5, <2>1 DEF DirectoryInv, DirectoryFits
  <2>3. ProjectionFits(e)'
    BY <1>5 DEF DirectoryInv, ProjectionFits
  <2> QED BY <2>2, <2>3
<1> QED BY <1>4, <1>5
-----------------------------------------------------------------------------
(* The steps of run().                                                     *)

\* An empty directory is entered; nothing in it is anybody's yet.
LEMMA BeginInv ==
  ASSUME DirectoryInv, NEW p \in Processes, Begin(p)
  PROVE  DirectoryInv'
<1> DEFINE d == Target[p]
<1>1. d \in Directories
  BY RunAssumption
<1>2. /\ p \notin ended /\ at[p] = 0
      /\ UNCHANGED <<configured, verdict, earlier, author, manifest, diff, valid, completed, clock,
                     namespace, rebuild>>
  BY DEF Begin, fileVars, neo4jVars
<1>3. \/ Present(d) = {} /\ at' = [at EXCEPT ![p] = 1] /\ settings' = [settings EXCEPT ![p] = configured]
         /\ ended' = ended
      \/ at' = at /\ settings' = settings /\ ended' = ended \cup {p}
  BY DEF Begin
<1> HIDE DEF d
<1>4. DirectoryTypes'
  <2>1. at' \in [Processes -> 0 .. 21] /\ settings' \in [Processes -> Names] /\ ended' \subseteq Processes
    <3>1. /\ at \in [Processes -> 0 .. 21] /\ settings \in [Processes -> Names] /\ ended \subseteq Processes
          /\ configured \in Names
      BY DEF DirectoryInv, DirectoryTypes
    <3>2. CASE at' = [at EXCEPT ![p] = 1] /\ settings' = [settings EXCEPT ![p] = configured] /\ ended' = ended
      BY <3>1, <3>2
    <3>3. CASE at' = at /\ settings' = settings /\ ended' = ended \cup {p}
      BY <3>1, <3>3
    <3> QED BY <1>3, <3>2, <3>3
  <2> QED BY <1>2, <2>1 DEF DirectoryInv, DirectoryTypes
<1>5. \A q \in Processes : q # p => /\ at'[q] = at[q] /\ settings'[q] = settings[q]
                                    /\ q \in ended' <=> q \in ended
  BY <1>3 DEF DirectoryInv, DirectoryTypes
<1>6. at'[p] \in {0, 1} /\ (at'[p] = 1 => Present(d) = {})
  BY <1>2, <1>3 DEF DirectoryInv, DirectoryTypes
<1>7. \A e \in Directories : Present(e)' = Present(e)
  BY <1>2 DEF Present
<1>8. \A e \in Directories, q \in Processes : Writes(q, e)' <=> Writes(q, e)
  BY <1>2, <1>5, <1>6 DEF Writes
<1>9. ASSUME NEW q \in Processes PROVE CallFits(q)' /\ (at'[q] > 1 => WriterFits(q)')
  <2>1. Target[q] \in Directories
    BY RunAssumption
  <2>2. CASE q = p
    <3>1. CallFits(p)'
      BY <1>1, <1>2, <1>6, <1>7 DEF CallFits, DirectoryInv, d
    <3> QED BY <1>6, <2>2, <3>1
  <2>3. CASE q # p
    <3>1. CallFits(q)'
      BY <1>2, <1>5, <1>7, <2>1, <2>3 DEF DirectoryInv, CallFits, Running
    <3>2. ASSUME at'[q] > 1 PROVE WriterFits(q)'
      <4>1. WriterFits(q)
        BY <1>5, <2>3, <3>2 DEF DirectoryInv
      <4>2. ProgressFits(q)'
        BY <1>2, <1>5, <2>3, <4>1 DEF WriterFits, ProgressFits
      <4> QED BY <1>2, <1>5, <2>3, <4>1, <4>2 DEF WriterFits
    <3> QED BY <3>1, <3>2
  <2> QED BY <2>2, <2>3
<1>10. ASSUME NEW e \in Directories PROVE DirectoryFits(e)' /\ ProjectionFits(e)'
  <2>1. \A a \in Artifacts : author[e][a] \in Processes \cup {Nobody}
    BY DEF DirectoryInv, DirectoryTypes
  <2>2. DirectoryFits(e)'
    BY <1>2, <1>7, <1>8, <2>1 DEF DirectoryInv, DirectoryFits
  <2>3. ProjectionFits(e)'
    BY <1>2 DEF DirectoryInv, ProjectionFits
  <2> QED BY <2>2, <2>3
<1> QED BY <1>4, <1>9, <1>10 DEF DirectoryInv

\* Calls may stop, transactions be opened or rolled back, and earlier views
\* be read: nothing the invariant speaks of changes.
LEMMA QuietInv ==
  ASSUME DirectoryInv, ended' \subseteq Processes, ended \subseteq ended',
         earlier' \in [Processes -> Nat], configured' \in Names,
         UNCHANGED <<at, settings, verdict, author, manifest, diff, valid, completed,
                     clock, namespace, rebuild>>
  PROVE  DirectoryInv'
<1>1. DirectoryTypes'
  BY DEF DirectoryInv, DirectoryTypes
<1>2. \A q \in Processes : CallFits(q)'
  BY DEF DirectoryInv, CallFits, Running, Present
<1>3. \A q \in Processes : at'[q] > 1 => WriterFits(q)'
  BY DEF DirectoryInv, WriterFits, ProgressFits
<1>4. \A e \in Directories : DirectoryFits(e)' /\ ProjectionFits(e)'
  BY DEF DirectoryInv, DirectoryFits, ProjectionFits, Writes, Present
<1> QED BY <1>1, <1>2, <1>3, <1>4 DEF DirectoryInv

\* A call that stops, or whose transaction reads the namespace, leaves
\* everything as it is.
LEMMA EndsInv ==
  ASSUME DirectoryInv, NEW p \in Processes, Ends(p) \/ ImportReads(p)
  PROVE  DirectoryInv'
<1>1. /\ ended' \in {ended, ended \cup {p}}
      /\ UNCHANGED <<configured, at, settings, verdict, earlier, author, manifest, diff, valid,
                     completed, clock, namespace, rebuild>>
  BY DEF Ends, ImportReads, fileVars, runVars
<1>2. ended \subseteq Processes /\ earlier \in [Processes -> Nat] /\ configured \in Names
  BY DEF DirectoryInv, DirectoryTypes
<1> QED BY <1>1, <1>2, QuietInv

\* Before the graph is persisted a failed check leaves its report and ends.
LEMMA CheckFailsInv ==
  ASSUME DirectoryInv, NEW p \in Processes, CheckFails(p)
  PROVE  DirectoryInv'
<1> DEFINE d == Target[p]
<1>1. d \in Directories
  BY RunAssumption
<1>2. /\ Running(p) /\ ended' = ended \cup {p}
      /\ author' = [author EXCEPT ![d]["terminal_failure"] = p]
      /\ UNCHANGED <<configured, at, settings, verdict, earlier, manifest, diff, valid, completed,
                     clock, namespace, rebuild>>
  BY DEF CheckFails, AfterCheck, Put, neo4jVars
<1>3. at[p] \in {5, 8, 10}
  <2>1. at[p] \in 1 .. 20 /\ Steps[at[p]] \in {Steps[5], Steps[8], Steps[10]}
    BY StepFacts DEF CheckFails, StepOf, Checked
  <2> QED BY <2>1, StepsDistinct
<1> HIDE DEF d
<1>4. author \in [Directories -> [Artifacts -> Processes \cup {Nobody}]]
  BY DEF DirectoryInv, DirectoryTypes
<1>5. \A e \in Directories, a \in Artifacts :
        author'[e][a] = IF e = d /\ a = "terminal_failure" THEN p ELSE author[e][a]
  BY <1>1, <1>2, <1>4, ArtifactFacts
<1>6. author' \in [Directories -> [Artifacts -> Processes \cup {Nobody}]]
  BY <1>1, <1>2, <1>4, ArtifactFacts
<1>7. DirectoryTypes'
  BY <1>2, <1>6 DEF DirectoryInv, DirectoryTypes
<1>8. /\ Target[p] = d /\ WriterFits(p) /\ Writes(p, d)
      /\ \A q \in Processes : Writes(q, d) => q = p
  BY <1>2, <1>3, SoleWriter DEF DirectoryInv, Writes, d
<1>9. /\ \A q \in Processes : Target[q] # d => CallFits(q)' /\ (at'[q] > 1 => WriterFits(q)')
      /\ \A e \in Directories : e # d => DirectoryFits(e)' /\ ProjectionFits(e)'
  <2>1. \A e \in Directories : e # d => author'[e] = author[e]
    BY <1>2, <1>4
  <2>2. \A q \in Processes : Target[q] # d => (q \in ended' <=> q \in ended)
    BY <1>2, <1>8
  <2> QED BY <1>1, <1>2, <1>7, <2>1, <2>2, ElsewhereKept
<1>10. WriterFits(p)'
  <2>1. ProgressFits(p)'
    <3>1. \A i \in 1 .. 20 : Steps[i] \notin Unwritten => author'[d][Steps[i]] = author[d][Steps[i]]
      BY <1>1, <1>5, StepsDistinct, ArtifactFacts
    <3> QED BY <1>2, <1>8, <3>1, StepFacts DEF WriterFits, ProgressFits
  <2> QED BY <1>2, <1>3, <1>8, <2>1 DEF WriterFits
<1>11. ASSUME NEW q \in Processes, Target[q] = d
       PROVE  CallFits(q)' /\ (at'[q] > 1 => WriterFits(q)')
  <2>1. CASE q = p
    BY <1>2, <1>3, <1>10, <2>1 DEF CallFits, Running, DirectoryInv
  <2>2. CASE q # p
    <3>1. ~(at[q] > 1) /\ CallFits(q)
      BY <1>8, <1>11, <2>2 DEF Writes, DirectoryInv
    <3>2. ~(at[q] = 1 /\ Running(q))
      <4>1. author[d]["resolved_run_config"] # Nobody /\ "resolved_run_config" \in Artifacts
        BY <1>1, <1>8, WriterFacts, ArtifactFacts, StepFacts DEF Unwritten
      <4> QED BY <1>11, <4>1 DEF DirectoryInv, CallFits, Present
    <3> QED BY <1>2, <2>2, <3>1, <3>2 DEF CallFits, Running
  <2> QED BY <2>1, <2>2
<1>12. DirectoryFits(d)'
  <2>1. \A q \in Processes : Writes(q, d)' <=> Writes(q, d)
    BY <1>2 DEF Writes
  <2>2. \A a \in Artifacts : author'[d][a] # Nobody => author'[d][a] \in Processes /\ Writes(author'[d][a], d)
    BY <1>1, <1>4, <1>5, <1>8, WriterFacts
  <2> QED BY <1>8, <2>1, <2>2 DEF DirectoryFits
<1>13. ProjectionFits(d)'
  <2>1. \A a \in {"projection_manifest", "fact_graph", "edge_diff"} : author'[d][a] = author[d][a]
    BY <1>1, <1>5, ArtifactFacts
  <2> QED BY <1>1, <1>2, <2>1 DEF ProjectionFits, DirectoryInv
<1> QED BY <1>7, <1>9, <1>11, <1>12, <1>13 DEF DirectoryInv

\* A call at work finds what it has written, no report of a failure, and
\* nothing of others.
LEMMA CallAtWork ==
  ASSUME DirectoryInv, NEW p \in Processes, Running(p)
  PROVE  /\ Target[p] \in Directories /\ at[p] \in 1 .. 21 /\ p \notin ended
         /\ WriterFits(p) /\ ProgressFits(p)
         /\ author[Target[p]]["terminal_failure"] = Nobody
         /\ \A a \in Artifacts : author[Target[p]][a] \in {p, Nobody}
         /\ at[p] = 1 => /\ Present(Target[p]) = {} /\ manifest[Target[p]] = {}
                         /\ namespace[Target[p]] = {}
<1> DEFINE d == Target[p]
<1>1. d \in Directories /\ at[p] \in 1 .. 21 /\ p \notin ended
  BY RunAssumption DEF DirectoryInv, DirectoryTypes, Running
<1>2. CASE at[p] = 1
  <2>1. \A q \in Processes : ~Writes(q, d)
    BY <1>2, SoleWriter DEF Writes
  <2>2. Present(d) = {} /\ manifest[d] = {} /\ namespace[d] = {}
    BY <1>1, <2>1 DEF DirectoryInv, DirectoryFits
  <2>3. \A a \in Artifacts : author[d][a] = Nobody
    BY <2>2 DEF Present
  <2>4. ProgressFits(p)
    <3>1. \A i \in 1 .. 20 : Steps[i] \notin Unwritten => author[d][Steps[i]] = Nobody
      BY <2>3, ArtifactFacts
    <3> QED BY <1>2, <3>1, StepFacts DEF ProgressFits
  <2>5. WriterFits(p)
    BY <1>2, <2>2, <2>3, <2>4, ArtifactFacts DEF WriterFits
  <2> QED BY <1>1, <2>2, <2>3, <2>4, <2>5, ArtifactFacts
<1>3. CASE at[p] > 1
  <2>1. WriterFits(p) /\ ProgressFits(p)
    BY <1>3 DEF DirectoryInv, WriterFits
  <2>2. author[d]["terminal_failure"] = Nobody
    BY <1>1, <2>1 DEF WriterFits
  <2>3. \A a \in Artifacts : author[d][a] \in {p, Nobody}
    BY <1>1, <1>3, WriterFacts DEF Writes
  <2> QED BY <1>1, <1>3, <2>1, <2>2, <2>3
<1> QED BY <1>1, <1>2, <1>3

\* While a call is at work in a directory, no other has written there or is
\* about to.
LEMMA OthersAway ==
  ASSUME DirectoryInv, Alone, NEW p \in Processes, Running(p), NEW q \in Processes, q # p,
         Target[q] = Target[p], at'[q] = at[q], q \in ended' <=> q \in ended, verdict'[q] = verdict[q]
  PROVE  CallFits(q)' /\ ~(at'[q] > 1)
<1>1. ~Running(q)
  BY DEF Alone
<1>2. ~(at[q] > 1)
  BY SoleWriter DEF Writes
<1>3. CallFits(q)
  BY DEF DirectoryInv
<1> QED BY <1>1, <1>2, <1>3 DEF CallFits, Running

\* An artifact is written: the effect, without the names of the steps.
LEMMA WriteEffect ==
  ASSUME DirectoryInv, NEW p \in Processes, Write(p), NEW d, d = Target[p]
  PROVE  /\ Running(p) /\ at[p] \in (1 .. 20) \ {13, 14, 19} /\ Steps[at[p]] \in Artifacts
         /\ d \in Directories
         /\ at[p] = 18 => verdict[p] = "passed"
         /\ at' = [at EXCEPT ![p] = at[p] + 1]
         /\ author' = [author EXCEPT ![d] = [author[d] EXCEPT ![Steps[at[p]]] = p]]
         /\ manifest' = IF at[p] = 12 THEN [manifest EXCEPT ![d] = {settings[p]}] ELSE manifest
         /\ diff' = IF at[p] = 15 THEN [diff EXCEPT ![d] = verdict[p]] ELSE diff
         /\ at[p] = 16 => valid' = [valid EXCEPT ![d] = (verdict[p] = "passed")]
         /\ at[p] # 16 => valid' = valid
         /\ completed' = IF at[p] = 20 THEN [completed EXCEPT ![d] = Stamp(earlier[p])] ELSE completed
         /\ clock' \in {clock, clock + 1}
         /\ UNCHANGED <<configured, ended, settings, verdict, earlier, namespace, rebuild>>
<1> DEFINE a == StepOf(p)
<1>1. Target[p] \in Directories /\ at[p] \in 0 .. 21 /\ Running(p) /\ at[p] > 0
  BY RunAssumption DEF DirectoryInv, DirectoryTypes, Write, Running
<1>2. a \in Artifacts /\ MayWrite(p, a)
  BY DEF Write
<1>3. at[p] \in 1 .. 20 /\ a = Steps[at[p]]
  <2>1. "return" \notin Artifacts
    BY DEF Artifacts, Steps, ToSet
  <2>2. at[p] \in DOMAIN Steps
    BY <1>2, <2>1 DEF StepOf
  <2> QED BY <2>2, StepFacts DEF StepOf
<1>4. a \notin Unwritten
  BY <1>2 DEF Artifacts, Unwritten
<1>5. /\ a = "projection_manifest" <=> at[p] = 12
      /\ a = "edge_diff" <=> at[p] = 15
      /\ a = "validation_report" <=> at[p] = 16
      /\ a = "completion_status" <=> at[p] = 18
      /\ a = "graph_view" <=> at[p] = 20
  BY <1>3, StepFacts, StepsDistinct
<1>6. at[p] \notin {13, 14, 19}
  BY <1>3, <1>4, StepFacts DEF Unwritten
<1>7. /\ Put(p, Target[p], a) /\ Advance(p)
      /\ manifest' = IF a = "projection_manifest" THEN [manifest EXCEPT ![Target[p]] = {settings[p]}] ELSE manifest
      /\ diff' = IF a = "edge_diff" THEN [diff EXCEPT ![Target[p]] = verdict[p]] ELSE diff
      /\ completed' = IF a = "graph_view" THEN [completed EXCEPT ![Target[p]] = Stamp(earlier[p])] ELSE completed
      /\ clock' = IF a = "graph_view" THEN clock + 1 ELSE clock
      /\ UNCHANGED <<configured, ended, settings, verdict, earlier, namespace, rebuild>>
  BY DEF Write, neo4jVars
<1>8. /\ a = "validation_report" => valid' = [valid EXCEPT ![Target[p]] = (verdict[p] = "passed")]
      /\ a # "validation_report" => valid' = valid
  BY Zenon DEF Write
<1>9. /\ at' = [at EXCEPT ![p] = at[p] + 1]
      /\ author' = [author EXCEPT ![Target[p]] = [author[Target[p]] EXCEPT ![a] = p]]
  BY <1>7 DEF Advance, Put
<1>10. at[p] = 18 => verdict[p] = "passed"
  BY <1>2, <1>5 DEF MayWrite
<1> HIDE DEF a
<1> QED BY <1>1, <1>2, <1>3, <1>5, <1>6, <1>7, <1>8, <1>9, <1>10

LEMMA WriteInv ==
  ASSUME DirectoryInv, Alone, NEW p \in Processes, Write(p)
  PROVE  DirectoryInv'
<1> DEFINE d == Target[p]
           k == at[p]
<1>1. /\ Running(p) /\ k \in (1 .. 20) \ {13, 14, 19} /\ Steps[k] \in Artifacts
      /\ d \in Directories
      /\ k = 18 => verdict[p] = "passed"
      /\ at' = [at EXCEPT ![p] = k + 1]
      /\ author' = [author EXCEPT ![d] = [author[d] EXCEPT ![Steps[k]] = p]]
      /\ manifest' = IF k = 12 THEN [manifest EXCEPT ![d] = {settings[p]}] ELSE manifest
      /\ diff' = IF k = 15 THEN [diff EXCEPT ![d] = verdict[p]] ELSE diff
      /\ k = 16 => valid' = [valid EXCEPT ![d] = (verdict[p] = "passed")]
      /\ k # 16 => valid' = valid
      /\ completed' = IF k = 20 THEN [completed EXCEPT ![d] = Stamp(earlier[p])] ELSE completed
      /\ clock' \in {clock, clock + 1}
      /\ UNCHANGED <<configured, ended, settings, verdict, earlier, namespace, rebuild>>
  BY WriteEffect
<1>2. /\ WriterFits(p) /\ ProgressFits(p) /\ p \notin ended
      /\ author[d]["terminal_failure"] = Nobody
      /\ \A a \in Artifacts : author[d][a] \in {p, Nobody}
      /\ k = 1 => Present(d) = {} /\ manifest[d] = {} /\ namespace[d] = {}
  BY <1>1, CallAtWork
<1>3. Target[p] = d /\ at[p] = k
  OBVIOUS
<1> HIDE DEF d, k
<1>4. DirectoryTypes
  BY DEF DirectoryInv
<1>5. author' \in [Directories -> [Artifacts -> Processes \cup {Nobody}]]
  <2>1. [author[d] EXCEPT ![Steps[k]] = p] \in [Artifacts -> Processes \cup {Nobody}]
    BY <1>1, <1>4 DEF DirectoryTypes
  <2> QED BY <1>1, <1>4, <2>1 DEF DirectoryTypes
<1>6. DirectoryTypes'
  <2>1. at' \in [Processes -> 0 .. 21]
    BY <1>1, <1>4 DEF DirectoryTypes
  <2>2. manifest' \in [Directories -> SUBSET Names]
    BY <1>1, <1>4 DEF DirectoryTypes
  <2>3. diff' \in [Directories -> Verdicts]
    BY <1>1, <1>4 DEF DirectoryTypes
  <2>4. valid' = [e \in Directories |-> valid'[e]]
    BY <1>1, <1>4, Zenon DEF DirectoryTypes
  <2>5. completed' \in [Directories -> Nat] /\ clock' \in Nat
    BY <1>1, <1>4 DEF DirectoryTypes, Stamp
  <2> QED BY <1>1, <1>4, <1>5, <2>1, <2>2, <2>3, <2>4, <2>5 DEF DirectoryTypes
<1>7. /\ \A a \in Artifacts : author'[d][a] = IF a = Steps[k] THEN p ELSE author[d][a]
      /\ \A e \in Directories : e # d => author'[e] = author[e]
      /\ at'[p] = k + 1 /\ \A q \in Processes : q # p => at'[q] = at[q]
      /\ \A e \in Directories : e # d => manifest'[e] = manifest[e] /\ valid'[e] = valid[e]
  <2>1. \A a \in Artifacts : author'[d][a] = IF a = Steps[k] THEN p ELSE author[d][a]
    BY <1>1, <1>4 DEF DirectoryTypes
  <2>2. \A e \in Directories : e # d => author'[e] = author[e] /\ manifest'[e] = manifest[e]
    BY <1>1, <1>4 DEF DirectoryTypes
  <2>3. \A e \in Directories : e # d => valid'[e] = valid[e]
    BY <1>1, <1>4, Zenon DEF DirectoryTypes
  <2>4. at'[p] = k + 1 /\ \A q \in Processes : q # p => at'[q] = at[q]
    BY <1>1, <1>4 DEF DirectoryTypes
  <2> QED BY <2>1, <2>2, <2>3, <2>4
<1>8. /\ \A q \in Processes : Target[q] # d => CallFits(q)' /\ (at'[q] > 1 => WriterFits(q)')
      /\ \A e \in Directories : e # d => DirectoryFits(e)' /\ ProjectionFits(e)'
  <2>1. \A q \in Processes : Target[q] # d =>
           /\ at'[q] = at[q] /\ settings'[q] = settings[q] /\ verdict'[q] = verdict[q]
           /\ q \in ended' <=> q \in ended
    BY <1>1, <1>3, <1>7
  <2>2. \A e \in Directories : e # d =>
           /\ author'[e] = author[e] /\ manifest'[e] = manifest[e] /\ valid'[e] = valid[e]
           /\ namespace'[e] = namespace[e] /\ rebuild'[e] = rebuild[e]
    BY <1>1, <1>7
  <2> QED BY <1>1, <1>6, <2>1, <2>2, ElsewhereKept
<1>9. \A q \in Processes : q # p /\ Target[q] = d => CallFits(q)' /\ ~(at'[q] > 1)
  BY <1>1, <1>3, <1>7, OthersAway
\* The writer itself.
<1>10. ProgressFits(p)'
  <2>1. \A i \in 1 .. 20 : Steps[i] \notin Unwritten =>
          author'[d][Steps[i]] = IF i = k THEN p ELSE author[d][Steps[i]]
    BY <1>1, <1>7, StepsDistinct, ArtifactFacts
  <2>2. ASSUME NEW i \in 1 .. 20
        PROVE /\ i < k + 1 /\ Steps[i] \notin Unwritten => author'[d][Steps[i]] = p
              /\ i >= k + 1 /\ Steps[i] \notin Unwritten \cup {"edge_diff", "graph_view"}
                   => author'[d][Steps[i]] = Nobody
    <3>1. /\ i < k /\ Steps[i] \notin Unwritten => author[d][Steps[i]] = p
          /\ i >= k /\ Steps[i] \notin Unwritten \cup {"edge_diff", "graph_view"} => author[d][Steps[i]] = Nobody
      BY <1>2, <1>3, StepFacts DEF ProgressFits
    <3>2. i < k + 1 <=> i < k \/ i = k
      BY <1>1
    <3>3. i >= k + 1 => i >= k /\ i # k
      BY <1>1
    <3> QED BY <2>1, <3>1, <3>2, <3>3
  <2> QED BY <1>3, <1>7, <2>2, StepFacts DEF ProgressFits
<1>11. author'[d]["terminal_failure"] = Nobody
  BY <1>1, <1>2, <1>7, StepsDistinct, ArtifactFacts
<1>12. manifest'[d] = IF k + 1 > 12 THEN {settings[p]} ELSE {}
  <2>1. manifest[d] = IF k > 12 THEN {settings[p]} ELSE {}
    BY <1>2, <1>3 DEF WriterFits
  <2>2. CASE k = 12
    BY <1>1, <1>4, <2>2 DEF DirectoryTypes
  <2>3. CASE k # 12
    <3>1. k + 1 > 12 <=> k > 12
      BY <1>1, <2>3
    <3> QED BY <1>1, <2>1, <2>3, <3>1
  <2> QED BY <2>2, <2>3
<1>13. k + 1 > 13 => namespace[d] # {}
  BY <1>1, <1>2, <1>3 DEF WriterFits
<1>14. k + 1 > 16 => (valid'[d] <=> verdict[p] = "passed")
  <2>1. CASE k = 16
    BY <1>1, <1>4, <2>1, Zenon DEF DirectoryTypes
  <2>2. CASE k # 16
    <3>1. k + 1 > 16 => k > 16
      BY <1>1, <2>2
    <3>2. k > 16 => (valid[d] <=> verdict[p] = "passed")
      BY <1>2, <1>3 DEF WriterFits
    <3> QED BY <1>1, <2>2, <3>1, <3>2
  <2> QED BY <2>1, <2>2
<1>15. k + 1 > 18 => verdict[p] = "passed"
  BY <1>1, <1>2, <1>3 DEF WriterFits
<1>16. WriterFits(p)'
  BY <1>1, <1>3, <1>7, <1>10, <1>11, <1>12, <1>13, <1>14, <1>15 DEF WriterFits
<1>17. CallFits(p)'
  <2>1. verdict[p] # "none" => k > 14
    BY <1>3 DEF DirectoryInv, CallFits
  <2> QED BY <1>1, <1>3, <1>7, <2>1 DEF CallFits
\* Its directory.
<1>18. DirectoryFits(d)'
  <2>1. \A q \in Processes : Writes(q, d)' <=> q = p
    BY <1>1, <1>3, <1>7, <1>9 DEF Writes
  <2>2. \A a \in Artifacts : author'[d][a] # Nobody => author'[d][a] = p
    BY <1>2, <1>7
  <2> QED BY <2>1, <2>2 DEF DirectoryFits
<1>19. ProjectionFits(d)'
  <2>1. /\ k > 10 <=> author[d]["fact_graph"] # Nobody
        /\ k > 12 <=> author[d]["projection_manifest"] # Nobody
        /\ author[d]["edge_diff"] # Nobody => k > 12
    <3>1. CASE k = 1
      BY <1>2, <3>1, ArtifactFacts DEF Present
    <3>2. CASE k > 1
      BY <1>1, <1>3, <3>2, WriterFacts DEF Writes
    <3> QED BY <1>1, <3>1, <3>2
  <2>2. /\ k > 10 => author'[d]["fact_graph"] = author[d]["fact_graph"]
        /\ k > 12 => author'[d]["projection_manifest"] # Nobody /\ manifest'[d] = manifest[d]
        /\ k # 15 => author'[d]["edge_diff"] = author[d]["edge_diff"]
    <3>1. /\ Steps[k] = "fact_graph" => k = 10
          /\ Steps[k] = "projection_manifest" => k = 12
          /\ Steps[k] = "edge_diff" => k = 15
      BY <1>1, StepFacts, StepsDistinct
    <3>2. k > 12 => manifest'[d] = manifest[d]
      BY <1>1
    <3>3. k > 10 => author'[d]["fact_graph"] = author[d]["fact_graph"]
      BY <1>1, <1>7, <3>1, ArtifactFacts
    <3>4. k > 12 => author'[d]["projection_manifest"] # Nobody
      BY <1>1, <1>7, <2>1, <3>1, ArtifactFacts
    <3>5. k # 15 => author'[d]["edge_diff"] = author[d]["edge_diff"]
      BY <1>1, <1>7, <3>1, ArtifactFacts
    <3> QED BY <3>2, <3>3, <3>4, <3>5
  <2>3. /\ namespace[d] # {} =>
             /\ author[d]["projection_manifest"] # Nobody
             /\ \A image \in namespace[d] :
                  image.by = author[d]["fact_graph"] /\ image.names \in manifest[d]
        /\ author[d]["edge_diff"] # Nobody => namespace[d] # {}
        /\ rebuild[d] # Idle => author[d]["fact_graph"] # Nobody
        /\ rebuild[d].at # "idle" =>
             author[d]["projection_manifest"] # Nobody /\ rebuild[d].names = manifest[d]
        /\ rebuild[d].at \in Projects => namespace[d] # {}
    BY <1>1 DEF DirectoryInv, ProjectionFits
  <2>4. namespace'[d] # {} => k > 12
    BY <1>1, <2>1, <2>3
  <2>5. namespace'[d] # {} => author'[d]["projection_manifest"] # Nobody
    BY <2>2, <2>4
  <2>6. namespace'[d] # {} =>
          \A image \in namespace'[d] :
            image.by = author'[d]["fact_graph"] /\ image.names \in manifest'[d]
    <3>1. k > 12 => k > 10
      BY <1>1
    <3> QED BY <1>1, <2>2, <2>3, <2>4, <3>1
  <2>7. author'[d]["edge_diff"] # Nobody => namespace'[d] # {}
    BY <1>1, <1>13, <2>2, <2>3
  <2>8. rebuild'[d] # Idle => author'[d]["fact_graph"] # Nobody
    BY <1>1, <2>1, <2>2, <2>3
  <2>9. rebuild'[d].at # "idle" =>
          author'[d]["projection_manifest"] # Nobody /\ rebuild'[d].names = manifest'[d]
    BY <1>1, <2>1, <2>2, <2>3
  <2>10. rebuild'[d].at \in Projects => namespace'[d] # {}
    BY <1>1, <2>3
  <2> QED BY <2>5, <2>6, <2>7, <2>8, <2>9, <2>10 DEF ProjectionFits, Idle
<1>20. \A q \in Processes : CallFits(q)' /\ (at'[q] > 1 => WriterFits(q)')
  BY <1>8, <1>9, <1>16, <1>17
<1> QED BY <1>6, <1>8, <1>18, <1>19, <1>20 DEF DirectoryInv

\* What a commit leaves in a namespace: its own image and some of those that
\* were there.
LEMMA CommitEffect ==
  ASSUME DirectoryInv, NEW d \in Directories, NEW t, NEW by, NEW names, Commits(d, t, by, names)
  PROVE  /\ namespace' = [e \in Directories |-> namespace'[e]]
         /\ \A e \in Directories : e # d => namespace'[e] = namespace[e]
         /\ namespace'[d] # {}
         /\ \A image \in namespace'[d] :
              image \in namespace[d] \/ (image.by = by /\ image.names = names)
<1> DEFINE image == [by |-> by, names |-> names, import |-> t.import]
<1>1. namespace = [e \in Directories |-> namespace[e]]
  BY DEF DirectoryInv, DirectoryTypes
<1>2. namespace' = [namespace EXCEPT ![d] = (namespace[d] \ t.seen) \cup {image}]
  BY DEF Commits, Replaced
<1>3. image.by = by /\ image.names = names
  OBVIOUS
<1> HIDE DEF image
<1> QED BY <1>1, <1>2, <1>3

\* The steps of a call between the manifest and the diff, and before the view:
\* the graph is projected, checked, and the earlier view read.
LEMMA ImportInv ==
  ASSUME DirectoryInv, Alone, NEW p \in Processes,
         ImportCommits(p) \/ CheckParity(p) \/ ReadEarlierView(p)
  PROVE  DirectoryInv'
<1> DEFINE d == Target[p]
<1>1. /\ Running(p) /\ at[p] \in {13, 14, 19}
      /\ at' = [at EXCEPT ![p] = at[p] + 1]
      /\ UNCHANGED <<configured, ended, settings, author, manifest, diff, valid, completed, clock,
                     rebuild>>
  <2>1. /\ StepOf(p) \in {Steps[13], Steps[14], Steps[19]} /\ Running(p)
        /\ at' = [at EXCEPT ![p] = at[p] + 1]
        /\ UNCHANGED <<configured, ended, settings, author, manifest, diff, valid, completed, clock,
                       rebuild>>
    BY StepFacts DEF ImportCommits, CheckParity, ReadEarlierView, fileVars, Advance
  <2>2. at[p] \in 1 .. 20 /\ Steps[at[p]] \in {Steps[13], Steps[14], Steps[19]}
    BY <2>1, StepFacts DEF StepOf
  <2> QED BY <2>1, <2>2, StepsDistinct
<1>2. /\ d \in Directories /\ p \notin ended /\ WriterFits(p) /\ ProgressFits(p) /\ Writes(p, d)
      /\ author[d]["terminal_failure"] = Nobody
      /\ author[d]["fact_graph"] = p /\ author[d]["projection_manifest"] = p
      /\ manifest[d] = {settings[p]} /\ p # Nobody
  <2>1. d \in Directories /\ p \notin ended /\ WriterFits(p) /\ ProgressFits(p)
        /\ author[d]["terminal_failure"] = Nobody
    BY <1>1, CallAtWork
  <2>2. Writes(p, d)
    BY <1>1 DEF Writes
  <2>3. author[d]["fact_graph"] = p /\ author[d]["projection_manifest"] = p /\ p # Nobody
    BY <1>1, <2>1, <2>2, WriterFacts
  <2>4. manifest[d] = {settings[p]}
    BY <1>1, <2>1 DEF WriterFits
  <2> QED BY <2>1, <2>2, <2>3, <2>4
<1>3. DirectoryTypes /\ (verdict[p] # "none" => at[p] > 14) /\ (at[p] > 13 => namespace[d] # {})
  BY <1>2 DEF DirectoryInv, CallFits, WriterFits
<1>4. /\ at'[p] = at[p] + 1 /\ at' \in [Processes -> 0 .. 21]
      /\ \A q \in Processes : q # p => at'[q] = at[q]
  BY <1>1, <1>3 DEF DirectoryTypes
\* What the three have in common.
<1>5. /\ verdict' \in [Processes -> Verdicts] /\ earlier' \in [Processes -> Nat]
      /\ namespace' = [e \in Directories |-> namespace'[e]]
      /\ verdict'[p] # "none" => at'[p] > 14
      /\ namespace'[d] # {} /\ \A e \in Directories : e # d => namespace'[e] = namespace[e]
      /\ \A image \in namespace'[d] :
           image \in namespace[d] \/ (image.by = p /\ image.names = settings[p])
      /\ \A q \in Processes : q # p => verdict'[q] = verdict[q]
      /\ at[p] # 14 => verdict' = verdict
  <2>1. CASE ImportCommits(p)
    <3>1. at[p] = 13
      <4>1. StepOf(p) = Steps[13]
        BY <2>1, StepFacts DEF ImportCommits
      <4> QED BY <1>1, <4>1, StepFacts, StepsDistinct DEF StepOf
    <3>2. PICK t \in open[d] : Commits(d, t, p, settings[p])
      BY <2>1 DEF ImportCommits
    <3>3. /\ namespace' = [e \in Directories |-> namespace'[e]]
          /\ namespace'[d] # {} /\ \A e \in Directories : e # d => namespace'[e] = namespace[e]
          /\ \A image \in namespace'[d] :
               image \in namespace[d] \/ (image.by = p /\ image.names = settings[p])
      BY <1>2, <3>2, CommitEffect
    <3>4. UNCHANGED <<verdict, earlier>>
      BY <2>1 DEF ImportCommits
    <3>5. verdict'[p] = "none" /\ verdict' \in [Processes -> Verdicts] /\ earlier' \in [Processes -> Nat]
      BY <1>3, <3>1, <3>4 DEF DirectoryTypes
    <3> QED BY <3>1, <3>3, <3>4, <3>5
  <2>2. CASE CheckParity(p)
    <3>1. at[p] = 14
      <4>1. StepOf(p) = Steps[14]
        BY <2>2, StepFacts DEF CheckParity
      <4> QED BY <1>1, <4>1, StepFacts, StepsDistinct DEF StepOf
    <3>2. /\ \E v \in Verdicts : verdict' = [verdict EXCEPT ![p] = v]
          /\ UNCHANGED <<earlier, namespace>>
      BY <2>2 DEF CheckParity, neo4jVars
    <3>3. verdict' \in [Processes -> Verdicts] /\ \A q \in Processes : q # p => verdict'[q] = verdict[q]
      BY <1>3, <3>2 DEF DirectoryTypes
    <3>4. at'[p] > 14
      BY <1>4, <3>1
    <3>5. namespace' = [e \in Directories |-> namespace'[e]] /\ earlier' \in [Processes -> Nat]
      BY <1>3, <3>2 DEF DirectoryTypes
    <3> QED BY <1>3, <3>1, <3>2, <3>3, <3>4, <3>5
  <2>3. CASE ReadEarlierView(p)
    <3>1. at[p] = 19
      <4>1. StepOf(p) = Steps[19]
        BY <2>3, StepFacts DEF ReadEarlierView
      <4> QED BY <1>1, <4>1, StepFacts, StepsDistinct DEF StepOf
    <3>2. UNCHANGED <<verdict, namespace>> /\ earlier' = [earlier EXCEPT ![p] = completed[d]]
      BY <2>3 DEF ReadEarlierView, neo4jVars
    <3>3. earlier' \in [Processes -> Nat]
      BY <1>2, <1>3, <3>2 DEF DirectoryTypes
    <3>4. at'[p] > 14
      BY <1>4, <3>1
    <3>5. namespace' = [e \in Directories |-> namespace'[e]] /\ verdict' \in [Processes -> Verdicts]
      BY <1>3, <3>2 DEF DirectoryTypes
    <3> QED BY <1>3, <3>1, <3>2, <3>3, <3>4, <3>5
  <2> QED BY <2>1, <2>2, <2>3
<1>6. DirectoryTypes'
  BY <1>1, <1>3, <1>4, <1>5 DEF DirectoryTypes
<1>7. Target[p] = d
  OBVIOUS
<1> HIDE DEF d
<1>8. /\ \A q \in Processes : Target[q] # d => CallFits(q)' /\ (at'[q] > 1 => WriterFits(q)')
      /\ \A e \in Directories : e # d => DirectoryFits(e)' /\ ProjectionFits(e)'
  BY <1>1, <1>2, <1>4, <1>5, <1>6, <1>7, ElsewhereKept
<1>9. \A q \in Processes : q # p /\ Target[q] = d => CallFits(q)' /\ ~(at'[q] > 1)
  BY <1>1, <1>4, <1>5, <1>7, OthersAway
<1>10. WriterFits(p)'
  <2>1. ProgressFits(p)'
    <3>1. \A i \in 1 .. 20 : Steps[i] \notin Unwritten => (i < at'[p] <=> i < at[p])
      BY <1>1, <1>4, StepFacts DEF Unwritten
    <3> QED BY <1>1, <1>2, <1>4, <1>7, <3>1, StepFacts DEF ProgressFits
  <2>2. at[p] = 19 => verdict'[p] = "passed"
    BY <1>2, <1>5 DEF WriterFits
  <2>3. at[p] = 19 => (valid[d] <=> verdict'[p] = "passed")
    BY <1>2, <1>5, <1>7 DEF WriterFits
  <2> QED BY <1>1, <1>2, <1>4, <1>5, <1>7, <2>1, <2>2, <2>3 DEF WriterFits
<1>11. CallFits(p)'
  BY <1>1, <1>4, <1>5 DEF CallFits
<1>12. DirectoryFits(d)'
  <2>1. \A q \in Processes : Writes(q, d)' <=> q = p
    BY <1>1, <1>2, <1>4, <1>7, <1>9 DEF Writes
  <2>2. \A a \in Artifacts : author'[d][a] # Nobody => author'[d][a] = p
    BY <1>1, <1>2, WriterFacts
  <2> QED BY <2>1, <2>2 DEF DirectoryFits
<1>13. ProjectionFits(d)'
  <2>1. ProjectionFits(d)
    BY <1>2 DEF DirectoryInv
  <2>2. \A image \in namespace'[d] : image.by = author[d]["fact_graph"] /\ image.names \in manifest[d]
    BY <1>2, <1>5, <2>1 DEF ProjectionFits
  <2> QED BY <1>1, <1>2, <1>5, <2>1, <2>2 DEF ProjectionFits
<1>14. \A q \in Processes : CallFits(q)' /\ (at'[q] > 1 => WriterFits(q)')
  BY <1>8, <1>9, <1>10, <1>11
<1> QED BY <1>6, <1>8, <1>12, <1>13, <1>14 DEF DirectoryInv
-----------------------------------------------------------------------------
(* The steps of rebuild_projection, and of the operator.                   *)

\* A rebuild that knows what it works on.
LEMMA RebuildFacts ==
  ASSUME DirectoryInv, NEW d \in Directories,
         rebuild[d].at # "idle" \/ {"fact_graph", "projection_manifest"} \subseteq Present(d)
  PROVE  \E p \in Processes : /\ Writes(p, d) /\ at[p] > 12
                              /\ author[d]["fact_graph"] = p
                              /\ manifest[d] = {settings[p]} /\ settings[p] \in Names
<1>1. author[d]["projection_manifest"] # Nobody
  BY DEF DirectoryInv, ProjectionFits, Present
<1>2. Present(d) # {}
  BY <1>1, ArtifactFacts DEF Present
<1>3. PICK p \in Processes : Writes(p, d)
  BY <1>2, SomeoneWrote
<1>4. at[p] > 12 /\ author[d]["fact_graph"] = p
  BY <1>1, <1>3, WriterFacts
<1>5. manifest[d] = {settings[p]} /\ settings[p] \in Names
  BY <1>3, <1>4 DEF DirectoryInv, WriterFits, Writes, DirectoryTypes
<1> QED BY <1>3, <1>4, <1>5

\* A rebuild brings the diff and the view, in the name of the call whose graph
\* it projects, and projects it under the names that call recorded.
LEMMA RebuildKept ==
  ASSUME DirectoryInv, DirectoryTypes', NEW d \in Directories,
         NEW p \in Processes, Writes(p, d), at[p] > 12,
         UNCHANGED <<at, ended, settings, verdict, manifest, valid>>,
         \A e \in Directories : e # d =>
           author'[e] = author[e] /\ namespace'[e] = namespace[e] /\ rebuild'[e] = rebuild[e],
         \A a \in Artifacts : \/ author'[d][a] = author[d][a]
                              \/ a \in {"edge_diff", "graph_view"} /\ author'[d][a] = p,
         namespace[d] # {} => namespace'[d] # {},
         \A image \in namespace'[d] :
           image \in namespace[d] \/ (image.by = p /\ image.names = settings[p]),
         author'[d]["edge_diff"] # Nobody => namespace'[d] # {},
         rebuild'[d].at # "idle" => rebuild'[d].names = manifest[d],
         rebuild'[d].at \in Projects => namespace'[d] # {}
  PROVE  DirectoryInv'
<1>1. /\ \A q \in Processes : Target[q] # d => CallFits(q)' /\ (at'[q] > 1 => WriterFits(q)')
      /\ \A e \in Directories : e # d => DirectoryFits(e)' /\ ProjectionFits(e)'
  BY ElsewhereKept
<1>2. /\ WriterFits(p) /\ ProgressFits(p) /\ CallFits(p) /\ ProjectionFits(d) /\ Target[p] = d
      /\ at[p] \in 13 .. 21 /\ p # Nobody
      /\ author[d]["fact_graph"] = p /\ author[d]["projection_manifest"] = p
      /\ manifest[d] = {settings[p]}
      /\ \A a \in Artifacts : author[d][a] \in {p, Nobody}
      /\ \A q \in Processes : Writes(q, d) => q = p
  <2>1. /\ WriterFits(p) /\ ProgressFits(p) /\ CallFits(p) /\ ProjectionFits(d) /\ Target[p] = d
        /\ \A q \in Processes : Writes(q, d) => q = p
    BY DEF DirectoryInv, Writes, WriterFits, DirectoryFits
  <2>2. /\ at[p] \in 13 .. 21 /\ p # Nobody
        /\ author[d]["fact_graph"] = p /\ author[d]["projection_manifest"] = p
        /\ \A a \in Artifacts : author[d][a] \in {p, Nobody}
    BY WriterFacts
  <2>3. manifest[d] = {settings[p]}
    BY <2>1 DEF WriterFits
  <2> QED BY <2>1, <2>2, <2>3
<1>3. author'[d]["fact_graph"] = p /\ author'[d]["projection_manifest"] = p
      /\ author'[d]["terminal_failure"] = author[d]["terminal_failure"]
  BY <1>2, ArtifactFacts
<1>4. ASSUME NEW q \in Processes, Target[q] = d, q # p PROVE CallFits(q)' /\ ~(at'[q] > 1)
  <2>1. ~(at[q] > 1) /\ ~Running(q)
    BY <1>2, <1>4, SoleWriter DEF Writes
  <2>2. CallFits(q)
    BY DEF DirectoryInv
  <2> QED BY <2>1, <2>2 DEF CallFits, Running
<1>5. WriterFits(p)'
  <2>1. ProgressFits(p)'
    <3>1. ASSUME NEW i \in 1 .. 20
          PROVE  /\ i < at[p] /\ Steps[i] \notin Unwritten => author'[d][Steps[i]] = p
                 /\ i >= at[p] /\ Steps[i] \notin Unwritten \cup {"edge_diff", "graph_view"}
                      => author'[d][Steps[i]] = Nobody
      <4>1. /\ i < at[p] /\ Steps[i] \notin Unwritten => author[d][Steps[i]] = p
            /\ i >= at[p] /\ Steps[i] \notin Unwritten \cup {"edge_diff", "graph_view"}
                 => author[d][Steps[i]] = Nobody
        BY <1>2, StepFacts DEF ProgressFits
      <4> QED BY <4>1, ArtifactFacts
    <3> QED BY <1>2, <3>1, StepFacts DEF ProgressFits
  <2> QED BY <1>2, <1>3, <2>1 DEF WriterFits
<1>6. CallFits(p)'
  BY <1>2 DEF CallFits
<1>7. DirectoryFits(d)'
  <2>1. \A q \in Processes : Writes(q, d)' <=> q = p
    BY <1>2 DEF Writes
  <2>2. \A a \in Artifacts : author'[d][a] # Nobody => author'[d][a] = p
    BY <1>2
  <2> QED BY <2>1, <2>2 DEF DirectoryFits
<1>8. ProjectionFits(d)'
  <2>1. \A image \in namespace'[d] :
          image.by = author'[d]["fact_graph"] /\ image.names \in manifest'[d]
    BY <1>2, <1>3 DEF ProjectionFits
  <2> QED BY <1>2, <1>3, <2>1 DEF ProjectionFits, Idle
<1>9. \A q \in Processes : CallFits(q)' /\ (at'[q] > 1 => WriterFits(q)')
  BY <1>1, <1>4, <1>5, <1>6
<1> QED BY <1>1, <1>7, <1>8, <1>9 DEF DirectoryInv

\* A rebuild changes its own record only, and keeps the names it began with.
LEMMA RebuildMoves ==
  ASSUME DirectoryInv, NEW d \in Directories, NEW next \in Rebuilds, RebuildTo(d, next)
  PROVE  /\ rebuild' \in [Directories -> Rebuilds] /\ rebuild'[d] = next
         /\ \A e \in Directories : e # d => rebuild'[e] = rebuild[e]
BY DEF DirectoryInv, DirectoryTypes, RebuildTo

LEMMA RebuildInv ==
  ASSUME DirectoryInv, NEW d \in Directories, Rebuild(d)
  PROVE  DirectoryInv'
<1>1. /\ DirectoryTypes /\ ProjectionFits(d) /\ rebuild \in [Directories -> Rebuilds]
      /\ rebuild[d] \in Rebuilds /\ configured \in Names
      /\ author \in [Directories -> [Artifacts -> Processes \cup {Nobody}]]
      /\ completed \in [Directories -> Nat]
  BY DEF DirectoryInv, DirectoryTypes, Rebuilds
<1>2. /\ rebuild[d].at # "idle" \/ {"fact_graph", "projection_manifest"} \subseteq Present(d)
      /\ UNCHANGED <<configured, at, ended, settings, verdict, earlier, manifest, valid>>
  BY DEF Rebuild, RebuildBegins, RebuildReads, RebuildCommits, RebuildChecks, RebuildWritesDiff,
         RebuildReadsView, RebuildWritesView, RebuildFails, runVars, fileVars
<1>3. PICK p \in Processes : /\ Writes(p, d) /\ at[p] > 12 /\ author[d]["fact_graph"] = p
                             /\ manifest[d] = {settings[p]} /\ settings[p] \in Names
  BY <1>2, RebuildFacts
<1>4. CASE RebuildReads(d)
  <2>1. UNCHANGED <<configured, at, ended, settings, verdict, earlier, author, manifest, diff, valid,
                    completed, clock, namespace, rebuild>>
    BY <1>4 DEF RebuildReads, runVars, fileVars
  <2> QED BY <1>1, <2>1, QuietInv DEF DirectoryTypes
\* Only the record of the rebuild changes.
<1>5. CASE RebuildBegins(d) \/ RebuildChecks(d) \/ RebuildReadsView(d) \/ RebuildFails(d)
  <2>1. PICK next \in Rebuilds :
          /\ RebuildTo(d, next)
          /\ next.at # "idle" => next.names = manifest[d]
          /\ next.at \in Projects => rebuild[d].at \in Projects
    <3>1. CASE RebuildBegins(d)
      <4>1. PICK beside \in BOOLEAN : beside = AtWork(d)
        BY DEF AtWork
      <4> DEFINE next == [rebuild[d] EXCEPT !.at = "import", !.done = @ + 1,
                                            !.names = {configured}, !.beside = beside]
      <4>2. RebuildTo(d, next) /\ NamesMatch(d)
        BY <3>1, <4>1 DEF RebuildBegins
      <4>3. next \in Rebuilds /\ next.at = "import" /\ next.names = {configured}
        <5>1. rebuild[d].done + 1 \in Nat /\ {configured} \in SUBSET Names
          BY <1>1 DEF Rebuilds
        <5>2. next \in Rebuilds
          BY <1>1, <5>1 DEF Rebuilds
        <5>3. next.at = "import"
          BY <1>1 DEF Rebuilds
        <5>4. next.names = {configured}
          BY <1>1 DEF Rebuilds
        <5> QED BY <5>2, <5>3, <5>4
      <4>4. manifest[d] = {configured}
        BY <1>3, <4>2 DEF NamesMatch
      <4> HIDE DEF next
      <4> QED BY <4>2, <4>3, <4>4 DEF Projects
    <3>2. CASE RebuildChecks(d)
      <4>1. PICK v \in Verdicts : RebuildTo(d, [rebuild[d] EXCEPT !.at = "diff", !.verdict = v])
        BY <3>2 DEF RebuildChecks
      <4>2. [rebuild[d] EXCEPT !.at = "diff", !.verdict = v] \in Rebuilds
        BY <1>1 DEF Rebuilds, Projects
      <4>3. rebuild[d].at = "parity"
        BY <3>2 DEF RebuildChecks
      <4> QED BY <1>1, <4>1, <4>2, <4>3 DEF Rebuilds, Projects, ProjectionFits
    <3>3. CASE RebuildReadsView(d)
      <4>1. RebuildTo(d, [rebuild[d] EXCEPT !.at = "view", !.earlier = completed[d]])
        BY <3>3 DEF RebuildReadsView
      <4>2. [rebuild[d] EXCEPT !.at = "view", !.earlier = completed[d]] \in Rebuilds
        BY <1>1 DEF Rebuilds, Projects
      <4>3. rebuild[d].at = "earlier_view"
        BY <3>3 DEF RebuildReadsView
      <4> QED BY <1>1, <4>1, <4>2, <4>3 DEF Rebuilds, Projects, ProjectionFits
    <3>4. CASE RebuildFails(d)
      <4>1. RebuildTo(d, [rebuild[d] EXCEPT !.at = "idle"])
        BY <3>4 DEF RebuildFails
      <4>2. [rebuild[d] EXCEPT !.at = "idle"] \in Rebuilds
        BY <1>1 DEF Rebuilds
      <4> QED BY <1>1, <4>1, <4>2 DEF Rebuilds, Projects
    <3> QED BY <1>5, <3>1, <3>2, <3>3, <3>4
  <2>2. UNCHANGED <<author, diff, completed, clock, namespace>>
    BY <1>5 DEF RebuildBegins, RebuildChecks, RebuildReadsView, RebuildFails, fileVars, neo4jVars
  <2>3. /\ rebuild' \in [Directories -> Rebuilds] /\ rebuild'[d] = next
        /\ \A e \in Directories : e # d => rebuild'[e] = rebuild[e]
    BY <2>1, RebuildMoves
  <2>4. DirectoryTypes'
    BY <1>1, <1>2, <2>2, <2>3 DEF DirectoryTypes
  <2> QED BY <1>1, <1>2, <1>3, <2>1, <2>2, <2>3, <2>4, RebuildKept DEF ProjectionFits
<1>6. CASE RebuildCommits(d)
  <2>1. PICK t \in open[d], n \in rebuild[d].names : Commits(d, t, p, n)
    BY <1>3, <1>6 DEF RebuildCommits
  <2>2. /\ rebuild[d].at = "import" /\ UNCHANGED <<author, diff, completed, clock>>
        /\ RebuildTo(d, [rebuild[d] EXCEPT !.at = "parity"])
    BY <1>6 DEF RebuildCommits, fileVars
  <2>3. n = settings[p] /\ rebuild[d].names = manifest[d]
    BY <1>1, <1>3, <2>1, <2>2 DEF ProjectionFits
  <2>4. [rebuild[d] EXCEPT !.at = "parity"] \in Rebuilds
        /\ [rebuild[d] EXCEPT !.at = "parity"].names = manifest[d]
    BY <1>1, <2>3 DEF Rebuilds, Projects
  <2>5. /\ rebuild' \in [Directories -> Rebuilds] /\ rebuild'[d].names = manifest[d]
        /\ \A e \in Directories : e # d => rebuild'[e] = rebuild[e]
    BY <2>2, <2>4, RebuildMoves
  <2>6. /\ namespace' = [e \in Directories |-> namespace'[e]] /\ namespace'[d] # {}
        /\ \A e \in Directories : e # d => namespace'[e] = namespace[e]
        /\ \A image \in namespace'[d] :
             image \in namespace[d] \/ (image.by = p /\ image.names = settings[p])
    BY <2>1, <2>3, CommitEffect
  <2>7. DirectoryTypes'
    BY <1>1, <1>2, <2>2, <2>5, <2>6 DEF DirectoryTypes
  <2> QED BY <1>2, <1>3, <2>2, <2>5, <2>6, <2>7, RebuildKept
<1>7. CASE RebuildWritesDiff(d) \/ RebuildWritesView(d)
  <2>1. PICK a \in {"edge_diff", "graph_view"}, s \in {"earlier_view", "idle"} :
          /\ author' = [author EXCEPT ![d] = [author[d] EXCEPT ![a] = p]]
          /\ RebuildTo(d, [rebuild[d] EXCEPT !.at = s])
    <3>1. CASE RebuildWritesDiff(d)
      <4>1. author' = [author EXCEPT ![d] = [author[d] EXCEPT !["edge_diff"] = p]]
        BY <1>3, <3>1 DEF RebuildWritesDiff, Put
      <4>2. \/ RebuildTo(d, [rebuild[d] EXCEPT !.at = "earlier_view"])
            \/ RebuildTo(d, [rebuild[d] EXCEPT !.at = "idle"])
        BY <3>1 DEF RebuildWritesDiff
      <4> QED BY <4>1, <4>2
    <3>2. CASE RebuildWritesView(d)
      <4>1. author' = [author EXCEPT ![d] = [author[d] EXCEPT !["graph_view"] = p]]
        BY <1>3, <3>2 DEF RebuildWritesView, Put
      <4>2. RebuildTo(d, [rebuild[d] EXCEPT !.at = "idle"])
        BY <3>2 DEF RebuildWritesView
      <4> QED BY <4>1, <4>2
    <3> QED BY <1>7, <3>1, <3>2
  <2>2. /\ rebuild[d].at \in {"diff", "view"} /\ namespace' = namespace
        /\ diff' \in {diff, [diff EXCEPT ![d] = rebuild[d].verdict]}
        /\ completed' \in {completed, [completed EXCEPT ![d] = Stamp(rebuild[d].earlier)]}
        /\ clock' \in {clock, clock + 1}
    BY <1>7 DEF RebuildWritesDiff, RebuildWritesView, neo4jVars
  <2>3. namespace[d] # {} /\ rebuild[d].names = manifest[d]
    BY <1>1, <2>2 DEF ProjectionFits, Projects
  <2>4. [rebuild[d] EXCEPT !.at = s] \in Rebuilds /\ [rebuild[d] EXCEPT !.at = s].names = manifest[d]
    BY <1>1, <2>3 DEF Rebuilds, Projects
  <2>5. /\ rebuild' \in [Directories -> Rebuilds] /\ rebuild'[d].names = manifest[d]
        /\ \A e \in Directories : e # d => rebuild'[e] = rebuild[e]
    BY <2>1, <2>4, RebuildMoves
  <2>6. a \in Artifacts
    BY ArtifactFacts
  <2>7. /\ author' \in [Directories -> [Artifacts -> Processes \cup {Nobody}]]
        /\ \A e \in Directories : e # d => author'[e] = author[e]
        /\ \A b \in Artifacts : author'[d][b] = IF b = a THEN p ELSE author[d][b]
    <3>1. [author[d] EXCEPT ![a] = p] \in [Artifacts -> Processes \cup {Nobody}]
      BY <1>1
    <3> QED BY <1>1, <2>1, <2>6, <3>1
  <2>8. diff' \in [Directories -> Verdicts] /\ completed' \in [Directories -> Nat] /\ clock' \in Nat
    <3>1. rebuild[d].verdict \in Verdicts /\ rebuild[d].earlier \in Nat
      BY <1>1 DEF Rebuilds
    <3>2. diff' \in [Directories -> Verdicts]
      BY <1>1, <2>2, <3>1 DEF DirectoryTypes
    <3>3. clock' \in Nat /\ Stamp(rebuild[d].earlier) \in Nat
      BY <1>1, <2>2, <3>1 DEF DirectoryTypes, Stamp
    <3>4. completed' \in [Directories -> Nat]
      BY <1>1, <2>2, <3>3 DEF DirectoryTypes
    <3> QED BY <3>2, <3>3, <3>4
  <2>9. DirectoryTypes'
    BY <1>1, <1>2, <2>2, <2>5, <2>7, <2>8 DEF DirectoryTypes
  <2>10. \A b \in Artifacts : \/ author'[d][b] = author[d][b]
                              \/ b \in {"edge_diff", "graph_view"} /\ author'[d][b] = p
    BY <2>7
  <2>11. \A e \in Directories : e # d =>
           author'[e] = author[e] /\ namespace'[e] = namespace[e] /\ rebuild'[e] = rebuild[e]
    BY <2>2, <2>5, <2>7
  <2>12. namespace'[d] = namespace[d] /\ namespace'[d] # {}
    BY <2>2, <2>3
  <2> QED BY <1>2, <1>3, <2>5, <2>9, <2>10, <2>11, <2>12, RebuildKept
<1> QED BY <1>4, <1>5, <1>6, <1>7 DEF Rebuild
-----------------------------------------------------------------------------
(* Every step, and what follows.                                           *)

LEMMA DirectoryStepInv ==
  ASSUME DirectoryInv, Alone, [Next]_vars
  PROVE  DirectoryInv'
<1>1. ASSUME NEW p \in Processes, Run(p) PROVE DirectoryInv'
  BY <1>1, BeginInv, WriteInv, ImportInv, CheckFailsInv, EndsInv DEF Run
<1>2. ASSUME NEW d \in Directories, Rebuild(d) PROVE DirectoryInv'
  BY <1>2, RebuildInv
<1>3. CASE Configure \/ UNCHANGED vars
  <2>1. /\ configured' \in Names /\ earlier' \in [Processes -> Nat] /\ ended' = ended
        /\ ended \subseteq Processes
        /\ UNCHANGED <<at, settings, verdict, author, manifest, diff, valid, completed, clock,
                       namespace, rebuild>>
    BY <1>3 DEF Configure, vars, runVars, fileVars, neo4jVars, DirectoryInv, DirectoryTypes
  <2> QED BY <2>1, QuietInv
<1> QED BY <1>1, <1>2, <1>3 DEF Next

\* How far the writer of a directory has come, and what is there by then.
THEOREM DirectoryInvariant == Spec /\ []Alone => []DirectoryInv
<1>1. DirectoryInv /\ Alone /\ [Next]_vars => DirectoryInv'
  BY DirectoryStepInv
<1> QED BY DirectoryInitInv, <1>1, PTL DEF Spec

LEMMA CompletionFromInv == DirectoryInv => CompletionIsEarned
<1> SUFFICES ASSUME DirectoryInv, NEW d \in Directories, "completion_status" \in Present(d)
             PROVE  /\ ToSet(Steps) \ (Unwritten \cup {"graph_view"}) \subseteq Present(d)
                    /\ "terminal_failure" \notin Present(d)
                    /\ valid[d] /\ namespace[d] # {}
  BY DEF CompletionIsEarned
<1>1. PICK p \in Processes : Writes(p, d)
  BY SomeoneWrote
<1>2. at[p] \in 19 .. 21 /\ p # Nobody
  BY <1>1, WriterFacts DEF Present
<1>3. WriterFits(p) /\ ProgressFits(p) /\ Target[p] = d
  BY <1>1 DEF DirectoryInv, Writes, WriterFits
<1>4. ASSUME NEW a \in ToSet(Steps) \ (Unwritten \cup {"graph_view"}) PROVE a \in Present(d)
  <2>1. PICK i \in 1 .. 20 : a = Steps[i]
    BY StepFacts DEF ToSet
  <2>2. i # 20 /\ i # 19
    BY <2>1, StepFacts DEF Unwritten
  <2>3. i < at[p]
    BY <1>2, <2>2
  <2>4. author[d][a] = p /\ a \in Artifacts
    BY <1>3, <2>1, <2>3, StepFacts, ArtifactFacts DEF ProgressFits
  <2> QED BY <1>2, <2>4 DEF Present
<1>5. "terminal_failure" \notin Present(d)
  BY <1>2, <1>3 DEF WriterFits, Present
<1>6. valid[d] /\ namespace[d] # {}
  <2>1. at[p] > 13 /\ at[p] > 16 /\ at[p] > 18
    BY <1>2
  <2> QED BY <1>3, <2>1 DEF WriterFits
<1> QED BY <1>4, <1>5, <1>6

LEMMA FailureFromInv == DirectoryInv => FailureExcludesGraph
<1> SUFFICES ASSUME DirectoryInv, NEW d \in Directories, "terminal_failure" \in Present(d)
             PROVE  "fact_graph" \notin Present(d) /\ namespace[d] = {}
  BY DEF FailureExcludesGraph
<1>1. PICK p \in Processes : Writes(p, d)
  BY SomeoneWrote
<1>2. at[p] <= 10 /\ at[p] \in 2 .. 21
  BY <1>1, WriterFacts DEF DirectoryInv, WriterFits, Writes, Present
<1>3. author[d]["fact_graph"] = Nobody /\ author[d]["projection_manifest"] = Nobody
  BY <1>1, <1>2, WriterFacts
<1> QED BY <1>3 DEF Present, DirectoryInv, ProjectionFits

LEMMA RunTypeFromInv == DirectoryInv => RunTypeOK
<1> SUFFICES ASSUME DirectoryInv PROVE RunTypeOK
  OBVIOUS
<1>1. DirectoryTypes /\ Len(Steps) + 1 = 21
  BY StepFacts DEF DirectoryInv
<1>2. ASSUME NEW p \in Processes, verdict[p] # "none" PROVE manifest[Target[p]] # {}
  <2>1. at[p] > 14 /\ at[p] \in 0 .. 21
    BY <1>1, <1>2 DEF DirectoryInv, CallFits, DirectoryTypes
  <2>2. at[p] > 1 /\ at[p] > 12
    BY <2>1
  <2>3. manifest[Target[p]] = {settings[p]}
    BY <2>2 DEF DirectoryInv, WriterFits
  <2> QED BY <2>3
<1>3. \A d \in Directories : "fact_graph" \notin Present(d) => rebuild[d] = Idle
  BY ArtifactFacts DEF DirectoryInv, ProjectionFits, Present
<1> QED BY <1>1, <1>2, <1>3 DEF RunTypeOK, DirectoryTypes

\* A completion file vouches for its whole directory, and a directory with the
\* report of a failed check holds no graph, on disk or in Neo4j, at whatever
\* point calls and rebuilds fail or die (production_runner.py:248, 339-395).
THEOREM RunAlwaysInv == Spec /\ []Alone => []RunInv
<1>1. DirectoryInv => RunInv
  BY RunTypeFromInv, CompletionFromInv, FailureFromInv DEF RunInv
<1> QED BY <1>1, DirectoryInvariant, PTL
-----------------------------------------------------------------------------
(* Imports of one namespace that meet.                                     *)

\* A transaction that has met no other is the only one, and what it has read
\* is still what the namespace holds.
NamespaceFits(d) ==
  /\ \A t \in open[d] : t = [import |-> t.import, seen |-> t.seen, met |-> t.met]
  /\ \A t \in open[d] : t.met = TRUE \/ (open[d] = {t} /\ t.seen = namespace[d])
  /\ overlapped[d] = TRUE \/ \A a, b \in namespace[d] : a = b

NamespaceInv ==
  /\ open = [d \in Directories |-> open[d]]
  /\ namespace = [d \in Directories |-> namespace[d]]
  /\ overlapped = [d \in Directories |-> overlapped[d]]
  /\ \A d \in Directories : NamespaceFits(d)

LEMMA NamespaceInit == Init => NamespaceInv
BY DEF Init, NamespaceInv, NamespaceFits

LEMMA ReadsFits ==
  ASSUME NamespaceInv, NEW d \in Directories, NEW i, Reads(d, i), UNCHANGED <<namespace, overlapped>>
  PROVE  NamespaceInv'
<1> DEFINE others == {t \in open[d] : t.import # i}
           new == [import |-> i, seen |-> namespace[d], met |-> others # {}]
           marked == {[t EXCEPT !.met = TRUE] : t \in others}
<1>1. open' = [open EXCEPT ![d] = marked \cup {new}]
  BY DEF Reads
<1>2. open' = [e \in Directories |-> open'[e]] /\ open'[d] = marked \cup {new}
      /\ \A e \in Directories : e # d => open'[e] = open[e]
  BY <1>1 DEF NamespaceInv
<1>3. new = [import |-> new.import, seen |-> new.seen, met |-> new.met] /\ new.seen = namespace[d]
      /\ (others # {} => new.met = TRUE)
  OBVIOUS
<1>4. ASSUME NEW t \in marked
      PROVE  t = [import |-> t.import, seen |-> t.seen, met |-> t.met] /\ t.met = TRUE
  <2>1. PICK s \in others : t = [s EXCEPT !.met = TRUE]
    OBVIOUS
  <2>2. s = [import |-> s.import, seen |-> s.seen, met |-> s.met]
    BY DEF NamespaceInv, NamespaceFits
  <2> QED BY <2>1, <2>2
<1>5. others = {} => marked = {}
  OBVIOUS
<1> HIDE DEF new, marked, others
<1>6. NamespaceFits(d)'
  <2>1. \A t \in open'[d] : t = [import |-> t.import, seen |-> t.seen, met |-> t.met]
    BY <1>2, <1>3, <1>4
  <2>2. \A t \in open'[d] : t.met = TRUE \/ (open'[d] = {t} /\ t.seen = namespace'[d])
    <3>1. CASE others = {}
      BY <1>2, <1>3, <1>5, <3>1
    <3>2. CASE others # {}
      BY <1>2, <1>3, <1>4, <3>2
    <3> QED BY <3>1, <3>2
  <2>3. overlapped'[d] = TRUE \/ \A a, b \in namespace'[d] : a = b
    BY DEF NamespaceInv, NamespaceFits
  <2> QED BY <2>1, <2>2, <2>3 DEF NamespaceFits
<1>7. \A e \in Directories : e # d => NamespaceFits(e)'
  BY <1>2 DEF NamespaceInv, NamespaceFits
<1> QED BY <1>2, <1>6, <1>7 DEF NamespaceInv

LEMMA CommitsFits ==
  ASSUME NamespaceInv, NEW d \in Directories, NEW t \in open[d], NEW by, NEW names,
         Commits(d, t, by, names)
  PROVE  NamespaceInv'
<1> DEFINE image == [by |-> by, names |-> names, import |-> t.import]
<1>1. /\ namespace' = [namespace EXCEPT ![d] = (namespace[d] \ t.seen) \cup {image}]
      /\ open' = [open EXCEPT ![d] = open[d] \ {t}]
      /\ overlapped' = [overlapped EXCEPT ![d] = t.met]
  BY DEF Commits, Replaced
<1> HIDE DEF image
<1>2. /\ namespace' = [e \in Directories |-> namespace'[e]] /\ open' = [e \in Directories |-> open'[e]]
      /\ overlapped' = [e \in Directories |-> overlapped'[e]]
      /\ namespace'[d] = (namespace[d] \ t.seen) \cup {image} /\ open'[d] = open[d] \ {t}
      /\ overlapped'[d] = t.met
      /\ \A e \in Directories : e # d =>
           namespace'[e] = namespace[e] /\ open'[e] = open[e] /\ overlapped'[e] = overlapped[e]
  BY <1>1 DEF NamespaceInv
<1>3. NamespaceFits(d)'
  <2>1. t.met = TRUE \/ (open[d] = {t} /\ t.seen = namespace[d])
    BY DEF NamespaceInv, NamespaceFits
  <2>2. overlapped'[d] = TRUE \/ \A a, b \in namespace'[d] : a = b
    BY <1>2, <2>1
  <2>3. \A s \in open'[d] : s = [import |-> s.import, seen |-> s.seen, met |-> s.met] /\ s.met = TRUE
    BY <1>2 DEF NamespaceInv, NamespaceFits
  <2> QED BY <2>2, <2>3 DEF NamespaceFits
<1>4. \A e \in Directories : e # d => NamespaceFits(e)'
  BY <1>2 DEF NamespaceInv, NamespaceFits
<1> QED BY <1>2, <1>3, <1>4 DEF NamespaceInv

LEMMA RolledBackFits ==
  ASSUME NamespaceInv, NEW d \in Directories, NEW i, RolledBack(d, i), UNCHANGED <<namespace, overlapped>>
  PROVE  NamespaceInv'
<1>1. /\ open' = [e \in Directories |-> open'[e]] /\ open'[d] = {t \in open[d] : t.import # i}
      /\ \A e \in Directories : e # d => open'[e] = open[e]
  BY DEF RolledBack, NamespaceInv
<1>2. \A e \in Directories : NamespaceFits(e)'
  BY <1>1 DEF NamespaceInv, NamespaceFits
<1> QED BY <1>1, <1>2 DEF NamespaceInv

LEMMA NamespaceStep == NamespaceInv /\ [Next]_vars => NamespaceInv'
<1> SUFFICES ASSUME NamespaceInv, [Next]_vars PROVE NamespaceInv'
  OBVIOUS
<1>1. ASSUME UNCHANGED neo4jVars PROVE NamespaceInv'
  BY <1>1 DEF neo4jVars, NamespaceInv, NamespaceFits
<1>2. ASSUME NEW p \in Processes, Run(p) PROVE NamespaceInv'
  <2>1. Target[p] \in Directories
    BY RunAssumption
  <2>2. CASE ImportReads(p)
    BY <2>1, <2>2, ReadsFits DEF ImportReads
  <2>3. CASE ImportCommits(p)
    BY <2>1, <2>3, CommitsFits DEF ImportCommits
  <2>4. CASE Ends(p)
    BY <2>1, <2>4, RolledBackFits DEF Ends
  <2>5. CASE Begin(p) \/ Write(p) \/ CheckParity(p) \/ ReadEarlierView(p) \/ CheckFails(p)
    BY <1>1, <2>5 DEF Begin, Write, CheckParity, ReadEarlierView, CheckFails
  <2> QED BY <1>2, <2>2, <2>3, <2>4, <2>5 DEF Run
<1>3. ASSUME NEW d \in Directories, Rebuild(d) PROVE NamespaceInv'
  <2>1. CASE RebuildReads(d)
    BY <2>1, ReadsFits DEF RebuildReads
  <2>2. CASE RebuildCommits(d)
    BY <2>2, CommitsFits DEF RebuildCommits
  <2>3. CASE RebuildFails(d)
    BY <2>3, RolledBackFits DEF RebuildFails
  <2>4. CASE \/ RebuildBegins(d) \/ RebuildChecks(d) \/ RebuildWritesDiff(d)
             \/ RebuildReadsView(d) \/ RebuildWritesView(d)
    BY <1>1, <2>4 DEF RebuildBegins, RebuildChecks, RebuildWritesDiff, RebuildReadsView,
                      RebuildWritesView
  <2> QED BY <1>3, <2>1, <2>2, <2>3, <2>4 DEF Rebuild
<1>4. CASE Configure \/ UNCHANGED vars
  BY <1>1, <1>4 DEF Configure, vars
<1> QED BY <1>2, <1>3, <1>4 DEF Next

\* Whatever calls and rebuilds import at the same time, a namespace is doubled
\* only if the last import to commit met another one, and an import that
\* meets none leaves one image (json_neo4j_parity.py:280-333).
THEOREM NamespaceInvariant == Spec => []NamespaceInv
BY NamespaceInit, NamespaceStep, PTL DEF Spec

\* A graph the viewer opens is in Neo4j, every image of it from fact_graph.json
\* under the recorded names, and one image unless imports met
\* (graph_view.py:114-143, json_neo4j_parity.py:280-333).
THEOREM ViewableAlwaysProjected == Spec /\ []Alone => []ViewableIsProjected
<1>1. DirectoryInv /\ NamespaceInv => ViewableIsProjected
  <2> SUFFICES ASSUME DirectoryInv, NamespaceInv, NEW d \in Directories, Loadable(d)
               PROVE  /\ namespace[d] # {}
                      /\ \A image \in namespace[d] :
                           image.by = author[d]["fact_graph"] /\ image.names \in manifest[d]
                      /\ overlapped[d] \/ \A a, b \in namespace[d] : a = b
    BY DEF ViewableIsProjected
  <2>1. author[d]["edge_diff"] # Nobody
    BY DEF Loadable, Required, Present
  <2>2. ProjectionFits(d) /\ NamespaceFits(d)
    BY DEF DirectoryInv, NamespaceInv
  <2>3. overlapped[d] \/ \A a, b \in namespace[d] : a = b
    BY <2>2 DEF NamespaceFits
  <2> QED BY <2>1, <2>2, <2>3 DEF ProjectionFits
<1> QED BY <1>1, DirectoryInvariant, NamespaceInvariant, PTL
-----------------------------------------------------------------------------
(* The time of a view.                                                     *)

\* A rebuild of a directory whose call is still at work began beside it; a
\* view that no rebuild has touched is that of a finished call; and a rebuild
\* that began after the call writes the time it has read.
TimeFits(d) ==
  /\ rebuild[d].at # "idle" => rebuild[d].done > 0
  /\ AtWork(d) /\ rebuild[d].done > 0 => rebuild[d].beside = TRUE
  /\ completed[d] # 0 /\ rebuild[d].done = 0 => \E p \in Processes : Target[p] = d /\ at[p] = 21
  /\ rebuild[d].at = "view" => rebuild[d].beside = TRUE \/ rebuild[d].earlier = completed[d]

TimeInv == \A d \in Directories : TimeFits(d)

LEMMA TimeInit == Init => TimeInv
BY DEF Init, TimeInv, TimeFits, Idle, AtWork, Running

\* What a step of a call does to its place and to the time of the view.
LEMMA RunEffect ==
  ASSUME DirectoryInv, NEW p \in Processes, Run(p)
  PROVE  /\ rebuild' = rebuild
         /\ at' = at \/ (at[p] \in 0 .. 20 /\ at' = [at EXCEPT ![p] = at[p] + 1])
         /\ ended \subseteq ended'
         /\ at' # at /\ at[p] = 0 => Present(Target[p]) = {}
         /\ \/ completed' = completed
            \/ /\ Running(p) /\ at[p] = 20 /\ at'[p] = 21
               /\ completed' = [completed EXCEPT ![Target[p]] = Stamp(earlier[p])]
<1>1. at \in [Processes -> 0 .. 21] /\ Target[p] \in Directories
  BY RunAssumption DEF DirectoryInv, DirectoryTypes
<1>2. CASE Begin(p)
  BY <1>1, <1>2 DEF Begin, fileVars
<1>3. CASE Write(p)
  <2>1. /\ Running(p) /\ at[p] \in 1 .. 20 /\ at' = [at EXCEPT ![p] = at[p] + 1]
        /\ completed' = IF at[p] = 20 THEN [completed EXCEPT ![Target[p]] = Stamp(earlier[p])] ELSE completed
        /\ UNCHANGED <<ended, rebuild>>
    BY <1>3, WriteEffect
  <2> QED BY <1>1, <2>1
<1>4. CASE ImportCommits(p) \/ CheckParity(p) \/ ReadEarlierView(p)
  <2>1. /\ Running(p) /\ StepOf(p) \in Unwritten /\ at' = [at EXCEPT ![p] = at[p] + 1]
        /\ UNCHANGED <<ended, rebuild, completed>>
    BY <1>4 DEF ImportCommits, CheckParity, ReadEarlierView, Advance, fileVars, Unwritten
  <2>2. at[p] \in 1 .. 20
    BY <2>1, StepFacts DEF StepOf, Unwritten
  <2> QED BY <2>1, <2>2
<1>5. CASE ImportReads(p) \/ CheckFails(p) \/ Ends(p)
  BY <1>5 DEF ImportReads, CheckFails, AfterCheck, Ends, runVars, fileVars
<1> QED BY <1>2, <1>3, <1>4, <1>5 DEF Run

LEMMA TimeOfRun ==
  ASSUME DirectoryInv, TimeInv, NEW p \in Processes, Run(p), NEW d \in Directories
  PROVE  TimeFits(d)'
<1>1. /\ rebuild' = rebuild
      /\ at' = at \/ (at[p] \in 0 .. 20 /\ at' = [at EXCEPT ![p] = at[p] + 1])
      /\ ended \subseteq ended'
      /\ at' # at /\ at[p] = 0 => Present(Target[p]) = {}
      /\ \/ completed' = completed
         \/ /\ Running(p) /\ at[p] = 20 /\ at'[p] = 21
            /\ completed' = [completed EXCEPT ![Target[p]] = Stamp(earlier[p])]
  BY RunEffect
<1>2. /\ at \in [Processes -> 0 .. 21] /\ completed \in [Directories -> Nat]
      /\ TimeFits(d) /\ ProjectionFits(d) /\ "fact_graph" \in Artifacts
      /\ rebuild[d].done \in Nat
  BY ArtifactFacts DEF DirectoryInv, DirectoryTypes, TimeInv, Rebuilds
<1>3. AtWork(d)' => AtWork(d) \/ rebuild[d].done = 0
  <2> SUFFICES ASSUME NEW q \in Processes, Running(q)', Target[q] = d, ~Running(q)
               PROVE  rebuild[d].done = 0
    BY DEF AtWork
  <2>1. at[q] = 0 /\ at'[q] # 0
    BY <1>1, <1>2 DEF Running
  <2>2. Present(d) = {}
    BY <1>1, <1>2, <2>1
  <2> QED BY <1>2, <2>2 DEF ProjectionFits, Present, Idle
<1>4. \A q \in Processes : at[q] = 21 => at'[q] = 21
  BY <1>1, <1>2
<1>5. completed'[d] = completed[d] \/ (Running(p) /\ Target[p] = d /\ at'[p] = 21)
  BY <1>1, <1>2
<1>6. completed'[d] = completed[d] \/ (AtWork(d) /\ \E q \in Processes : Target[q] = d /\ at'[q] = 21)
  BY <1>5 DEF AtWork
<1> QED BY <1>1, <1>2, <1>3, <1>4, <1>6 DEF TimeFits

LEMMA TimeOfRebuild ==
  ASSUME DirectoryInv, TimeInv, NEW e \in Directories, Rebuild(e), NEW d \in Directories
  PROVE  TimeFits(d)'
<1>1. /\ rebuild \in [Directories -> Rebuilds] /\ rebuild[e] \in Rebuilds
      /\ completed \in [Directories -> Nat] /\ TimeFits(d) /\ TimeFits(e)
  BY DEF DirectoryInv, DirectoryTypes, TimeInv
<1>2. UNCHANGED <<at, ended>> /\ (AtWork(d)' <=> AtWork(d))
  BY DEF Rebuild, RebuildBegins, RebuildReads, RebuildCommits, RebuildChecks, RebuildWritesDiff,
         RebuildReadsView, RebuildWritesView, RebuildFails, runVars, AtWork, Running
\* Its record keeps what it knows, or is a new one.
<1>3. ASSUME NEW next \in Rebuilds, RebuildTo(e, next)
      PROVE  /\ rebuild'[e] = next
             /\ \A c \in Directories : c # e => rebuild'[c] = rebuild[c]
  BY <1>3, RebuildMoves
<1>4. CASE RebuildReads(e)
  BY <1>1, <1>2, <1>4 DEF RebuildReads, fileVars, TimeFits
<1>5. CASE RebuildBegins(e)
  <2>1. PICK beside \in BOOLEAN : beside = AtWork(e)
    BY DEF AtWork
  <2> DEFINE next == [rebuild[e] EXCEPT !.at = "import", !.done = @ + 1,
                                        !.names = {configured}, !.beside = beside]
  <2>2. RebuildTo(e, next) /\ completed' = completed
    BY <1>5, <2>1 DEF RebuildBegins, fileVars
  <2>3. next.at = "import" /\ next.done = rebuild[e].done + 1 /\ next.beside = beside
    BY <1>1 DEF Rebuilds
  <2>4. rebuild[e].done \in Nat
    BY <1>1 DEF Rebuilds
  <2>5. rebuild'[e] = next /\ \A c \in Directories : c # e => rebuild'[c] = rebuild[c]
    BY <1>1, <2>2 DEF RebuildTo
  <2> HIDE DEF next
  <2> QED BY <1>1, <1>2, <2>1, <2>2, <2>3, <2>4, <2>5 DEF TimeFits
<1>6. CASE RebuildCommits(e) \/ RebuildFails(e)
  <2>1. PICK s \in {"parity", "idle"} : RebuildTo(e, [rebuild[e] EXCEPT !.at = s])
    BY <1>6 DEF RebuildCommits, RebuildFails
  <2>2. completed' = completed /\ rebuild[e].at # "idle"
    BY <1>6 DEF RebuildCommits, RebuildFails, fileVars
  <2> QED BY <1>1, <1>2, <2>1, <2>2 DEF RebuildTo, Rebuilds, TimeFits
<1>7. CASE RebuildChecks(e)
  <2>1. PICK v \in Verdicts : RebuildTo(e, [rebuild[e] EXCEPT !.at = "diff", !.verdict = v])
    BY <1>7 DEF RebuildChecks
  <2>2. completed' = completed /\ rebuild[e].at # "idle"
    BY <1>7 DEF RebuildChecks, fileVars
  <2> QED BY <1>1, <1>2, <2>1, <2>2 DEF RebuildTo, Rebuilds, TimeFits
<1>8. CASE RebuildWritesDiff(e)
  <2>1. PICK s \in {"earlier_view", "idle"} : RebuildTo(e, [rebuild[e] EXCEPT !.at = s])
    BY <1>8 DEF RebuildWritesDiff
  <2>2. completed' = completed /\ rebuild[e].at # "idle"
    BY <1>8 DEF RebuildWritesDiff
  <2> QED BY <1>1, <1>2, <2>1, <2>2 DEF RebuildTo, Rebuilds, TimeFits
<1>9. CASE RebuildReadsView(e)
  <2>1. RebuildTo(e, [rebuild[e] EXCEPT !.at = "view", !.earlier = completed[e]])
    BY <1>9 DEF RebuildReadsView
  <2>2. completed' = completed /\ rebuild[e].at # "idle"
    BY <1>9 DEF RebuildReadsView, fileVars
  <2> QED BY <1>1, <1>2, <2>1, <2>2 DEF RebuildTo, Rebuilds, TimeFits
<1>10. CASE RebuildWritesView(e)
  <2>1. /\ RebuildTo(e, [rebuild[e] EXCEPT !.at = "idle"]) /\ rebuild[e].at # "idle"
        /\ completed' = [completed EXCEPT ![e] = Stamp(rebuild[e].earlier)]
    BY <1>10 DEF RebuildWritesView
  <2>2. \A c \in Directories : c # e => completed'[c] = completed[c]
    BY <1>1, <2>1
  <2> QED BY <1>1, <1>2, <2>1, <2>2 DEF RebuildTo, Rebuilds, TimeFits
<1> QED BY <1>4, <1>5, <1>6, <1>7, <1>8, <1>9, <1>10 DEF Rebuild

LEMMA TimeStep == DirectoryInv /\ TimeInv /\ [Next]_vars => TimeInv'
<1> SUFFICES ASSUME DirectoryInv, TimeInv, [Next]_vars PROVE TimeInv'
  OBVIOUS
<1>1. CASE \E p \in Processes : Run(p)
  BY <1>1, TimeOfRun DEF TimeInv
<1>2. CASE \E d \in Directories : Rebuild(d)
  BY <1>2, TimeOfRebuild DEF TimeInv
<1>3. CASE Configure \/ UNCHANGED vars
  BY <1>3 DEF Configure, vars, runVars, fileVars, TimeInv, TimeFits, AtWork, Running
<1> QED BY <1>1, <1>2, <1>3 DEF Next

THEOREM TimeInvariant == Spec /\ []Alone => []TimeInv
BY TimeInit, TimeStep, DirectoryInvariant, PTL DEF Spec

LEMMA SourceKept ==
  ASSUME DirectoryInv, TimeInv, [Next]_vars, NEW d \in Directories
  PROVE  /\ completed[d] \in {0, completed'[d]} \/ rebuild[d].beside
         /\ namespace'[d] # {} => author[d]["fact_graph"] # Nobody
         /\ author[d]["fact_graph"] \in {Nobody, author'[d]["fact_graph"]}
<1>1. /\ completed \in [Directories -> Nat]
      /\ author \in [Directories -> [Artifacts -> Processes \cup {Nobody}]]
      /\ namespace = [e \in Directories |-> namespace[e]]
      /\ "fact_graph" \in Artifacts /\ rebuild[d].done \in Nat
      /\ TimeFits(d)
  BY ArtifactFacts DEF DirectoryInv, DirectoryTypes, TimeInv, Rebuilds
<1>2. namespace[d] # {} => author[d]["fact_graph"] # Nobody
  <2> SUFFICES ASSUME namespace[d] # {} PROVE author[d]["fact_graph"] # Nobody
    OBVIOUS
  <2>1. PICK p \in Processes : Writes(p, d)
    BY SomeoneWrote
  <2>2. author[d]["projection_manifest"] # Nobody
    BY DEF DirectoryInv, ProjectionFits
  <2> QED BY <2>1, <2>2, WriterFacts
<1>3. ASSUME NEW p \in Processes, Run(p)
      PROVE  /\ completed[d] \in {0, completed'[d]} \/ rebuild[d].beside
             /\ namespace'[d] # {} => author[d]["fact_graph"] # Nobody
             /\ author[d]["fact_graph"] \in {Nobody, author'[d]["fact_graph"]}
  <2>0. completed[d] \in {0, completed'[d]} \/ rebuild[d].beside
    <3> SUFFICES ASSUME completed'[d] # completed[d], completed[d] # 0 PROVE rebuild[d].beside
      OBVIOUS
    <3>1. Running(p) /\ Target[p] = d /\ at[p] = 20
      BY <1>1, <1>3, RunEffect
    <3>2. AtWork(d)
      BY <3>1 DEF AtWork
    <3>3. rebuild[d].done = 0 => FALSE
      <4> SUFFICES ASSUME rebuild[d].done = 0 PROVE FALSE
        OBVIOUS
      <4>1. PICK q \in Processes : Target[q] = d /\ at[q] = 21
        BY <1>1 DEF TimeFits
      <4> QED BY <3>1, <4>1, SoleWriter DEF Writes
    <3> QED BY <1>1, <3>2, <3>3 DEF TimeFits
  <2>1. CASE Begin(p) \/ ImportReads(p) \/ CheckParity(p) \/ ReadEarlierView(p) \/ Ends(p)
    BY <1>2, <2>0, <2>1 DEF Begin, ImportReads, CheckParity, ReadEarlierView, Ends, fileVars, neo4jVars
  <2>2. CASE CheckFails(p)
    <3>1. /\ author' = [author EXCEPT ![Target[p]]["terminal_failure"] = p]
          /\ UNCHANGED namespace
      BY <2>2 DEF CheckFails, Put, neo4jVars
    <3>2. author'[d]["fact_graph"] = author[d]["fact_graph"]
      BY <1>1, <3>1, RunAssumption, ArtifactFacts
    <3> QED BY <1>2, <2>0, <3>1, <3>2
  <2>3. CASE Write(p)
    <3> DEFINE t == Target[p]
    <3>1. /\ Running(p) /\ at[p] \in 1 .. 20 /\ t \in Directories
          /\ author' = [author EXCEPT ![t] = [author[t] EXCEPT ![Steps[at[p]]] = p]]
          /\ namespace' = namespace
      BY <2>3, WriteEffect
    <3>2. ProgressFits(p)
      BY <3>1, CallAtWork
    <3> HIDE DEF t
    <3>3. CASE d = t /\ Steps[at[p]] = "fact_graph"
      <4>1. author[d]["fact_graph"] = Nobody
        BY <3>1, <3>2, <3>3, StepFacts DEF ProgressFits, t, Unwritten
      <4> QED BY <1>2, <2>0, <3>1, <4>1
    <3>4. CASE ~(d = t /\ Steps[at[p]] = "fact_graph")
      <4>1. author'[d]["fact_graph"] = author[d]["fact_graph"]
        BY <1>1, <3>1, <3>4
      <4> QED BY <1>2, <2>0, <3>1, <4>1
    <3> QED BY <3>3, <3>4
  <2>4. CASE ImportCommits(p)
    <3>1. /\ UNCHANGED author /\ Running(p) /\ StepOf(p) = "import"
          /\ \E x : namespace' = [namespace EXCEPT ![Target[p]] = x]
      BY <2>4 DEF ImportCommits, Commits, fileVars
    <3>2. at[p] = 13
      <4>1. at[p] \in 1 .. 20 /\ Steps[at[p]] = Steps[13]
        BY <3>1, StepFacts DEF StepOf
      <4> QED BY <4>1, StepsDistinct
    <3>3. author[Target[p]]["fact_graph"] # Nobody
      BY <3>2, WriterFacts, RunAssumption DEF Writes
    <3>4. d = Target[p] \/ namespace'[d] = namespace[d]
      BY <1>1, <3>1
    <3> QED BY <1>2, <2>0, <3>1, <3>3, <3>4
  <2> QED BY <1>3, <2>1, <2>2, <2>3, <2>4 DEF Run
<1>4. ASSUME NEW e \in Directories, Rebuild(e)
      PROVE  /\ completed[d] \in {0, completed'[d]} \/ rebuild[d].beside
             /\ namespace'[d] # {} => author[d]["fact_graph"] # Nobody
             /\ author[d]["fact_graph"] \in {Nobody, author'[d]["fact_graph"]}
  <2>1. rebuild[e].at # "idle" => author[e]["fact_graph"] # Nobody
    BY DEF DirectoryInv, ProjectionFits, Idle
  <2>2. CASE \/ RebuildBegins(e) \/ RebuildReads(e) \/ RebuildChecks(e) \/ RebuildReadsView(e)
             \/ RebuildFails(e)
    BY <1>1, <1>2, <2>2 DEF RebuildBegins, RebuildReads, RebuildChecks, RebuildReadsView, RebuildFails,
                            fileVars, neo4jVars
  <2>3. CASE RebuildCommits(e)
    <3>1. /\ rebuild[e].at = "import" /\ UNCHANGED <<completed, author>>
          /\ \E x : namespace' = [namespace EXCEPT ![e] = x]
      BY <2>3 DEF RebuildCommits, Commits, fileVars
    <3>2. d = e \/ namespace'[d] = namespace[d]
      BY <1>1, <3>1
    <3> QED BY <1>2, <2>1, <3>1, <3>2
  <2>4. CASE RebuildWritesDiff(e) \/ RebuildWritesView(e)
    <3>1. /\ namespace' = namespace
          /\ \/ completed' = completed
             \/ /\ rebuild[e].at = "view"
                /\ completed' = [completed EXCEPT ![e] = Stamp(rebuild[e].earlier)]
          /\ \/ author' = [author EXCEPT ![e] = [author[e] EXCEPT !["edge_diff"] = author[e]["fact_graph"]]]
             \/ author' = [author EXCEPT ![e] = [author[e] EXCEPT !["graph_view"] = author[e]["fact_graph"]]]
      <4>1. CASE RebuildWritesDiff(e)
        <5>1. namespace' = namespace /\ completed' = completed
          BY <4>1 DEF RebuildWritesDiff, neo4jVars
        <5>2. author' = [author EXCEPT ![e] = [author[e] EXCEPT !["edge_diff"] = author[e]["fact_graph"]]]
          BY <4>1 DEF RebuildWritesDiff, Put
        <5> QED BY <5>1, <5>2
      <4>2. CASE RebuildWritesView(e)
        <5>1. /\ namespace' = namespace /\ rebuild[e].at = "view"
              /\ completed' = [completed EXCEPT ![e] = Stamp(rebuild[e].earlier)]
          BY <4>2 DEF RebuildWritesView, neo4jVars
        <5>2. author' = [author EXCEPT ![e] = [author[e] EXCEPT !["graph_view"] = author[e]["fact_graph"]]]
          BY <4>2 DEF RebuildWritesView, Put
        <5> QED BY <5>1, <5>2
      <4> QED BY <2>4, <4>1, <4>2
    <3>2. completed[d] \in {0, completed'[d]} \/ rebuild[d].beside
      <4>1. CASE d = e
        BY <1>1, <3>1, <4>1 DEF Stamp, TimeFits
      <4>2. CASE d # e
        BY <1>1, <3>1, <4>2
      <4> QED BY <4>1, <4>2
    <3>3. author'[d]["fact_graph"] = author[d]["fact_graph"]
      <4>1. CASE d = e
        BY <1>1, <3>1, <4>1
      <4>2. CASE d # e
        BY <1>1, <3>1, <4>2
      <4> QED BY <4>1, <4>2
    <3> QED BY <1>2, <3>1, <3>2, <3>3
  <2> QED BY <1>4, <2>2, <2>3, <2>4 DEF Rebuild
<1>5. CASE Configure \/ UNCHANGED vars
  BY <1>2, <1>5 DEF Configure, vars, fileVars, neo4jVars
<1> QED BY <1>3, <1>4, <1>5 DEF Next

\* fact_graph.json is the source of truth: nothing is projected before it is
\* on disk, nothing replaces it, and no rebuild that begins after the call
\* makes its run look newer (production_runner.py:371-384,
\* graph_view.py:166, 249-256).
THEOREM GraphStaysSource == Spec /\ []Alone => SourceOfTruth
<1>1. DirectoryInv /\ TimeInv /\ [Next]_vars =>
        [\A d \in Directories :
           /\ completed[d] \in {0, completed'[d]} \/ rebuild[d].beside
           /\ namespace'[d] # {} => author[d]["fact_graph"] # Nobody
           /\ author[d]["fact_graph"] \in {Nobody, author'[d]["fact_graph"]}]_vars
  BY SourceKept
<1> QED BY <1>1, DirectoryInvariant, TimeInvariant, PTL DEF SourceOfTruth, Spec
=============================================================================
