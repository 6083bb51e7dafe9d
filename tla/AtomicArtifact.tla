--------------------------- MODULE AtomicArtifact ---------------------------
(***************************************************************************)
(* _atomic_write (src/runtime/artifact_store.py): several writers of one   *)
(* path, each through a temporary file of its own.  A call may raise, be   *)
(* interrupted or die at any point, and the power may fail: then a rename  *)
(* that was not yet on disk is undone, and a file that was not             *)
(* synchronized may have lost its content.                                 *)
(***************************************************************************)
CONSTANTS
  Writers,  \* calls of _atomic_write on one path, each with its content
  Old       \* what the path held before, perhaps nothing

VARIABLES
  pc,       \* where each call is
  temp,     \* its temporary file
  path,     \* whose content the path shows
  survives  \* what the path may show after a power failure

artifactVars == <<pc, temp, path, survives>>

\* A file whose content was lost is of no writer.
Lost == [lost |-> TRUE]
Calls == {"opened", "write", "sync", "replace", "replaced", "unlink",
          "returned", "raised", "died"}
Temps == {"none", "partial", "whole", "synced"}

\* Inside the try: what is raised here goes through the handler.
Guarded == {"write", "sync", "replace", "replaced"}

ArtifactInit ==
  /\ pc = [w \in Writers |-> "mkstemp"]
  /\ temp = [w \in Writers |-> "none"]
  /\ path = Old /\ survives = {Old}

Step(w, from, to, file) ==
  /\ pc[w] = from
  /\ pc' = [pc EXCEPT ![w] = to]
  /\ temp' = [temp EXCEPT ![w] = file]

\* mkstemp makes a file no other writer has; the try begins after it.
Create(w) == Step(w, "mkstemp", "opened", "partial") /\ UNCHANGED <<path, survives>>
Enter(w) == Step(w, "opened", "write", "partial") /\ UNCHANGED <<path, survives>>
Fill(w) == Step(w, "write", "sync", "whole") /\ UNCHANGED <<path, survives>>
Sync(w) == Step(w, "sync", "replace", "synced") /\ UNCHANGED <<path, survives>>

\* os.replace: one atomic step for every reader, still inside the try.
Replace(w) ==
  /\ Step(w, "replace", "replaced", "none")
  /\ path' = w
  /\ survives' = survives \cup {IF temp[w] = "synced" THEN w ELSE Lost}

Return(w) == Step(w, "replaced", "returned", temp[w]) /\ UNCHANGED <<path, survives>>

\* Any call in the try raises, an interrupt included, the rename done or not:
\* except BaseException.
Raises(w) ==
  /\ \E s \in Guarded : Step(w, s, "unlink", temp[w])
  /\ UNCHANGED <<path, survives>>

\* mkstemp fails, or an interrupt comes before the try: no handler.
RaisesOutside(w) ==
  /\ \E s \in {"mkstemp", "opened"} : Step(w, s, "raised", temp[w])
  /\ UNCHANGED <<path, survives>>

\* The handler removes the file, or its unlink raises in turn and leaves it.
Unlink(w) ==
  /\ \E left \in {"none", temp[w]} : Step(w, "unlink", "raised", left)
  /\ UNCHANGED <<path, survives>>

Dies(w) ==
  /\ \E s \in {"mkstemp", "opened", "unlink"} \cup Guarded : Step(w, s, "died", temp[w])
  /\ UNCHANGED <<path, survives>>

\* The file system writes its metadata at some time.
Flush == survives' = {path} /\ UNCHANGED <<pc, temp, path>>

\* A rename that is undone brings its temporary file back.
PowerFails ==
  /\ path' \in survives
  /\ survives' = {path'}
  /\ pc' = [w \in Writers |-> IF pc[w] \in {"returned", "raised"} THEN pc[w] ELSE "died"]
  /\ \E undone \in SUBSET ((survives \cap Writers) \ {path'}) :
       temp' = [w \in Writers |-> IF w \in undone THEN "synced" ELSE temp[w]]

WriteAtomic(w) ==
  \/ Create(w) \/ Enter(w) \/ Fill(w) \/ Sync(w) \/ Replace(w) \/ Return(w)
  \/ Raises(w) \/ RaisesOutside(w) \/ Unlink(w) \/ Dies(w)

ArtifactNext == (\E w \in Writers : WriteAtomic(w)) \/ Flush \/ PowerFails

ArtifactSpec == ArtifactInit /\ [][ArtifactNext]_artifactVars
-----------------------------------------------------------------------------
ArtifactTypeOK ==
  /\ pc \in [Writers -> Calls \cup {"mkstemp"}]
  /\ temp \in [Writers -> Temps]
  /\ path \in survives

\* A reader, before and after any crash, finds the old file or one writer's
\* whole file, never a part (artifact_store.py:25-38).
NeverTorn == survives \subseteq Writers \cup {Old} /\ path \in Writers \cup {Old}

\* What the path shows is never also left behind: a call whose content shows
\* got past its rename and its temporary file is gone, so whatever temporary
\* file a death, an interrupt outside the try, a failed unlink or a power
\* failure leaves may be deleted at any time (artifact_store.py:27-37).
LeftoversNeverShow ==
  \A w \in Writers \ {Old} : path = w =>
    /\ temp[w] = "none"
    /\ pc[w] \in {"replaced", "unlink", "returned", "raised", "died"}

\* Readers may take the path for an atomic register (artifact_store.py:25-38):
\* the protocol of temporary files, with its failures, implements one.
Register == INSTANCE AtomicRegister WITH
  Contents <- Writers \cup {Old}, Initial <- Old, content <- path
ImplementsRegister == Register!Spec
=============================================================================
