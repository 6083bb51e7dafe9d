------------------------ MODULE Neo4jProjectionProofs ------------------------
(***************************************************************************)
(* However imports overlap: no commit leaves a relationship without its    *)
(* nodes, and a parity diff that passes proves that the database showed    *)
(* the document.  One import at a time: the namespace is whole or empty at *)
(* every moment, a lone import fails parity only for what is foreign to    *)
(* it, and readers see what ProjectedNamespace promises.  For every set of *)
(* importers and documents, whatever the database held, any attempts.      *)
(***************************************************************************)
EXTENDS Neo4jProjection, FiniteSetTheorems, TLAPS

Stages == {"idle"} \cup IndexStages \cup TxStages \cup ReadStages \cup Ended

\* The variables that hold one value for each importer.
ShapeInv ==
  /\ doc = [w \in Writers |-> doc[w]]
  /\ pc \in [Importers -> Stages]
  /\ dropped = [i \in Importers |-> dropped[i]]
  /\ made = [i \in Importers |-> made[i]]
  /\ links = [i \in Importers |-> links[i]]
  /\ diff = [i \in Importers |-> diff[i]]

Active(i) == pc[i] \notin {"idle"} \cup Ended

OneActive == \A i, j \in Importers : Active(i) /\ Active(j) => i = j

RelsJoinNodes == \A r \in rels : {r.source, r.target} \subseteq nodes

\* What the open transaction of an importer has done, by its stage.
TxInv ==
  \A i \in Importers :
    /\ pc[i] \in {"nodes", "edges", "commit"} => dropped[i] = nodes
    /\ pc[i] \notin {"nodes", "edges", "commit"} => dropped[i] = {}
    /\ made[i] = IF pc[i] \in {"edges", "commit"} THEN Image(i) ELSE {}
    /\ links[i] = IF pc[i] = "commit" THEN Linked(i, Image(i)) ELSE {}

\* An importer that got past its transaction left its document behind.
ImportedInv ==
  \A i \in Importers : pc[i] \in ReadStages /\ Dangling(doc[i]) = {} => Holds(i)

SerialInv ==
  serial /\ ShapeInv /\ OneActive /\ RelsJoinNodes /\ TxInv /\ ImportedInv /\ WholeOrEmpty

\* One of the queries that read back.
Reading(i) ==
  \/ ReadNodes(i) \/ ReadEdges(i) \/ ReadMissing(i) \/ ReadLabels(i)
  \/ ReadTypes(i) \/ ReadIndexes(i) \/ ReadBlank(i)

\* What such a query leaves alone, and where it leads.
LEMMA ReadingFrame ==
  ASSUME NEW i \in Importers, Reading(i)
  PROVE  /\ UNCHANGED <<given, store, indexes, attempt, tx, diff>>
         /\ pc[i] \in ReadStages
         /\ \E s \in ReadStages : pc' = [pc EXCEPT ![i] = s]
         /\ \E found : read' = [read EXCEPT ![i] = found]
<1>1. ASSUME NEW at \in ReadStages, NEW next \in ReadStages, NEW found, Reads(i, at, found, next)
      PROVE  /\ UNCHANGED <<given, store, indexes, attempt, tx, diff>>
             /\ pc[i] \in ReadStages
             /\ \E s \in ReadStages : pc' = [pc EXCEPT ![i] = s]
             /\ \E f : read' = [read EXCEPT ![i] = f]
  BY <1>1 DEF Reads, Goto
<1>2. {"readNodes", "readEdges", "readMissing", "readLabels", "readTypes",
       "readIndexes", "readBlank", "compare"} \subseteq ReadStages
  BY DEF ReadStages
<1> QED BY <1>1, <1>2 DEF Reading, ReadNodes, ReadEdges, ReadMissing, ReadLabels, ReadTypes,
             ReadIndexes, ReadBlank

LEMMA LinkedJoinsVisible ==
  ASSUME NEW w, NEW V, NEW r \in Linked(w, V)
  PROVE  {r.source, r.target} \subseteq V
BY DEF Linked

LEMMA SerialInit == Init /\ serial => SerialInv
<1> SUFFICES ASSUME Init, serial PROVE SerialInv
  OBVIOUS
<1>1. ShapeInv
  <2>1. doc = [w \in Writers |-> doc[w]]
    BY DEF Init
  <2>2. pc \in [Importers -> Stages]
    BY DEF Init, Stages
  <2>3. /\ dropped = [i \in Importers |-> dropped[i]] /\ made = [i \in Importers |-> made[i]]
        /\ links = [i \in Importers |-> links[i]] /\ diff = [i \in Importers |-> diff[i]]
    BY DEF Init
  <2> QED BY <2>1, <2>2, <2>3 DEF ShapeInv
<1>2. WholeOrEmpty /\ RelsJoinNodes
  BY LinkedJoinsVisible DEF Init, WholeOrEmpty, store, Holds, Writers, RelsJoinNodes
<1>3. OneActive /\ TxInv /\ ImportedInv
  BY DEF Init, OneActive, Active, TxInv, ImportedInv, ReadStages
<1> QED BY <1>1, <1>2, <1>3 DEF SerialInv

\* A step that leaves the store and the transactions alone.
LEMMA QuietStep ==
  ASSUME SerialInv, NEW i \in Importers, NEW s \in Stages,
         UNCHANGED <<serial, doc, store, tx>>, diff' = [k \in Importers |-> diff'[k]],
         pc' = [pc EXCEPT ![i] = s],
         pc[i] \notin {"nodes", "edges", "commit"}, s \notin {"nodes", "edges", "commit"},
         s \in {"idle"} \cup Ended \/ \A j \in Importers \ {i} : ~Active(j),
         s \in ReadStages => pc[i] \in ReadStages \/ Dangling(doc[i]) # {}
  PROVE  SerialInv'
<1>1. /\ serial' = serial /\ doc' = doc /\ nodes' = nodes /\ rels' = rels
      /\ dropped' = dropped /\ made' = made /\ links' = links
  BY DEF store, tx
<1>2. pc \in [Importers -> Stages]
  BY DEF SerialInv, ShapeInv
<1>3. ShapeInv'
  BY <1>1, <1>2 DEF SerialInv, ShapeInv
<1>4. OneActive'
  BY <1>2 DEF SerialInv, OneActive, Active
<1>5. RelsJoinNodes'
  BY <1>1 DEF SerialInv, RelsJoinNodes
<1>6. TxInv'
  <2>1. \A k \in Importers : Image(k)' = Image(k) /\ Linked(k, Image(k))' = Linked(k, Image(k))
    BY <1>1 DEF Image, Linked
  <2>2. \A k \in Importers \ {i} : pc'[k] = pc[k]
    BY <1>2
  <2>3. pc'[i] \notin {"nodes", "edges", "commit"}
    BY <1>2
  <2> QED BY <1>1, <2>1, <2>2, <2>3 DEF SerialInv, TxInv
<1>7. ImportedInv'
  <2>1. ASSUME NEW k \in Importers, pc'[k] \in ReadStages, Dangling(doc[k]) = {} PROVE Holds(k)
    <3>1. pc[k] \in ReadStages
      BY <1>2, <2>1
    <3> QED BY <2>1, <3>1 DEF SerialInv, ImportedInv
  <2>2. \A k \in Importers : Holds(k)' <=> Holds(k)
    BY <1>1 DEF Holds, Image, Linked
  <2> QED BY <1>1, <2>1, <2>2 DEF ImportedInv
<1>8. WholeOrEmpty'
  BY <1>1 DEF SerialInv, WholeOrEmpty, store, Holds, Image, Linked
<1> QED BY <1>1, <1>3, <1>4, <1>5, <1>6, <1>7, <1>8 DEF SerialInv

\* A step inside the transaction: what it has done follows its stage.
LEMMA TxStep ==
  ASSUME SerialInv, NEW i \in Importers, NEW s \in TxStages,
         UNCHANGED <<serial, doc, store, diff>>,
         pc[i] \in TxStages, pc' = [pc EXCEPT ![i] = s],
         \/ dropped' = dropped
         \/ \E v : dropped' = [dropped EXCEPT ![i] = v],
         \/ made' = made
         \/ \E v : made' = [made EXCEPT ![i] = v],
         \/ links' = links
         \/ \E v : links' = [links EXCEPT ![i] = v],
         dropped'[i] = IF s \in {"nodes", "edges", "commit"} THEN nodes ELSE {},
         made'[i] = IF s \in {"edges", "commit"} THEN Image(i) ELSE {},
         links'[i] = IF s = "commit" THEN Linked(i, Image(i)) ELSE {}
  PROVE  SerialInv'
<1>1. serial' = serial /\ doc' = doc /\ nodes' = nodes /\ rels' = rels /\ diff' = diff
  BY DEF store
<1>2. pc \in [Importers -> Stages] /\ s \in Stages /\ Active(i)
  BY DEF SerialInv, ShapeInv, Stages, Active, TxStages, Ended
<1>3. /\ dropped = [k \in Importers |-> dropped[k]] /\ made = [k \in Importers |-> made[k]]
      /\ links = [k \in Importers |-> links[k]]
  BY DEF SerialInv, ShapeInv
<1>4. /\ \A k \in Importers \ {i} : dropped'[k] = dropped[k] /\ made'[k] = made[k] /\ links'[k] = links[k]
  BY <1>3
<1>5. ShapeInv'
  <2>1. pc' \in [Importers -> Stages]
    BY <1>2
  <2>2. dropped' = [k \in Importers |-> dropped'[k]]
    BY <1>3
  <2>3. made' = [k \in Importers |-> made'[k]]
    BY <1>3
  <2>4. links' = [k \in Importers |-> links'[k]]
    BY <1>3
  <2> QED BY <1>1, <2>1, <2>2, <2>3, <2>4 DEF SerialInv, ShapeInv
<1>6. OneActive'
  BY <1>2 DEF SerialInv, OneActive, Active
<1>7. RelsJoinNodes'
  BY <1>1 DEF SerialInv, RelsJoinNodes
<1>8. TxInv'
  <2>1. \A k \in Importers : Image(k)' = Image(k) /\ Linked(k, Image(k))' = Linked(k, Image(k))
    BY <1>1 DEF Image, Linked
  <2>2. \A k \in Importers \ {i} : pc'[k] = pc[k]
    BY <1>2
  <2>3. pc'[i] = s
    BY <1>2
  <2>4. ASSUME NEW k \in Importers
        PROVE /\ pc'[k] \in {"nodes", "edges", "commit"} => dropped'[k] = nodes'
              /\ pc'[k] \notin {"nodes", "edges", "commit"} => dropped'[k] = {}
              /\ made'[k] = IF pc'[k] \in {"edges", "commit"} THEN Image(k) ELSE {}
              /\ links'[k] = IF pc'[k] = "commit" THEN Linked(k, Image(k)) ELSE {}
    <3>1. CASE k = i
      BY <1>1, <2>3, <3>1
    <3>2. CASE k # i
      BY <1>1, <1>4, <2>2, <3>2 DEF SerialInv, TxInv
    <3> QED BY <3>1, <3>2
  <2> QED BY <2>1, <2>4 DEF TxInv
<1>9. ImportedInv'
  <2>1. ASSUME NEW k \in Importers, pc'[k] \in ReadStages, Dangling(doc[k]) = {} PROVE Holds(k)
    <3>1. pc[k] \in ReadStages
      BY <1>2, <2>1 DEF TxStages, ReadStages
    <3> QED BY <2>1, <3>1 DEF SerialInv, ImportedInv
  <2>2. \A k \in Importers : Holds(k)' <=> Holds(k)
    BY <1>1 DEF Holds, Image, Linked
  <2> QED BY <1>1, <2>1, <2>2 DEF ImportedInv
<1>10. WholeOrEmpty'
  BY <1>1 DEF SerialInv, WholeOrEmpty, store, Holds, Image, Linked
<1> QED BY <1>1, <1>5, <1>6, <1>7, <1>8, <1>9, <1>10 DEF SerialInv

LEMMA OthersIdle ==
  ASSUME SerialInv, NEW i \in Importers, Active(i)
  PROVE  \A j \in Importers \ {i} : ~Active(j)
BY DEF SerialInv, OneActive

LEMMA CommitStep ==
  ASSUME SerialInv, NEW i \in Importers, Commit(i)
  PROVE  SerialInv'
<1>1. /\ pc \in [Importers -> Stages] /\ pc[i] = "commit" /\ Active(i)
      /\ serial' = serial /\ doc' = doc /\ diff' = diff
  BY DEF Commit, SerialInv, ShapeInv, Active, Ended, given
<1>2. PICK s \in {"readNodes", "raised"} : pc' = [pc EXCEPT ![i] = s]
  BY DEF Commit, Goto
<1>3. /\ dropped[i] = nodes /\ made[i] = Image(i) /\ links[i] = Linked(i, Image(i))
  BY <1>1 DEF SerialInv, TxInv
<1>4. nodes' = Image(i)
  BY <1>3 DEF Commit, Apply, Visible
<1>5. rels' = Linked(i, Image(i))
  <2>1. {r \in rels : {r.source, r.target} \cap nodes = {}} = {}
    BY DEF SerialInv, RelsJoinNodes
  <2> QED BY <1>3, <2>1 DEF Commit, Apply
<1>6. \A k \in Importers \ {i} : ~Active(k)
  BY <1>1, OthersIdle
<1>7. \A k \in Importers : dropped'[k] = {} /\ made'[k] = {} /\ links'[k] = {}
  <2>1. \A k \in Importers \ {i} : dropped[k] = {} /\ made[k] = {} /\ links[k] = {}
    BY <1>6 DEF SerialInv, TxInv, Active, Ended
  <2>2. /\ dropped = [k \in Importers |-> dropped[k]] /\ made = [k \in Importers |-> made[k]]
        /\ links = [k \in Importers |-> links[k]]
    BY DEF SerialInv, ShapeInv
  <2> QED BY <2>1, <2>2 DEF Commit, EndTx
<1>8. ShapeInv'
  <2>1. pc' \in [Importers -> Stages]
    BY <1>1, <1>2 DEF Stages, ReadStages, Ended
  <2>2. /\ dropped' = [k \in Importers |-> dropped'[k]] /\ made' = [k \in Importers |-> made'[k]]
        /\ links' = [k \in Importers |-> links'[k]]
    BY DEF Commit, EndTx, SerialInv, ShapeInv
  <2> QED BY <1>1, <2>1, <2>2 DEF SerialInv, ShapeInv
<1>9. OneActive'
  BY <1>1, <1>2, <1>6 DEF OneActive, Active
<1>10. Image(i)' = Image(i) /\ Linked(i, Image(i))' = Linked(i, Image(i))
  BY <1>1 DEF Image, Linked
<1>11. Holds(i)'
  BY <1>4, <1>5, <1>10 DEF Holds
<1>12. RelsJoinNodes'
  BY <1>4, <1>5, LinkedJoinsVisible DEF RelsJoinNodes
<1>13. \A k \in Importers : pc'[k] \notin TxStages
  BY <1>1, <1>2, <1>6 DEF Active, TxStages, Ended
<1>14. TxInv'
  BY <1>7, <1>13 DEF TxInv, TxStages
<1>15. ImportedInv'
  <2>1. \A k \in Importers : pc'[k] \in ReadStages => k = i
    BY <1>1, <1>2, <1>6 DEF Active, ReadStages, Ended
  <2> QED BY <1>11, <2>1 DEF ImportedInv
<1>16. WholeOrEmpty'
  BY <1>11 DEF WholeOrEmpty, Writers
<1> QED BY <1>1, <1>8, <1>9, <1>12, <1>14, <1>15, <1>16 DEF SerialInv

LEMMA FailedTxStep ==
  ASSUME SerialInv, NEW i \in Importers, TxFails(i)
  PROVE  SerialInv'
<1>1. PICK s \in {"check", "raised"} : pc' = [pc EXCEPT ![i] = s]
  BY DEF TxFails, Goto
<1>2. /\ pc \in [Importers -> Stages] /\ pc[i] \in TxStages /\ Active(i)
      /\ serial' = serial /\ doc' = doc /\ nodes' = nodes /\ rels' = rels /\ diff' = diff
  BY DEF TxFails, RollBack, store, given, SerialInv, ShapeInv, Active, TxStages, Ended
<1>3. \A k \in Importers \ {i} : ~Active(k)
  BY <1>2, OthersIdle
<1>4. \A k \in Importers : dropped'[k] = {} /\ made'[k] = {} /\ links'[k] = {}
  <2>1. \A k \in Importers \ {i} : dropped[k] = {} /\ made[k] = {} /\ links[k] = {}
    BY <1>3 DEF SerialInv, TxInv, Active, Ended
  <2>2. /\ dropped = [k \in Importers |-> dropped[k]] /\ made = [k \in Importers |-> made[k]]
        /\ links = [k \in Importers |-> links[k]]
    BY DEF SerialInv, ShapeInv
  <2> QED BY <2>1, <2>2 DEF TxFails, RollBack, EndTx
<1>5. ShapeInv'
  <2>1. pc' \in [Importers -> Stages]
    BY <1>1, <1>2 DEF Stages, TxStages, Ended
  <2>2. /\ dropped' = [k \in Importers |-> dropped'[k]] /\ made' = [k \in Importers |-> made'[k]]
        /\ links' = [k \in Importers |-> links'[k]]
    BY DEF TxFails, RollBack, EndTx, SerialInv, ShapeInv
  <2> QED BY <1>2, <2>1, <2>2 DEF SerialInv, ShapeInv
<1>6. OneActive'
  BY <1>1, <1>2, <1>3 DEF OneActive, Active
<1>7. RelsJoinNodes'
  BY <1>2 DEF SerialInv, RelsJoinNodes
<1>8. TxInv'
  <2>1. \A k \in Importers : pc'[k] \notin {"nodes", "edges", "commit"}
    BY <1>1, <1>2, <1>3 DEF Active, Ended
  <2> QED BY <1>4, <2>1 DEF TxInv
<1>9. ImportedInv'
  <2>1. \A k \in Importers : pc'[k] \notin ReadStages
    BY <1>1, <1>2, <1>3 DEF Active, Ended, ReadStages
  <2> QED BY <2>1 DEF ImportedInv
<1>10. WholeOrEmpty'
  BY <1>2 DEF SerialInv, WholeOrEmpty, store, Holds, Image, Linked
<1> QED BY <1>2, <1>5, <1>6, <1>7, <1>8, <1>9, <1>10 DEF SerialInv

\* One step of one importer, while the others wait or have ended.
LEMMA ImportStep ==
  ASSUME SerialInv, NEW i \in Importers, Import(i)
  PROVE  SerialInv'
<1> DEFINE Late == {"nodes", "edges", "commit"}
<1>0. /\ pc \in [Importers -> Stages] /\ diff = [k \in Importers |-> diff[k]]
      /\ dropped = [k \in Importers |-> dropped[k]] /\ made = [k \in Importers |-> made[k]]
      /\ links = [k \in Importers |-> links[k]]
  BY DEF SerialInv, ShapeInv
<1>1. CASE Begin(i)
  <2>1. \A j \in Importers \ {i} : ~Active(j)
    BY <1>1 DEF Begin, Active, SerialInv
  <2>2. PICK s \in {"nodeIndex", "raised"} : pc' = [pc EXCEPT ![i] = s]
    BY <1>1 DEF Begin, Goto
  <2>3. s \in Stages /\ s \notin Late /\ s \notin ReadStages
    BY DEF Stages, IndexStages, Ended, ReadStages
  <2>4. UNCHANGED <<serial, doc, store, tx>> /\ diff' = diff /\ pc[i] = "idle"
    BY <1>1 DEF Begin, given
  <2> QED BY <1>0, <2>1, <2>2, <2>3, <2>4, QuietStep
<1>2. CASE CreateNodeIndex(i) \/ CreateRelationIndex(i)
  <2>1. pc[i] \in IndexStages /\ Active(i)
    BY <1>2 DEF CreateNodeIndex, CreateRelationIndex, IndexStages, Active, Ended
  <2>2. PICK s \in {"relationIndex", "check", "readNodes"} :
          pc' = [pc EXCEPT ![i] = s] /\ (s = "readNodes" => Dangling(doc[i]) # {})
    BY <1>2 DEF CreateNodeIndex, CreateRelationIndex, Goto
  <2>3. s \in Stages /\ s \notin Late /\ (s \in ReadStages => s = "readNodes")
    BY DEF Stages, IndexStages, TxStages, ReadStages
  <2>4. UNCHANGED <<serial, doc, store, tx>> /\ diff' = diff /\ pc[i] \notin Late
    BY <1>2, <2>1 DEF CreateNodeIndex, CreateRelationIndex, CreateIndex, given, IndexStages
  <2> QED BY <1>0, <2>1, <2>2, <2>3, <2>4, OthersIdle, QuietStep
<1>3. CASE CheckOwnership(i)
  <2>1. pc[i] = "check" /\ UNCHANGED <<serial, doc, store, diff, tx>> /\ Active(i)
    BY <1>3 DEF CheckOwnership, Active, Ended, given
  <2>2. dropped[i] = {} /\ made[i] = {} /\ links[i] = {}
    BY <2>1 DEF SerialInv, TxInv
  <2>3. CASE pc' = [pc EXCEPT ![i] = "delete"]
    BY <2>1, <2>2, <2>3, TxStep DEF TxStages, tx
  <2>4. CASE pc' = [pc EXCEPT ![i] = "raised"]
    <3>1. "raised" \in Stages /\ "raised" \in Ended /\ "raised" \notin ReadStages
      BY DEF Stages, Ended, ReadStages
    <3> QED BY <1>0, <2>1, <2>4, <3>1, QuietStep
  <2> QED BY <1>3, <2>3, <2>4 DEF CheckOwnership, Goto
<1>4. CASE DeleteNamespace(i)
  <2>1. /\ pc[i] = "delete" /\ UNCHANGED <<serial, doc, store, diff>> /\ made' = made /\ links' = links
        /\ pc' = [pc EXCEPT ![i] = "nodes"]
        /\ dropped' = [dropped EXCEPT ![i] = Visible(i)]
    BY <1>4 DEF DeleteNamespace, Goto, given
  <2>2. dropped[i] = {} /\ made[i] = {} /\ links[i] = {}
    BY <2>1 DEF SerialInv, TxInv
  <2>3. dropped'[i] = nodes
    BY <1>0, <2>1, <2>2 DEF Visible
  <2>4. \E v : dropped' = [dropped EXCEPT ![i] = v]
    BY <2>1
  <2>5. pc[i] \in TxStages /\ "nodes" \in TxStages
    BY <2>1 DEF TxStages
  <2>6. UNCHANGED <<serial, doc, store, diff>> /\ pc' = [pc EXCEPT ![i] = "nodes"]
    BY <2>1
  <2>7. made' = made /\ links' = links /\ made'[i] = {} /\ links'[i] = {}
    BY <2>1, <2>2
  <2> QED BY <2>3, <2>4, <2>5, <2>6, <2>7, TxStep
<1>5. CASE CreateNodes(i)
  <2>1. /\ pc[i] = "nodes" /\ UNCHANGED <<serial, doc, store, diff>> /\ dropped' = dropped /\ links' = links
        /\ pc' = [pc EXCEPT ![i] = "edges"]
        /\ made' = [made EXCEPT ![i] = Image(i)]
    BY <1>5 DEF CreateNodes, Goto, given
  <2>2. dropped[i] = nodes /\ links[i] = {}
    BY <2>1 DEF SerialInv, TxInv
  <2>3. made'[i] = Image(i)
    BY <1>0, <2>1
  <2> QED BY <2>1, <2>2, <2>3, TxStep DEF TxStages
<1>6. CASE CreateEdges(i)
  <2>1. /\ pc[i] = "edges" /\ UNCHANGED <<serial, doc, store, diff>> /\ dropped' = dropped /\ made' = made
        /\ pc' = [pc EXCEPT ![i] = "commit"]
        /\ links' = [links EXCEPT ![i] = Linked(i, Visible(i))]
    BY <1>6 DEF CreateEdges, Goto, given
  <2>2. dropped[i] = nodes /\ made[i] = Image(i)
    BY <2>1 DEF SerialInv, TxInv
  <2>3. Visible(i) = Image(i)
    BY <2>2 DEF Visible
  <2>4. links'[i] = Linked(i, Image(i))
    BY <1>0, <2>1, <2>3
  <2> QED BY <2>1, <2>2, <2>4, TxStep DEF TxStages
<1>7. CASE Commit(i)
  BY <1>7, CommitStep
<1>8. CASE TxFails(i)
  BY <1>8, FailedTxStep
<1>9. CASE Reading(i) \/ Compare(i) \/ Fails(i)
  <2>1. PICK s \in ReadStages \cup Ended :
          pc' = [pc EXCEPT ![i] = s] /\ (s = "raised" \/ pc[i] \in ReadStages)
    <3>1. CASE Reading(i)
      BY <3>1, ReadingFrame
    <3>2. CASE Compare(i) \/ Fails(i)
      BY <3>2 DEF Compare, Fails, Goto, ReadStages, Ended
    <3> QED BY <1>9, <3>1, <3>2
  <2>2. s \in Stages /\ s \notin Late /\ (s \in ReadStages => pc[i] \in ReadStages)
    BY <2>1 DEF Stages, ReadStages, Ended
  <2>3. pc[i] \in IndexStages \cup ReadStages
    <3>1. CASE Reading(i)
      BY <3>1, ReadingFrame
    <3> QED BY <1>9, <3>1 DEF Compare, Fails, ReadStages
  <2>4. Active(i) /\ pc[i] \notin Late
    BY <2>3 DEF Active, IndexStages, ReadStages, Ended
  <2>5. UNCHANGED <<serial, doc, store, tx>>
    <3>1. CASE Reading(i)
      BY <3>1, ReadingFrame DEF given
    <3> QED BY <1>9, <3>1 DEF Compare, Fails, given
  <2>6. diff' = [k \in Importers |-> diff'[k]]
    <3>1. CASE Reading(i)
      BY <1>0, <3>1, ReadingFrame
    <3> QED BY <1>0, <1>9, <3>1 DEF Compare, Fails
  <2> QED BY <2>1, <2>2, <2>4, <2>5, <2>6, OthersIdle, QuietStep
<1> QED BY <1>1, <1>2, <1>3, <1>4, <1>5, <1>6, <1>7, <1>8, <1>9 DEF Import, Reading

\* Whether imports overlap is decided once.
LEMMA StillSerial == ASSUME [Next]_vars PROVE UNCHANGED given
<1>1. ASSUME NEW i \in Importers, Import(i) PROVE UNCHANGED given
  <2>1. CASE Reading(i)
    BY <2>1, ReadingFrame
  <2> QED BY <1>1, <2>1 DEF Import, Reading, Begin, CreateNodeIndex, CreateRelationIndex, CreateIndex,
         CheckOwnership, DeleteNamespace, CreateNodes, CreateEdges, Commit, TxFails, Compare, Fails
<1> QED BY <1>1 DEF Next, vars

LEMMA SerialStep == ASSUME SerialInv, [Next]_vars PROVE SerialInv'
<1>1. CASE UNCHANGED vars
  <2>1. /\ serial' = serial /\ doc' = doc /\ nodes' = nodes /\ rels' = rels /\ pc' = pc
        /\ dropped' = dropped /\ made' = made /\ links' = links /\ diff' = diff
    BY <1>1 DEF vars, given, store, tx
  <2>2. ShapeInv' /\ OneActive' /\ RelsJoinNodes'
    BY <2>1 DEF SerialInv, ShapeInv, OneActive, Active, RelsJoinNodes
  <2>3. \A w \in Writers : Image(w)' = Image(w) /\ Linked(w, Image(w))' = Linked(w, Image(w))
    BY <2>1 DEF Image, Linked
  <2>4. TxInv'
    BY <2>1, <2>3 DEF SerialInv, TxInv, Writers
  <2>5. ImportedInv' /\ WholeOrEmpty'
    BY <2>1, <2>3 DEF SerialInv, ImportedInv, WholeOrEmpty, Holds, store, Writers
  <2> QED BY <2>1, <2>2, <2>4, <2>5 DEF SerialInv
<1>2. CASE \E i \in Importers : Import(i)
  BY <1>2, ImportStep
<1> QED BY <1>1, <1>2 DEF Next
-----------------------------------------------------------------------------
\* At every moment: who is active, what its transaction has done, and what
\* those that got past it left behind.
THEOREM SerialInvariant == Spec => [](serial => SerialInv)
<1>1. (serial => SerialInv) /\ [Next]_vars => (serial => SerialInv)'
  BY SerialStep, StillSerial DEF given
<1>2. Init => (serial => SerialInv)
  BY SerialInit
<1> QED BY <1>1, <1>2, PTL DEF Spec

\* One import at a time never leaves a torn namespace, whatever fails, is
\* retried or loses its reply (json_neo4j_parity.py:280-333).
THEOREM AlwaysWholeOrEmpty == Spec => []WholeOrEmpty
<1>1. (serial => SerialInv) => WholeOrEmpty
  BY DEF SerialInv, WholeOrEmpty
<1> QED BY <1>1, SerialInvariant, PTL

-----------------------------------------------------------------------------
(* What a lone import reads back and concludes.                            *)

\* A database that has no other index than the two has this one of them.
Has(held, kind, p) == held \subseteq ExpectedIndexes(p) => ExpectedIndex(kind, p) \in held
Provided(held, p) == Has(held, "node", p) /\ Has(held, "relation", p)

IndexInv ==
  \A i \in Importers :
    /\ pc[i] = "relationIndex" => Has(indexes, "node", doc[i].projection)
    /\ pc[i] \in TxStages \cup ReadStages => Provided(indexes, doc[i].projection)

\* What an importer has read by each of its stages.
ReadsWhole(i) ==
  Dangling(doc[i]) = {} =>
    /\ pc[i] \in ReadStages \ {"readNodes"} => read[i].nodes = Image(i)
    /\ pc[i] \in ReadStages \ {"readNodes", "readEdges"} => read[i].rels = Linked(i, Image(i))
    /\ pc[i] \in {"readLabels", "readTypes", "readIndexes", "readBlank", "compare"} =>
         read[i].missing \subseteq stray
    /\ pc[i] \in {"readTypes", "readIndexes", "readBlank", "compare"} =>
         read[i].labels = {doc[n.by].projection : n \in Image(i)}
    /\ pc[i] \in {"readIndexes", "readBlank", "compare"} =>
         read[i].types = {doc[r.by].projection : r \in Linked(i, Image(i))}
    /\ pc[i] \in {"readBlank", "compare"} =>
         Provided(read[i].indexes, doc[i].projection) /\ read[i].indexes \subseteq indexes
    /\ pc[i] = "compare" => read[i].blank \subseteq stray

ReadInv == \A i \in Importers : ReadsWhole(i)

Recorded(f) ==
  f = [nodes |-> f.nodes, rels |-> f.rels, missing |-> f.missing, labels |-> f.labels,
       types |-> f.types, indexes |-> f.indexes, blank |-> f.blank]

RecordInv ==
  /\ doc \in [Writers -> Documents]
  /\ attempt \in [Importers -> 1 .. MaxAttempts]
  /\ read = [i \in Importers |-> read[i]]
  /\ \A i \in Importers : Recorded(read[i])

ReaderInv == RecordInv /\ IndexInv /\ ReadInv /\ LoneImportPasses

LEMMA CreatedIndex ==
  ASSUME NEW i \in Importers, NEW kind \in {"node", "relation"}, CreateIndex(i, kind)
  PROVE  Has(indexes', kind, doc[i].projection) /\ indexes \subseteq indexes'
<1> DEFINE p == doc[i].projection
           x == ExpectedIndex(kind, p)
<1>1. indexes' = indexes \cup
        {z \in {x} : \A y \in indexes : y.name # z.name /\ <<y.on, y.over>> # <<z.on, z.over>>}
  BY DEF CreateIndex
<1>2. \A y \in ExpectedIndexes(p) : y.name = x.name \/ y.on = x.on => y = x
  BY DEF ExpectedIndexes, ExpectedIndex
<1>3. ASSUME indexes' \subseteq ExpectedIndexes(p), x \notin indexes' PROVE FALSE
  <2>1. PICK y \in indexes : y.name = x.name \/ <<y.on, y.over>> = <<x.on, x.over>>
    BY <1>1, <1>3
  <2>2. y \in ExpectedIndexes(p) /\ y \in indexes'
    BY <1>1, <1>3
  <2>3. y = x
    BY <1>2, <2>1, <2>2
  <2> QED BY <1>3, <2>2, <2>3
<1> QED BY <1>1, <1>3 DEF Has

LEMMA KeptIndexes ==
  ASSUME NEW held, NEW more, NEW p, NEW kind, Has(held, kind, p), held \subseteq more
  PROVE  Has(more, kind, p)
BY DEF Has

LEMMA ReaderInit == Init => ReaderInv
<1> SUFFICES ASSUME Init PROVE ReaderInv
  OBVIOUS
<1>1. RecordInv
  <2>1. 1 \in 1 .. MaxAttempts
    BY ImportersAssumption
  <2>2. attempt \in [Importers -> 1 .. MaxAttempts]
    BY <2>1 DEF Init
  <2>3. doc \in [Writers -> Documents]
    BY DocumentsAssumption DEF Init
  <2> QED BY <2>2, <2>3 DEF Init, RecordInv, NothingRead, Recorded
<1>2. IndexInv /\ ReadInv /\ LoneImportPasses
  BY DEF Init, IndexInv, ReadInv, ReadsWhole, LoneImportPasses, TxStages, ReadStages
<1> QED BY <1>1, <1>2 DEF ReaderInv

\* What the importer of a whole image reads is the image.
LEMMA ImageIsVisible ==
  ASSUME NEW i \in Importers, Holds(i)
  PROVE  /\ {n \in nodes : doc[n.by].projection = doc[i].projection} = Image(i)
         /\ {r \in rels : doc[r.by].projection = doc[i].projection} = Linked(i, Image(i))
<1>1. \A n \in Image(i) : n.by = i
  BY DEF Image
<1>2. \A r \in Linked(i, Image(i)) : r.by = i
  BY DEF Linked
<1> QED BY <1>1, <1>2 DEF Holds

\* Each edge of a document without dangling edges makes one relationship.
LEMMA LinkedEdges ==
  ASSUME NEW i \in Importers, Dangling(doc[i]) = {}
  PROVE  /\ \A e \in doc[i].edges : \E r \in Linked(i, Image(i)) : r.id = e.id
         /\ \A r \in Linked(i, Image(i)) : \E e \in doc[i].edges :
              r.id = e.id /\ r.by = i /\ r.source.entity = e.source /\ r.target.entity = e.target
<1>1. ASSUME NEW e \in doc[i].edges PROVE \E r \in Linked(i, Image(i)) : r.id = e.id
  <2> DEFINE from == [by |-> i, entity |-> e.source]
             to == [by |-> i, entity |-> e.target]
             r == [by |-> i, id |-> e.id, source |-> from, target |-> to]
  <2>1. e.source \in doc[i].nodes /\ e.target \in doc[i].nodes
    BY DEF Dangling
  <2>2. from \in Image(i) /\ to \in Image(i)
    BY <2>1 DEF Image
  <2>3. r \in Linked(i, Image(i))
    BY <2>2 DEF Linked
  <2> QED BY <2>3
<1>2. ASSUME NEW r \in Linked(i, Image(i))
      PROVE  \E e \in doc[i].edges :
               r.id = e.id /\ r.by = i /\ r.source.entity = e.source /\ r.target.entity = e.target
  BY DEF Linked
<1> QED BY <1>1, <1>2

LEMMA KeyedRecords ==
  ASSUME NEW records, NEW key, NEW f \in ByKey(records, key)
  PROVE  /\ \A k : k \in DOMAIN f <=> \E x \in records : key[x] = k
         /\ \A k \in DOMAIN f : f[k] \in records /\ key[f[k]] = k
BY DEF ByKey

\* The diff of an importer that has read its own image is empty, but for what
\* is foreign to it.
LEMMA DiffOfImage ==
  ASSUME doc \in [Writers -> Documents],
         NEW i \in Importers, Dangling(doc[i]) = {}, doc[i].nodes # {}, doc[i].edges # {},
         read[i].missing = {}, read[i].blank = {},
         read[i].nodes = Image(i), read[i].rels = Linked(i, Image(i)),
         read[i].labels = {doc[n.by].projection : n \in Image(i)},
         read[i].types = {doc[r.by].projection : r \in Linked(i, Image(i))},
         read[i].indexes = ExpectedIndexes(doc[i].projection),
         NEW node \in ByKey(read[i].nodes, [n \in read[i].nodes |-> n.entity]),
         NEW edge \in ByKey(read[i].rels, [r \in read[i].rels |-> r.id])
  PROVE  \A field \in DOMAIN ParityDiff(i, node, edge) : ParityDiff(i, node, edge)[field] = {}
<1> DEFINE d == doc[i]
           L == Linked(i, Image(i))
<1>1. d \in Documents
  BY DEF Writers
<1>2. /\ DOMAIN node = d.nodes
      /\ \A k \in d.nodes : node[k] \in Image(i) /\ node[k].by = i
  <2> DEFINE key == [n \in read[i].nodes |-> n.entity]
  <2>0. node \in ByKey(read[i].nodes, key) /\ \A x \in Image(i) : key[x] = x.entity
    OBVIOUS
  <2> HIDE DEF key, d
  <2>1. /\ \A k : k \in DOMAIN node <=> \E x \in read[i].nodes : key[x] = k
        /\ \A k \in DOMAIN node : node[k] \in read[i].nodes /\ key[node[k]] = k
    BY <2>0, KeyedRecords
  <2>2. \A k : k \in DOMAIN node <=> \E x \in Image(i) : x.entity = k
    BY <2>0, <2>1
  <2>3. \A k : k \in d.nodes <=> \E x \in Image(i) : x.entity = k
    <3>1. \A k \in d.nodes : [by |-> i, entity |-> k] \in Image(i)
      BY DEF Image, d
    <3>2. \A x \in Image(i) : x.entity \in d.nodes
      BY DEF Image, d
    <3> QED BY <3>1, <3>2
  <2>4. \A k \in DOMAIN node : node[k] \in Image(i)
    BY <2>1
  <2>5. \A x \in Image(i) : x.by = i
    BY DEF Image
  <2>6. DOMAIN node = d.nodes
    BY <2>2, <2>3
  <2> QED BY <2>4, <2>5, <2>6
<1>3. DOMAIN edge = {r.id : r \in L} /\ \A k \in DOMAIN edge : edge[k] \in L /\ edge[k].id = k
  <2> DEFINE key == [r \in read[i].rels |-> r.id]
  <2>0. edge \in ByKey(read[i].rels, key) /\ \A x \in L : key[x] = x.id
    OBVIOUS
  <2> HIDE DEF key
  <2>1. /\ \A k : k \in DOMAIN edge <=> \E x \in read[i].rels : key[x] = k
        /\ \A k \in DOMAIN edge : edge[k] \in read[i].rels /\ key[edge[k]] = k
    BY <2>0, KeyedRecords
  <2> HIDE DEF L
  <2>2. read[i].rels = L
    BY DEF L
  <2>3. \A k : k \in DOMAIN edge <=> \E x \in L : x.id = k
    BY <2>0, <2>1, <2>2
  <2>4. DOMAIN edge = {r.id : r \in L}
    <3> DEFINE keys == {r.id : r \in L}
               held == DOMAIN edge
    <3>1. \A k : k \in keys <=> \E x \in L : x.id = k
      OBVIOUS
    <3>2. \A k : k \in held <=> k \in keys
      BY <2>3, <3>1
    <3> HIDE DEF keys, held
    <3>3. held = keys
      BY <3>2
    <3> QED BY <3>3 DEF keys, held
  <2>5. \A k \in DOMAIN edge : edge[k] \in L /\ edge[k].id = k
    BY <2>0, <2>1, <2>2
  <2> QED BY <2>4, <2>5
<1>4. DOMAIN edge = Ids(d)
  BY <1>3, LinkedEdges DEF Ids
<1>5. ASSUME NEW e \in d.edges
      PROVE  /\ edge[e.id].by = i
             /\ edge[e.id].source.entity = e.source /\ edge[e.id].target.entity = e.target
  <2>1. e.id \in DOMAIN edge
    BY <1>4 DEF Ids
  <2>2. PICK f \in d.edges : /\ edge[e.id].id = f.id /\ edge[e.id].by = i
                             /\ edge[e.id].source.entity = f.source
                             /\ edge[e.id].target.entity = f.target
    BY <1>3, <2>1, LinkedEdges
  <2>3. f = e
    BY <1>1, <1>3, <2>1, <2>2, DocumentsAssumption
  <2> QED BY <2>2, <2>3
<1>6. read[i].labels = {d.projection}
  <2>1. PICK x : x \in d.nodes
    OBVIOUS
  <2>2. [by |-> i, entity |-> x] \in Image(i)
    BY <2>1 DEF Image
  <2>3. \A n \in Image(i) : n.by = i
    BY DEF Image
  <2> QED BY <2>2, <2>3
<1>7. read[i].types = {d.projection}
  <2>1. PICK e : e \in d.edges
    OBVIOUS
  <2>2. PICK r \in L : r.id = e.id
    BY <2>1, LinkedEdges
  <2>3. \A x \in L : x.by = i
    BY LinkedEdges
  <2> QED BY <2>2, <2>3
<1>8. ASSUME NEW e \in d.edges
      PROVE  <<edge[e.id].source.entity, edge[e.id].target.entity>> = <<e.source, e.target>>
  BY <1>5
<1>9. Mismatched(i, d.nodes \cap DOMAIN node, node) = {}
  BY <1>2 DEF Mismatched, Values
<1>10. Mismatched(i, Ids(d) \cap DOMAIN edge, edge) = {}
  BY <1>5 DEF Mismatched, Values, Ids
<1>11. \A y, z \in ExpectedIndexes(d.projection) : y.name = z.name => y.on = z.on /\ y.over = z.over
  BY DEF ExpectedIndexes, ExpectedIndex
<1> HIDE DEF d, L
<1> DEFINE D == ParityDiff(i, node, edge)
<1>12. D.json_only_nodes = {} /\ D.neo4j_only_nodes = {} /\ D.json_only_edges = {} /\ D.neo4j_only_edges = {}
  BY <1>2, <1>4 DEF ParityDiff, d
<1>13. D.source_target_mismatches = {} /\ D.import_errors = {}
  BY <1>8 DEF ParityDiff, d
<1>14. D.missing_labels = {} /\ D.unexpected_labels = {} /\ D.missing_types = {} /\ D.unexpected_types = {}
  BY <1>6, <1>7 DEF ParityDiff, d
<1>15. D.node_property_mismatches = {} /\ D.relationship_property_mismatches = {}
  BY <1>9, <1>10 DEF ParityDiff, d
<1>16. D.missing_indexes = {} /\ D.unexpected_indexes = {} /\ D.misconfigured_indexes = {}
  BY <1>11 DEF ParityDiff, d
<1>17. D.edges_without_graph_id = {} /\ D.unexpected_graph_ids = {}
  BY DEF ParityDiff
<1>18. DOMAIN D = {"json_only_nodes", "neo4j_only_nodes", "json_only_edges", "neo4j_only_edges",
                   "source_target_mismatches", "import_errors", "missing_labels", "unexpected_labels",
                   "missing_types", "unexpected_types", "node_property_mismatches",
                   "relationship_property_mismatches", "missing_indexes", "unexpected_indexes",
                   "misconfigured_indexes", "edges_without_graph_id", "unexpected_graph_ids"}
  BY DEF ParityDiff
<1> HIDE DEF D
<1>19. \A field \in DOMAIN D : D[field] = {}
  BY <1>12, <1>13, <1>14, <1>15, <1>16, <1>17, <1>18
<1> QED BY <1>19 DEF D
-----------------------------------------------------------------------------
\* The bookkeeping of one step: one importer moves, the rest is kept.
LEMMA ImportFrame ==
  ASSUME ShapeInv, RecordInv, NEW i \in Importers, Import(i)
  PROVE  /\ UNCHANGED given
         /\ pc' \in [Importers -> Stages]
         /\ \A k \in Importers \ {i} : pc'[k] = pc[k] /\ read'[k] = read[k] /\ diff'[k] = diff[k]
         /\ Reading(i) \/ read' = read
         /\ Compare(i) \/ diff' = diff
         /\ indexes \subseteq indexes'
<1>0. pc \in [Importers -> Stages] /\ read = [k \in Importers |-> read[k]]
      /\ diff = [k \in Importers |-> diff[k]]
  BY DEF ShapeInv, RecordInv
<1>1. UNCHANGED given
  BY StillSerial DEF Next
<1>2. CASE Reading(i)
  <2>1. PICK s \in ReadStages : pc' = [pc EXCEPT ![i] = s]
    BY <1>2, ReadingFrame
  <2>2. PICK found : read' = [read EXCEPT ![i] = found]
    BY <1>2, ReadingFrame
  <2>3. diff' = diff /\ indexes' = indexes
    BY <1>2, ReadingFrame
  <2>4. s \in Stages
    BY DEF Stages
  <2> QED BY <1>0, <1>1, <1>2, <2>1, <2>2, <2>3, <2>4
<1>3. CASE ~Reading(i)
  <2>1. \E s \in Stages : pc' = [pc EXCEPT ![i] = s]
    BY <1>3 DEF Import, Reading, Goto, Begin, CreateNodeIndex, CreateRelationIndex, CheckOwnership,
         DeleteNamespace, CreateNodes, CreateEdges, Commit, TxFails, Compare, Fails,
         Stages, IndexStages, TxStages, ReadStages, Ended
  <2>2. read' = read
    BY <1>3 DEF Import, Reading, Begin, CreateNodeIndex, CreateRelationIndex, CreateIndex,
         CheckOwnership, DeleteNamespace, CreateNodes, CreateEdges, Commit, TxFails, Compare, Fails
  <2>3. Compare(i) \/ diff' = diff
    BY <1>3 DEF Import, Reading, Begin, CreateNodeIndex, CreateRelationIndex, CreateIndex,
         CheckOwnership, DeleteNamespace, CreateNodes, CreateEdges, Commit, TxFails, Fails
  <2>4. indexes \subseteq indexes'
    BY <1>3 DEF Import, Reading, Begin, CreateNodeIndex, CreateRelationIndex, CreateIndex,
         CheckOwnership, DeleteNamespace, CreateNodes, CreateEdges, Commit, TxFails, Compare, Fails
  <2>5. \A k \in Importers \ {i} : diff'[k] = diff[k]
    BY <1>0, <2>3 DEF Compare
  <2> QED BY <1>0, <1>1, <2>1, <2>2, <2>3, <2>4, <2>5
<1> QED BY <1>2, <1>3

\* The variables keep their shapes, the counter its bound.
LEMMA RecordStep ==
  ASSUME ShapeInv, RecordInv, NEW i \in Importers, Import(i)
  PROVE  RecordInv'
<1>1. doc' \in [Writers -> Documents]
  BY ImportFrame DEF RecordInv, given
<1>2. attempt' \in [Importers -> 1 .. MaxAttempts]
  <2>0. attempt \in [Importers -> 1 .. MaxAttempts]
    BY DEF RecordInv
  <2>1. CASE attempt' = attempt
    BY <2>0, <2>1
  <2>2. CASE attempt[i] < MaxAttempts /\ attempt' = [attempt EXCEPT ![i] = @ + 1]
    <3>1. attempt[i] + 1 \in 1 .. MaxAttempts
      BY <2>0, <2>2, ImportersAssumption
    <3> QED BY <2>0, <2>2, <3>1
  <2>3. CASE Reading(i)
    BY <2>1, <2>3, ReadingFrame
  <2> QED BY <2>1, <2>2, <2>3 DEF Import, Reading, Begin, CreateNodeIndex, CreateRelationIndex,
             CreateIndex, CheckOwnership, DeleteNamespace, CreateNodes, CreateEdges, Commit, TxFails,
             Compare, Fails
<1>3. read' = [k \in Importers |-> read'[k]] /\ \A k \in Importers : Recorded(read'[k])
  <2>0. read = [k \in Importers |-> read[k]] /\ \A k \in Importers : Recorded(read[k])
    BY DEF RecordInv
  <2>1. CASE read' = read
    BY <2>0, <2>1
  <2>2. ASSUME NEW found, Recorded(found), read' = [read EXCEPT ![i] = found]
        PROVE  read' = [k \in Importers |-> read'[k]] /\ \A k \in Importers : Recorded(read'[k])
    BY <2>0, <2>2
  <2>3. CASE Reading(i)
    <3>1. Recorded(read[i])
      BY <2>0
    <3>2. PICK found : Recorded(found) /\ read' = [read EXCEPT ![i] = found]
      BY <2>3, <3>1 DEF Reading, ReadNodes, ReadEdges, ReadMissing, ReadLabels, ReadTypes,
           ReadIndexes, ReadBlank, Reads, Recorded
    <3> QED BY <2>2, <3>2
  <2> QED BY <2>1, <2>3, ImportFrame
<1> QED BY <1>1, <1>2, <1>3 DEF RecordInv, Recorded

\* Each query of a lone importer adds the part of its image it asks for.
LEMMA WholeReading ==
  ASSUME SerialInv, ReaderInv, NEW i \in Importers, Reading(i)
  PROVE  ReadsWhole(i)'
<1>0. /\ pc \in [Importers -> Stages] /\ read = [k \in Importers |-> read[k]]
      /\ doc' = doc /\ stray' = stray /\ indexes' = indexes
  BY ReadingFrame DEF SerialInv, ShapeInv, ReaderInv, RecordInv, given
<1>1. /\ Image(i)' = Image(i) /\ Linked(i, Image(i))' = Linked(i, Image(i))
      /\ Dangling(doc[i])' = Dangling(doc[i])
  BY <1>0 DEF Image, Linked, Dangling
<1> SUFFICES ASSUME Dangling(doc[i]) = {} PROVE ReadsWhole(i)'
  BY <1>1 DEF ReadsWhole
<1>2. Holds(i)
  BY ReadingFrame DEF SerialInv, ImportedInv
<1>3. ReadsWhole(i) /\ Recorded(read[i])
  BY DEF ReaderInv, ReadInv, RecordInv
<1>4. \A p : Provided(indexes, p)' <=> Provided(indexes, p)
  BY <1>0 DEF Provided, Has, ExpectedIndexes, ExpectedIndex
<1>5. ASSUME NEW at, NEW found, NEW next, Reads(i, at, found, next)
      PROVE  pc[i] = at /\ read'[i] = found /\ pc'[i] = next
  BY <1>0, <1>5 DEF Reads, Goto
<1> DEFINE Good(s, f) ==
      /\ s \in ReadStages \ {"readNodes"} => f.nodes = Image(i)
      /\ s \in ReadStages \ {"readNodes", "readEdges"} => f.rels = Linked(i, Image(i))
      /\ s \in {"readLabels", "readTypes", "readIndexes", "readBlank", "compare"} =>
           f.missing \subseteq stray
      /\ s \in {"readTypes", "readIndexes", "readBlank", "compare"} =>
           f.labels = {doc[n.by].projection : n \in Image(i)}
      /\ s \in {"readIndexes", "readBlank", "compare"} =>
           f.types = {doc[r.by].projection : r \in Linked(i, Image(i))}
      /\ s \in {"readBlank", "compare"} =>
           Provided(f.indexes, doc[i].projection) /\ f.indexes \subseteq indexes
      /\ s = "compare" => f.blank \subseteq stray
<1>6. Good(pc[i], read[i])
  BY <1>3 DEF ReadsWhole
<1>7. Good(pc'[i], read'[i])
  <2>1. CASE ReadNodes(i)
    <3>1. /\ pc'[i] = "readEdges"
          /\ read'[i] = [read[i] EXCEPT !.nodes =
               {n \in nodes : doc[n.by].projection = doc[i].projection}]
      BY <1>5, <2>1 DEF ReadNodes
    <3>2. read'[i].nodes = Image(i)
      BY <1>2, <1>3, <3>1, ImageIsVisible DEF Recorded
    <3> QED BY <3>1, <3>2
  <2>2. CASE ReadEdges(i)
    <3>1. /\ pc[i] = "readEdges" /\ pc'[i] = "readMissing"
          /\ read'[i] = [read[i] EXCEPT !.rels =
               {r \in rels : doc[r.by].projection = doc[i].projection}]
      BY <1>5, <2>2 DEF ReadEdges
    <3>2. read'[i].rels = Linked(i, Image(i)) /\ read'[i].nodes = read[i].nodes
      BY <1>2, <1>3, <3>1, ImageIsVisible DEF Recorded
    <3> QED BY <1>6, <3>1, <3>2 DEF ReadStages
  <2>3. CASE ReadMissing(i)
    BY <1>3, <1>5, <1>6, <2>3 DEF ReadMissing, Recorded, ReadStages
  <2>4. CASE ReadLabels(i)
    BY <1>2, <1>3, <1>5, <1>6, <2>4 DEF ReadLabels, Recorded, ReadStages, Holds
  <2>5. CASE ReadTypes(i)
    BY <1>2, <1>3, <1>5, <1>6, <2>5 DEF ReadTypes, Recorded, ReadStages, Holds
  <2>6. CASE ReadIndexes(i)
    <3>1. Provided(indexes, doc[i].projection)
      BY ReadingFrame DEF ReaderInv, IndexInv
    <3> QED BY <1>3, <1>5, <1>6, <2>6, <3>1 DEF ReadIndexes, Recorded, ReadStages
  <2>7. CASE ReadBlank(i)
    BY <1>3, <1>5, <1>6, <2>7 DEF ReadBlank, Recorded, ReadStages
  <2> QED BY <2>1, <2>2, <2>3, <2>4, <2>5, <2>6, <2>7 DEF Reading
<1>8. Provided(read[i].indexes, doc[i].projection)' <=> Provided(read'[i].indexes, doc[i].projection)
  BY <1>0 DEF Provided, Has, ExpectedIndexes, ExpectedIndex
<1> QED BY <1>0, <1>1, <1>7, <1>8 DEF ReadsWhole

\* Reading: each stage adds what the store holds.
LEMMA ReaderStep ==
  ASSUME SerialInv, ReaderInv, NEW i \in Importers, Import(i)
  PROVE  ReaderInv'
<1>0. /\ pc \in [Importers -> Stages] /\ pc' \in [Importers -> Stages]
      /\ serial' = serial /\ doc' = doc /\ stray' = stray
      /\ read = [k \in Importers |-> read[k]]
      /\ diff = [k \in Importers |-> diff[k]]
  BY ImportFrame DEF SerialInv, ShapeInv, ReaderInv, RecordInv, given
<1>1. \A k \in Importers \ {i} : pc'[k] = pc[k] /\ read'[k] = read[k] /\ diff'[k] = diff[k]
  BY ImportFrame DEF SerialInv, ReaderInv
<1>2. indexes \subseteq indexes'
  BY ImportFrame DEF SerialInv, ReaderInv
<1>3. \A k \in Importers : /\ Image(k)' = Image(k) /\ Linked(k, Image(k))' = Linked(k, Image(k))
                           /\ Dangling(doc[k])' = Dangling(doc[k])
  BY <1>0 DEF Image, Linked, Dangling
<1>4. RecordInv'
  BY RecordStep DEF SerialInv, ReaderInv
<1>5. IndexInv'
  <2> DEFINE Kept(k) ==
        /\ pc'[k] = "relationIndex" => Has(indexes', "node", doc[k].projection)
        /\ pc'[k] \in TxStages \cup ReadStages => Provided(indexes', doc[k].projection)
  <2>1. ASSUME NEW k \in Importers, k # i PROVE Kept(k)
    BY <1>1, <1>2, <2>1, KeptIndexes DEF ReaderInv, IndexInv, Provided
  <2>2. Kept(i)
    <3>1. CASE CreateNodeIndex(i)
      <4>1. Has(indexes', "node", doc[i].projection)
        BY <3>1, CreatedIndex DEF CreateNodeIndex
      <4>2. pc'[i] = "relationIndex"
        BY <1>0, <3>1 DEF CreateNodeIndex, Goto
      <4> QED BY <4>1, <4>2 DEF TxStages, ReadStages
    <3>2. CASE CreateRelationIndex(i)
      <4>1. Has(indexes', "relation", doc[i].projection) /\ indexes \subseteq indexes'
        BY <3>2, CreatedIndex DEF CreateRelationIndex
      <4>2. Has(indexes', "node", doc[i].projection)
        BY <3>2, <4>1, KeptIndexes DEF CreateRelationIndex, ReaderInv, IndexInv
      <4> QED BY <4>1, <4>2 DEF Provided
    <3>3. CASE pc[i] \in TxStages \cup ReadStages
      <4>1. pc'[i] # "relationIndex"
        <5>1. CASE Reading(i)
          BY <1>0, <5>1, ReadingFrame DEF ReadStages
        <5> QED BY <1>0, <3>3, <5>1 DEF Import, Reading, Goto, Begin, CreateNodeIndex,
                   CreateRelationIndex, CheckOwnership, DeleteNamespace, CreateNodes, CreateEdges,
                   Commit, TxFails, Compare, Fails, TxStages, ReadStages
      <4> QED BY <1>2, <3>3, <4>1, KeptIndexes DEF ReaderInv, IndexInv, Provided
    <3>4. CASE Begin(i) \/ Fails(i)
      BY <1>0, <3>4 DEF Begin, Fails, Goto, TxStages, ReadStages
    <3>5. CASE Reading(i)
      BY <3>3, <3>5, ReadingFrame
    <3> QED BY <3>1, <3>2, <3>3, <3>4, <3>5 DEF Import, Reading, CheckOwnership, DeleteNamespace,
               CreateNodes, CreateEdges, Commit, TxFails, Compare, TxStages, ReadStages
  <2> QED BY <1>0, <2>1, <2>2 DEF IndexInv, Has, Provided, ExpectedIndexes, ExpectedIndex
<1>6. ReadInv'
  <2>1. ASSUME NEW k \in Importers, k # i PROVE ReadsWhole(k)'
    BY <1>0, <1>1, <1>2, <1>3, <2>1 DEF ReaderInv, ReadInv, ReadsWhole, Provided, Has,
       ExpectedIndexes, ExpectedIndex
  <2>2. ReadsWhole(i)'
    <3>1. CASE ~Reading(i)
      <4>1. read' = read
        BY <3>1, ImportFrame DEF SerialInv, ReaderInv
      <4>2. pc'[i] \in ReadStages \ {"readNodes"} => FALSE
        BY <1>0, <3>1 DEF Import, Reading, Goto, Begin, CreateNodeIndex, CreateRelationIndex,
           CheckOwnership, DeleteNamespace, CreateNodes, CreateEdges, Commit, TxFails, Compare,
           Fails, ReadStages
      <4> QED BY <4>2 DEF ReadsWhole, ReadStages
    <3>2. CASE Reading(i)
      BY <3>2, WholeReading
    <3> QED BY <3>1, <3>2
  <2>3. \A k \in Importers : ReadsWhole(k)'
    BY <2>1, <2>2
  <2> QED BY <2>3 DEF ReadInv
<1>7. LoneImportPasses'
  <2> SUFFICES ASSUME NEW k \in Importers, pc'[k] = "done", ~Passed(k)', stray' = {},
                      indexes' \subseteq ExpectedIndexes(doc'[k].projection),
                      doc'[k].nodes # {}, doc'[k].edges # {}, Dangling(doc'[k]) = {}
               PROVE  FALSE
    BY <1>0 DEF LoneImportPasses, ExpectedIndexes, ExpectedIndex, Dangling
  <2>1. /\ indexes \subseteq ExpectedIndexes(doc[k].projection) /\ stray = {}
        /\ doc[k].nodes # {} /\ doc[k].edges # {} /\ Dangling(doc[k]) = {}
    BY <1>0, <1>2
  <2>2. CASE ~(k = i /\ Compare(i))
    <3>1. diff'[k] = diff[k]
      BY <1>1, <2>2, ImportFrame DEF SerialInv, ReaderInv
    <3>2. pc[k] = "done"
      <4>1. CASE Reading(i) /\ k = i
        BY <1>0, <2>2, <4>1, ReadingFrame DEF ReadStages
      <4> QED BY <1>0, <1>1, <2>2, <4>1 DEF Import, Reading, Goto, Begin, CreateNodeIndex,
                 CreateRelationIndex, CheckOwnership, DeleteNamespace, CreateNodes, CreateEdges,
                 Commit, TxFails, Fails
    <3> QED BY <2>1, <3>1, <3>2 DEF SerialInv, ReaderInv, LoneImportPasses, Passed
  <2>3. CASE k = i /\ Compare(i)
    <3>2. PICK node \in ByKey(read[i].nodes, [n \in read[i].nodes |-> n.entity]),
               edge \in ByKey(read[i].rels, [r \in read[i].rels |-> r.id]) :
            diff' = [diff EXCEPT ![i] = {ParityDiff(i, node, edge)}]
      BY <2>3 DEF Compare
    <3>3. diff'[i] = {ParityDiff(i, node, edge)}
      BY <1>0, <3>2
    <3>4. pc[i] = "compare" /\ pc[i] \in ReadStages
      BY <2>3 DEF Compare, ReadStages
    <3>5. ReadsWhole(i) /\ Dangling(doc[i]) = {}
      BY <2>1, <2>3 DEF ReaderInv, ReadInv
    <3>6. doc \in [Writers -> Documents]
      BY DEF ReaderInv, RecordInv
    <3>7. /\ read[i].nodes = Image(i) /\ read[i].rels = Linked(i, Image(i))
          /\ read[i].labels = {doc[n.by].projection : n \in Image(i)}
          /\ read[i].types = {doc[r.by].projection : r \in Linked(i, Image(i))}
      BY <3>4, <3>5 DEF ReadsWhole
    <3>8. read[i].missing = {} /\ read[i].blank = {}
      BY <2>1, <3>4, <3>5 DEF ReadsWhole
    <3>9. read[i].indexes = ExpectedIndexes(doc[i].projection)
      <4>1. /\ Provided(read[i].indexes, doc[i].projection)
            /\ read[i].indexes \subseteq ExpectedIndexes(doc[i].projection)
        BY <2>1, <2>3, <3>4, <3>5 DEF ReadsWhole
      <4> QED BY <4>1 DEF Provided, Has, ExpectedIndexes
    <3>10. \A field \in DOMAIN ParityDiff(i, node, edge) : ParityDiff(i, node, edge)[field] = {}
      BY <2>1, <2>3, <3>6, <3>7, <3>8, <3>9, DiffOfImage
    <3> QED BY <2>3, <3>3, <3>10 DEF Passed
  <2> QED BY <2>2, <2>3
<1> QED BY <1>4, <1>5, <1>6, <1>7 DEF ReaderInv

LEMMA StillReading == ASSUME SerialInv, ReaderInv, [Next]_vars PROVE ReaderInv'
<1>1. ASSUME UNCHANGED vars PROVE ReaderInv'
  <2>1. /\ serial' = serial /\ doc' = doc /\ nodes' = nodes /\ rels' = rels /\ pc' = pc
        /\ read' = read /\ diff' = diff
        /\ indexes' = indexes /\ stray' = stray /\ attempt' = attempt
    BY <1>1 DEF vars, given, store, tx
  <2>2. RecordInv'
    BY <1>1, <2>1 DEF ReaderInv, RecordInv, Recorded
  <2>3. IndexInv'
    BY <1>1, <2>1 DEF ReaderInv, IndexInv, Provided, Has, ExpectedIndexes, ExpectedIndex
  <2>4. LoneImportPasses'
    BY <1>1, <2>1 DEF ReaderInv, LoneImportPasses, ExpectedIndexes, ExpectedIndex, Passed, Dangling
  <2>5. \A k \in Importers : /\ Image(k)' = Image(k) /\ Linked(k, Image(k))' = Linked(k, Image(k))
                             /\ Dangling(doc[k])' = Dangling(doc[k])
    BY <2>1 DEF Image, Linked, Dangling
  <2>6. ReadInv'
    BY <1>1, <2>1, <2>5 DEF ReaderInv, ReadInv, ReadsWhole, Provided, Has, ExpectedIndexes, ExpectedIndex
  <2> QED BY <2>2, <2>3, <2>4, <2>6 DEF ReaderInv
<1> QED BY <1>1, ReaderStep DEF Next
-----------------------------------------------------------------------------
(* Imports that overlap: the locks keep relationships and nodes together.  *)

Entities == UNION {d.nodes : d \in Documents}
Nodes == [by : Writers, entity : Entities]
Ends(r) == {r.source, r.target}

\* No transaction deletes what another one links, and nothing it links is its
\* own deletion: a commit never leaves a relationship without its nodes.
JoinInv ==
  /\ nodes \subseteq Nodes
  /\ \A i \in Importers : made[i] \subseteq Nodes
  /\ \A r \in rels : Ends(r) \subseteq nodes
  /\ \A i \in Importers : \A r \in links[i] : Ends(r) \subseteq Visible(i)
  /\ \A i, j \in Importers : i # j => \A r \in links[i] : Ends(r) \cap dropped[j] = {}
  /\ \A i \in Importers : pc[i] # "commit" => links[i] = {}
  /\ \A i \in Importers :
       pc[i] \notin {"nodes", "edges", "commit"} => dropped[i] \cup made[i] \cup links[i] = {}

CoreInv == serial \in BOOLEAN /\ ShapeInv /\ RecordInv /\ JoinInv

LEMMA ImageTyped ==
  ASSUME doc \in [Writers -> Documents], NEW w \in Writers
  PROVE  Image(w) \subseteq Nodes
<1>1. doc[w].nodes \subseteq Entities
  BY DEF Entities
<1> QED BY <1>1 DEF Image, Nodes

LEMMA CoreInit == Init => CoreInv
<1> SUFFICES ASSUME Init PROVE CoreInv
  OBVIOUS
<1>1. serial \in BOOLEAN /\ doc \in [Writers -> Documents]
  BY DocumentsAssumption DEF Init
<1>2. RecordInv
  BY ReaderInit DEF ReaderInv
<1>3. ShapeInv
  BY DEF Init, ShapeInv, Stages
<1>4. nodes \subseteq Nodes
  BY <1>1, ImageTyped DEF Init, Writers
<1>5. \A r \in rels : Ends(r) \subseteq nodes
  BY LinkedJoinsVisible DEF Init, Ends
<1> QED BY <1>1, <1>2, <1>3, <1>4, <1>5 DEF CoreInv, JoinInv, Init

\* A step outside a transaction that has begun to write.
LEMMA JoinQuiet ==
  ASSUME JoinInv, NEW i \in Importers, UNCHANGED <<store, tx>>, doc' = doc,
         \A k \in Importers \ {i} : pc'[k] = pc[k], pc[i] \notin {"nodes", "edges", "commit"}
  PROVE  JoinInv'
<1>1. /\ nodes' = nodes /\ rels' = rels /\ dropped' = dropped /\ made' = made /\ links' = links
      /\ Nodes' = Nodes
  BY DEF store, tx, Nodes, Entities
<1>2. dropped[i] \cup made[i] \cup links[i] = {}
  BY DEF JoinInv
<1>3. \A k \in Importers : Visible(k)' = Visible(k)
  BY <1>1 DEF Visible
<1> QED BY <1>1, <1>2, <1>3 DEF JoinInv, Ends

LEMMA JoinStep ==
  ASSUME CoreInv, NEW i \in Importers, Import(i)
  PROVE  JoinInv'
<1>0. /\ pc \in [Importers -> Stages] /\ JoinInv
      /\ doc \in [Writers -> Documents] /\ doc' = doc
      /\ dropped = [k \in Importers |-> dropped[k]] /\ made = [k \in Importers |-> made[k]]
      /\ links = [k \in Importers |-> links[k]]
  BY ImportFrame DEF CoreInv, ShapeInv, RecordInv, given
<1>1. \A k \in Importers \ {i} : pc'[k] = pc[k]
  BY ImportFrame DEF CoreInv
<1>2. Nodes' = Nodes
  BY DEF Nodes, Entities
<1>3. CASE DeleteNamespace(i)
  <2>1. /\ dropped' = [dropped EXCEPT ![i] = Visible(i)] /\ made' = made /\ links' = links
        /\ nodes' = nodes /\ rels' = rels /\ pc[i] = "delete" /\ pc'[i] = "nodes"
    BY <1>0, <1>3 DEF DeleteNamespace, Goto, store
  <2>2. links[i] = {}
    BY <1>0, <2>1 DEF JoinInv
  <2>3. \A k \in Importers \ {i} : \A r \in links[k] : Ends(r) \cap Visible(i) = {}
    BY <1>3 DEF DeleteNamespace, Locked, Ends
  <2>4. \A k \in Importers \ {i} : Visible(k)' = Visible(k)
    BY <1>0, <2>1 DEF Visible
  <2> QED BY <1>0, <1>1, <1>2, <2>1, <2>2, <2>3, <2>4 DEF JoinInv, TxStages, Ends
<1>4. CASE CreateNodes(i)
  <2>1. /\ made' = [made EXCEPT ![i] = Image(i)] /\ dropped' = dropped /\ links' = links
        /\ nodes' = nodes /\ rels' = rels /\ pc[i] = "nodes" /\ pc'[i] = "edges"
    BY <1>0, <1>4 DEF CreateNodes, Goto, store
  <2>2. links[i] = {} /\ Image(i) \subseteq Nodes
    BY <1>0, <2>1, ImageTyped DEF JoinInv, Writers
  <2>3. \A k \in Importers \ {i} : Visible(k)' = Visible(k)
    BY <1>0, <2>1 DEF Visible
  <2> QED BY <1>0, <1>1, <1>2, <2>1, <2>2, <2>3 DEF JoinInv, TxStages, Ends
<1>5. CASE CreateEdges(i)
  <2>1. /\ links' = [links EXCEPT ![i] = Linked(i, Visible(i))] /\ dropped' = dropped /\ made' = made
        /\ nodes' = nodes /\ rels' = rels /\ pc[i] = "edges" /\ pc'[i] = "commit"
    BY <1>0, <1>5 DEF CreateEdges, Goto, store
  <2>2. \A r \in Linked(i, Visible(i)) : Ends(r) \subseteq Visible(i)
    BY LinkedJoinsVisible DEF Ends
  <2>3. \A k \in Importers \ {i} : \A r \in Linked(i, Visible(i)) : Ends(r) \cap dropped[k] = {}
    BY <1>5 DEF CreateEdges, Locked, Ends
  <2>4. \A k \in Importers : Visible(k)' = Visible(k)
    BY <2>1 DEF Visible
  <2> QED BY <1>0, <1>1, <1>2, <2>1, <2>2, <2>3, <2>4 DEF JoinInv, TxStages, Ends
<1>6. CASE Commit(i)
  <2>1. /\ nodes' = Visible(i) /\ pc[i] = "commit" /\ pc'[i] \notin TxStages
        /\ rels' = {r \in rels : Ends(r) \cap dropped[i] = {}} \cup links[i]
    BY <1>0, <1>6 DEF Commit, Apply, Goto, Ends, TxStages
  <2>2. /\ dropped' = [dropped EXCEPT ![i] = {}] /\ made' = [made EXCEPT ![i] = {}]
        /\ links' = [links EXCEPT ![i] = {}]
    BY <1>6 DEF Commit, EndTx
  <2>3. \A r \in rels' : Ends(r) \subseteq nodes'
    BY <1>0, <2>1 DEF JoinInv, Visible
  <2>4. \A k \in Importers \ {i} : \A r \in links[k] : Ends(r) \subseteq Visible(k)'
    BY <1>0, <2>1, <2>2 DEF JoinInv, Visible
  <2>5. nodes' \subseteq Nodes
    BY <1>0, <2>1 DEF JoinInv, Visible
  <2> QED BY <1>0, <1>1, <1>2, <2>1, <2>2, <2>3, <2>4, <2>5 DEF JoinInv, Ends
<1>7. CASE TxFails(i)
  <2>1. /\ nodes' = nodes /\ rels' = rels
        /\ dropped' = [dropped EXCEPT ![i] = {}] /\ made' = [made EXCEPT ![i] = {}]
        /\ links' = [links EXCEPT ![i] = {}]
    BY <1>7 DEF TxFails, RollBack, EndTx, store
  <2>2. \A k \in Importers \ {i} : Visible(k)' = Visible(k)
    BY <1>0, <2>1 DEF Visible
  <2> QED BY <1>0, <1>1, <1>2, <2>1, <2>2 DEF JoinInv, Ends
<1>8. CASE Reading(i)
  <2>1. pc[i] \notin {"nodes", "edges", "commit"}
    BY <1>8, ReadingFrame DEF ReadStages
  <2>2. UNCHANGED <<store, tx>>
    BY <1>8, ReadingFrame
  <2> QED BY <1>0, <1>1, <2>1, <2>2, JoinQuiet
<1>9. CASE \/ Begin(i) \/ CreateNodeIndex(i) \/ CreateRelationIndex(i) \/ CheckOwnership(i)
          \/ Compare(i) \/ Fails(i)
  <2>1. pc[i] \notin {"nodes", "edges", "commit"} /\ UNCHANGED <<store, tx>>
    BY <1>9 DEF Begin, CreateNodeIndex, CreateRelationIndex, CreateIndex, CheckOwnership, Compare,
       Fails, IndexStages, ReadStages
  <2> QED BY <1>0, <1>1, <2>1, JoinQuiet
<1> QED BY <1>3, <1>4, <1>5, <1>6, <1>7, <1>8, <1>9 DEF Import, Reading

\* The types, and what locking guarantees, however imports overlap
\* (json_neo4j_parity.py:280-333).
THEOREM CoreInvariant == Spec => []CoreInv
<1>1. CoreInv /\ [Next]_vars => CoreInv'
  <2> SUFFICES ASSUME CoreInv, [Next]_vars PROVE CoreInv'
    OBVIOUS
  <2>1. serial' \in BOOLEAN
    BY StillSerial DEF CoreInv, given
  <2>2. ASSUME NEW i \in Importers, Import(i) PROVE ShapeInv' /\ RecordInv' /\ JoinInv'
    <3>1. RecordInv' /\ JoinInv'
      BY <2>2, RecordStep, JoinStep DEF CoreInv
    <3>2. doc' = doc /\ pc' \in [Importers -> Stages]
      BY <2>2, ImportFrame DEF CoreInv, given
    <3>3. diff' = [k \in Importers |-> diff'[k]]
      BY <2>2, ImportFrame DEF CoreInv, ShapeInv, Compare
    <3>4. /\ dropped' = [k \in Importers |-> dropped'[k]] /\ made' = [k \in Importers |-> made'[k]]
          /\ links' = [k \in Importers |-> links'[k]]
      <4>1. CASE Reading(i)
        BY <4>1, ReadingFrame DEF CoreInv, ShapeInv, tx
      <4> QED BY <2>2, <4>1 DEF CoreInv, ShapeInv, Import, Reading, Begin, CreateNodeIndex,
                 CreateRelationIndex, CreateIndex, CheckOwnership, DeleteNamespace, CreateNodes,
                 CreateEdges, Commit, TxFails, EndTx, RollBack, Compare, Fails, tx
    <3> QED BY <3>1, <3>2, <3>3, <3>4 DEF ShapeInv, CoreInv
  <2>3. CASE UNCHANGED vars
    <3>1. /\ doc' = doc /\ nodes' = nodes /\ rels' = rels /\ pc' = pc /\ attempt' = attempt
          /\ dropped' = dropped /\ made' = made /\ links' = links /\ read' = read /\ diff' = diff
      BY <2>3 DEF vars, given, store, tx
    <3>2. ShapeInv'
      BY <3>1 DEF CoreInv, ShapeInv
    <3>3. RecordInv'
      BY <3>1 DEF CoreInv, RecordInv, Recorded
    <3>4. JoinInv'
      BY <3>1 DEF CoreInv, JoinInv, Nodes, Entities, Ends, Visible
    <3> QED BY <2>1, <3>2, <3>3, <3>4 DEF CoreInv
  <2> QED BY <2>1, <2>2, <2>3 DEF Next, CoreInv
<1> QED BY <1>1, CoreInit, PTL DEF Spec

\* The variables keep their types, the namespace is whole or empty, and a lone
\* import fails parity only for what is foreign to it; the last two one import
\* at a time (json_neo4j_parity.py:280-439).
THEOREM ProjectionAlwaysInv == Spec => []ProjectionInv
<1>1. Spec => [](serial => SerialInv /\ ReaderInv)
  <2>1. (serial => SerialInv /\ ReaderInv) /\ [Next]_vars => (serial => SerialInv /\ ReaderInv)'
    BY StillReading, SerialStep, StillSerial DEF given
  <2>2. Init => (serial => SerialInv /\ ReaderInv)
    BY SerialInit, ReaderInit
  <2> QED BY <2>1, <2>2, PTL DEF Spec
<1>2. CoreInv => ProjectionTypeOK
  <2> SUFFICES ASSUME CoreInv PROVE ProjectionTypeOK
    OBVIOUS
  <2>1. \A i \in Importers : pc[i] \notin TxStages => pc[i] \notin {"nodes", "edges", "commit"}
    BY DEF TxStages
  <2> QED BY <2>1 DEF CoreInv, ShapeInv, RecordInv, JoinInv, ProjectionTypeOK, Stages, Nodes, Entities, Ends
<1>3. (serial => SerialInv /\ ReaderInv) => WholeOrEmpty /\ LoneImportPasses
  BY DEF SerialInv, ReaderInv, WholeOrEmpty, LoneImportPasses
<1> QED BY <1>1, <1>2, <1>3, CoreInvariant, PTL DEF ProjectionInv
-----------------------------------------------------------------------------
(* What a verdict vouches for, however imports overlap.                    *)

\* An empty diff leaves no room for another document than the one read back.
LEMMA EmptyDiffReadsAs ==
  ASSUME NEW i \in Importers,
         NEW node \in ByKey(read[i].nodes, [n \in read[i].nodes |-> n.entity]),
         NEW edge \in ByKey(read[i].rels, [r \in read[i].rels |-> r.id]),
         \A field \in DOMAIN ParityDiff(i, node, edge) : ParityDiff(i, node, edge)[field] = {}
  PROVE  ReadsAs(i)
<1> DEFINE d == doc[i]
           D == ParityDiff(i, node, edge)
           N == read[i].nodes
           R == read[i].rels
<1>1. /\ D.json_only_nodes = {} /\ D.neo4j_only_nodes = {} /\ D.json_only_edges = {}
      /\ D.neo4j_only_edges = {} /\ D.source_target_mismatches = {} /\ D.import_errors = {}
      /\ D.node_property_mismatches = {} /\ D.relationship_property_mismatches = {}
  <2>1. {"json_only_nodes", "neo4j_only_nodes", "json_only_edges", "neo4j_only_edges",
         "source_target_mismatches", "import_errors", "node_property_mismatches",
         "relationship_property_mismatches"} \subseteq DOMAIN D
    BY DEF ParityDiff
  <2> HIDE DEF D
  <2>2. \A field \in DOMAIN D : D[field] = {}
    BY DEF D
  <2> QED BY <2>1, <2>2
<1>2. DOMAIN node = d.nodes /\ DOMAIN edge = Ids(d) /\ Dangling(d) = {}
  <2>1. d.nodes \ DOMAIN node = {} /\ DOMAIN node \ d.nodes = {}
    BY <1>1 DEF ParityDiff
  <2>2. Ids(d) \ DOMAIN edge = {} /\ DOMAIN edge \ Ids(d) = {}
    BY <1>1 DEF ParityDiff
  <2>3. {e.id : e \in Dangling(d)} = {}
    BY <1>1 DEF ParityDiff
  <2> HIDE DEF d
  <2> QED BY <2>1, <2>2, <2>3
<1>3. /\ \A k \in d.nodes : Values(node[k].by) = Values(i)
      /\ \A k \in Ids(d) : Values(edge[k].by) = Values(i)
  <2>1. Mismatched(i, d.nodes \cap DOMAIN node, node) = {}
    BY <1>1 DEF ParityDiff
  <2>2. Mismatched(i, Ids(d) \cap DOMAIN edge, edge) = {}
    BY <1>1 DEF ParityDiff
  <2> QED BY <1>2, <2>1, <2>2 DEF Mismatched
<1>4. \A e \in d.edges :
        <<edge[e.id].source.entity, edge[e.id].target.entity>> = <<e.source, e.target>>
  <2>1. {e.id : e \in {x \in d.edges : x.id \in DOMAIN edge /\
           <<edge[x.id].source.entity, edge[x.id].target.entity>> # <<x.source, x.target>>}} = {}
    BY <1>1 DEF ParityDiff
  <2>2. \A e \in d.edges : e.id \in DOMAIN edge
    BY <1>2 DEF Ids
  <2> QED BY <2>1, <2>2
<1>5. /\ \A k : k \in DOMAIN node <=> \E n \in N : n.entity = k
      /\ \A k \in DOMAIN node : node[k] \in N /\ node[k].entity = k
  <2> DEFINE key == [n \in N |-> n.entity]
  <2>0. node \in ByKey(N, key) /\ \A n \in N : key[n] = n.entity
    OBVIOUS
  <2> HIDE DEF key, N
  <2>1. /\ \A k : k \in DOMAIN node <=> \E n \in N : key[n] = k
        /\ \A k \in DOMAIN node : node[k] \in N /\ key[node[k]] = k
    BY <2>0, KeyedRecords
  <2> QED BY <2>0, <2>1
<1>6. /\ \A k : k \in DOMAIN edge <=> \E r \in R : r.id = k
      /\ \A k \in DOMAIN edge : edge[k] \in R /\ edge[k].id = k
  <2> DEFINE key == [r \in R |-> r.id]
  <2>0. edge \in ByKey(R, key) /\ \A r \in R : key[r] = r.id
    OBVIOUS
  <2> HIDE DEF key, R
  <2>1. /\ \A k : k \in DOMAIN edge <=> \E r \in R : key[r] = k
        /\ \A k \in DOMAIN edge : edge[k] \in R /\ key[edge[k]] = k
    BY <2>0, KeyedRecords
  <2> QED BY <2>0, <2>1
<1> HIDE DEF d, D, N, R
<1>7. {n.entity : n \in N} = d.nodes /\ {r.id : r \in R} = Ids(d)
  BY <1>2, <1>5, <1>6
<1>8. \A k \in d.nodes : \E n \in N : n.entity = k /\ Values(n.by) = Values(i)
  BY <1>2, <1>3, <1>5
<1>9. \A e \in d.edges :
        \E r \in R : /\ r.id = e.id /\ Values(r.by) = Values(i)
                     /\ <<r.source.entity, r.target.entity>> = <<e.source, e.target>>
  <2> SUFFICES ASSUME NEW e \in d.edges
               PROVE  \E r \in R : /\ r.id = e.id /\ Values(r.by) = Values(i)
                                   /\ <<r.source.entity, r.target.entity>> = <<e.source, e.target>>
    OBVIOUS
  <2>1. e.id \in Ids(d)
    BY DEF Ids
  <2>2. edge[e.id] \in R /\ edge[e.id].id = e.id /\ Values(edge[e.id].by) = Values(i)
    BY <1>2, <1>3, <1>6, <2>1
  <2> QED BY <1>4, <2>2
<1> QED BY <1>2, <1>7, <1>8, <1>9 DEF ReadsAs, d, N, R

\* A verdict is the last thing an importer leaves.
VerdictInv ==
  PassedProvesReadBack /\ \A i \in Importers : diff[i] # {} => pc[i] = "done"

LEMMA VerdictStep ==
  ASSUME CoreInv, VerdictInv, NEW i \in Importers, Import(i)
  PROVE  VerdictInv'
<1>0. /\ diff = [k \in Importers |-> diff[k]] /\ doc' = doc /\ ShapeInv /\ RecordInv
      /\ pc \in [Importers -> Stages]
  BY ImportFrame DEF CoreInv, ShapeInv, given
<1>1. pc[i] # "done"
  <2>1. CASE Reading(i)
    BY <2>1, ReadingFrame DEF ReadStages
  <2> QED BY <2>1 DEF Import, Reading, Begin, CreateNodeIndex, CreateRelationIndex, CheckOwnership,
             DeleteNamespace, CreateNodes, CreateEdges, Commit, TxFails, Compare, Fails,
             TxStages, IndexStages, ReadStages
<1>2. diff[i] = {}
  BY <1>1 DEF VerdictInv
<1>3. ASSUME NEW k \in Importers, k # i
      PROVE  (diff'[k] # {} => pc'[k] = "done") /\ (Passed(k)' => ReadsAs(k)')
  <2>1. pc'[k] = pc[k] /\ read'[k] = read[k] /\ diff'[k] = diff[k]
    BY <1>0, <1>3, ImportFrame
  <2>2. Passed(k)' <=> Passed(k)
    BY <2>1 DEF Passed
  <2>3. ReadsAs(k)' <=> ReadsAs(k)
    BY <1>0, <2>1 DEF ReadsAs, Values, Ids, Dangling
  <2> QED BY <2>1, <2>2, <2>3 DEF VerdictInv, PassedProvesReadBack
<1>4. (diff'[i] # {} => pc'[i] = "done") /\ (Passed(i)' => ReadsAs(i)')
  <2>1. CASE diff' = diff
    BY <1>2, <2>1 DEF Passed
  <2>2. CASE Compare(i)
    <3>1. PICK node \in ByKey(read[i].nodes, [n \in read[i].nodes |-> n.entity]),
               edge \in ByKey(read[i].rels, [r \in read[i].rels |-> r.id]) :
            diff' = [diff EXCEPT ![i] = {ParityDiff(i, node, edge)}]
      BY <2>2 DEF Compare
    <3>2. diff'[i] = {ParityDiff(i, node, edge)} /\ pc'[i] = "done" /\ read' = read
      BY <1>0, <2>2, <3>1 DEF Compare, Goto
    <3>3. Passed(i)' => ReadsAs(i)
      BY <3>2, EmptyDiffReadsAs DEF Passed
    <3>4. ReadsAs(i)' <=> ReadsAs(i)
      BY <1>0, <3>2 DEF ReadsAs, Values, Ids, Dangling
    <3> QED BY <3>2, <3>3, <3>4
  <2> QED BY <1>0, <2>1, <2>2, ImportFrame
<1> QED BY <1>3, <1>4 DEF VerdictInv, PassedProvesReadBack

\* Whatever other imports do to the namespace between the queries, a diff that
\* passes proves that the database showed the document
\* (json_neo4j_parity.py:215-238, 414-439).
THEOREM PassedAlwaysProves == Spec => []PassedProvesReadBack
<1>1. Init => VerdictInv
  BY DEF Init, VerdictInv, PassedProvesReadBack, Passed
<1>2. CoreInv /\ VerdictInv /\ [Next]_vars => VerdictInv'
  <2>1. ASSUME VerdictInv, UNCHANGED vars PROVE VerdictInv'
    <3>1. doc' = doc /\ pc' = pc /\ read' = read /\ diff' = diff
      BY <2>1 DEF vars, given
    <3>2. \A k \in Importers : (Passed(k)' <=> Passed(k)) /\ (ReadsAs(k)' <=> ReadsAs(k))
      BY <3>1 DEF Passed, ReadsAs, Values, Ids, Dangling
    <3> QED BY <2>1, <3>1, <3>2 DEF VerdictInv, PassedProvesReadBack
  <2> QED BY <2>1, VerdictStep DEF Next
<1>3. VerdictInv => PassedProvesReadBack
  BY DEF VerdictInv
<1> QED BY <1>1, <1>2, <1>3, CoreInvariant, PTL DEF Spec
-----------------------------------------------------------------------------
(* The namespace implements what ProjectedNamespace promises.              *)

\* What the ownership check has established holds until the commit.
OwnedInv ==
  \A i \in Importers : pc[i] \in {"delete", "nodes", "edges", "commit"} =>
    \A n \in nodes : doc[n.by].owner = doc[i].owner /\ doc[n.by].projection = doc[i].projection

\* The rows of the ownership query show the identity of every node.
LEMMA CheckedOwnership ==
  ASSUME SerialInv, NEW i \in Importers, CheckOwnership(i), pc'[i] = "delete",
         NEW n \in nodes
  PROVE  doc[n.by].owner = doc[i].owner /\ doc[n.by].projection = doc[i].projection
<1>1. PICK w \in Writers : Holds(w)
  BY DEF SerialInv, WholeOrEmpty, store
<1>2. \A m \in nodes : m.by = w
  BY <1>1 DEF Holds, Image
<1>3. {Group(m) : m \in nodes} = {<<doc[w].owner, doc[w].projection>>}
  BY <1>2 DEF Group
<1>4. PICK row : OwnershipRows = {row} /\ row.owner = doc[w].owner /\ row.label = doc[w].projection
  <2> DEFINE Row(group) == [owner |-> group[1], label |-> group[2],
        types |-> {doc[r.by].projection :
                     r \in {x \in rels : group \in {Group(x.source), Group(x.target)}}}]
             g == <<doc[w].owner, doc[w].projection>>
  <2>1. OwnershipRows = {Row(group) : group \in {g}}
    BY <1>3 DEF OwnershipRows
  <2>2. Row(g).owner = doc[w].owner /\ Row(g).label = doc[w].projection
    OBVIOUS
  <2> HIDE DEF Row, g
  <2>3. OwnershipRows = {Row(g)}
    BY <2>1
  <2> QED BY <2>2, <2>3
<1>5. PICK seen \in SUBSET OwnershipRows :
        /\ Cardinality(seen) =
             IF Cardinality(OwnershipRows) < 2 THEN Cardinality(OwnershipRows) ELSE 2
        /\ Goto(i, IF \A x \in seen : Matches(i, x) THEN "delete" ELSE "raised")
  BY DEF CheckOwnership
<1>6. seen # {}
  <2>1. Cardinality({row}) = 1
    BY FS_Singleton
  <2>2. Cardinality(seen) # 0
    BY <1>4, <1>5, <2>1
  <2> QED BY <2>2, FS_EmptySet
<1>7. Matches(i, row)
  <2>1. \A x \in seen : Matches(i, x)
    BY <1>5 DEF Goto, SerialInv, ShapeInv
  <2> QED BY <1>4, <1>6, <2>1
<1> QED BY <1>2, <1>4, <1>7 DEF Matches

LEMMA OwnedStep ==
  ASSUME SerialInv, ReaderInv, OwnedInv, NEW i \in Importers, Import(i)
  PROVE  OwnedInv'
<1>0. doc' = doc /\ pc \in [Importers -> Stages]
  BY ImportFrame DEF SerialInv, ShapeInv, ReaderInv, given
<1>1. \A k \in Importers \ {i} : pc'[k] = pc[k]
  BY ImportFrame DEF SerialInv, ReaderInv
<1> SUFFICES ASSUME NEW k \in Importers, pc'[k] \in {"delete", "nodes", "edges", "commit"},
                    NEW n \in nodes'
             PROVE  doc[n.by].owner = doc[k].owner /\ doc[n.by].projection = doc[k].projection
  BY <1>0 DEF OwnedInv
<1>2. CASE Commit(i)
  <2>1. pc'[i] \notin {"delete", "nodes", "edges", "commit"} /\ Active(i)
    BY <1>0, <1>2 DEF Commit, Goto, Active, Ended
  <2>2. k # i /\ Active(k)
    BY <1>1, <2>1 DEF Active, Ended
  <2> QED BY <2>1, <2>2, OthersIdle
<1>3. CASE nodes' = nodes
  <2>1. CASE pc[k] \in {"delete", "nodes", "edges", "commit"}
    BY <1>3, <2>1 DEF OwnedInv
  <2>2. CASE pc[k] \notin {"delete", "nodes", "edges", "commit"}
    <3>1. k = i /\ CheckOwnership(i) /\ pc'[i] = "delete"
      <4>1. k = i
        BY <1>1, <2>2
      <4>2. ~Reading(i)
        BY <1>0, <2>2, <4>1, ReadingFrame DEF ReadStages
      <4> QED BY <1>0, <2>2, <4>1, <4>2 DEF Import, Reading, Goto, Begin, CreateNodeIndex,
                 CreateRelationIndex, CheckOwnership, DeleteNamespace, CreateNodes, CreateEdges,
                 Commit, TxFails, Compare, Fails, TxStages
    <3> QED BY <1>3, <3>1, CheckedOwnership
  <2> QED BY <2>1, <2>2
<1>4. CASE Reading(i)
  BY <1>3, <1>4, ReadingFrame DEF store
<1> QED BY <1>2, <1>3, <1>4 DEF Import, Reading, Begin, CreateNodeIndex, CreateRelationIndex,
           CreateIndex, CheckOwnership, DeleteNamespace, CreateNodes, CreateEdges, TxFails, RollBack,
           store, Compare, Fails

\* A namespace that shows something holds the image of the document it shows.
LEMMA ShownIsHeld ==
  ASSUME NEW w \in Writers, serial, Holds(w), nodes # {}
  PROVE  Shown = doc[w]
<1>1. \A v \in Writers : Holds(v) => v = w
  <2>1. PICK n : n \in nodes
    OBVIOUS
  <2>2. \A v \in Writers : Holds(v) => n.by = v
    BY <2>1 DEF Holds, Image
  <2> QED BY <2>2
<1>2. (CHOOSE v \in Writers : nodes # {} /\ Holds(v)) = w
  BY <1>1
<1> QED BY <1>2 DEF Shown

LEMMA NothingShown == ASSUME nodes = {} \/ ~serial PROVE Shown = NoGraph
BY DEF Shown

\* The same two facts of the next state.
LEMMA ShownIsHeldNext ==
  ASSUME NEW w \in Writers, serial', Holds(w)', nodes' # {}
  PROVE  Shown' = doc'[w]
<1>1. \A v \in Writers : Holds(v)' => v = w
  <2>1. PICK n : n \in nodes'
    OBVIOUS
  <2>2. \A v \in Writers : Holds(v)' => n.by = v
    BY <2>1 DEF Holds, Image
  <2> QED BY <2>2
<1>2. (CHOOSE v \in Writers : nodes' # {} /\ Holds(v)') = w
  BY <1>1
<1> QED BY <1>2 DEF Shown
LEMMA ShownInit == Init => Namespace!Init
<1> SUFFICES ASSUME Init PROVE Namespace!Init
  OBVIOUS
<1>1. (serial => SerialInv) /\ doc \in [Writers -> Documents]
  BY SerialInit, DocumentsAssumption DEF Init
<1>2. CASE nodes = {} \/ ~serial
  BY <1>2, NothingShown DEF Namespace!Init
<1>3. CASE nodes # {} /\ serial
  <2>1. PICK w \in Writers : Holds(w)
    BY <1>1, <1>3 DEF SerialInv, WholeOrEmpty, store
  <2>2. Shown = doc[w] /\ doc[w] \in Documents
    BY <1>1, <1>3, <2>1, ShownIsHeld
  <2>3. doc[w].nodes # {}
    BY <1>3, <2>1 DEF Holds, Image
  <2> QED BY <2>2, <2>3 DEF Namespace!Init
<1> QED BY <1>2, <1>3

\* A commit replaces what is shown under the same identity; nothing else does.
LEMMA NamespaceStep ==
  ASSUME SerialInv, ReaderInv, OwnedInv, [Next]_vars
  PROVE  [Namespace!Next]_Shown
<1>1. doc \in [Writers -> Documents] /\ serial /\ serial' = serial /\ doc' = doc
  BY StillSerial DEF ReaderInv, RecordInv, SerialInv, given
<1>2. CASE doc' = doc /\ nodes' = nodes /\ rels' = rels
  <2>1. Shown' = Shown
    BY <1>1, <1>2 DEF Shown, Holds, Image, Linked
  <2> QED BY <2>1
<1>3. ASSUME NEW i \in Importers, Commit(i) PROVE [Namespace!Next]_Shown
  <2>1. doc' = doc /\ pc[i] = "commit" /\ doc[i] \in Documents
    BY <1>1, <1>3 DEF Commit, Writers
  <2>2. dropped[i] = nodes /\ made[i] = Image(i) /\ links[i] = Linked(i, Image(i))
    BY <2>1 DEF SerialInv, TxInv
  <2>3. nodes' = Image(i)
    BY <1>3, <2>2 DEF Commit, Apply, Visible
  <2>4. rels' = Linked(i, Image(i))
    <3>1. {r \in rels : {r.source, r.target} \cap nodes = {}} = {}
      BY DEF SerialInv, RelsJoinNodes
    <3> QED BY <1>3, <2>2, <3>1 DEF Commit, Apply
  <2>5. Holds(i)'
    BY <2>1, <2>3, <2>4 DEF Holds, Image, Linked
  <2>6. Shown' = IF doc[i].nodes = {} THEN NoGraph ELSE doc[i]
    <3>1. CASE nodes' = {}
      <4>1. doc[i].nodes = {}
        <5>1. \A x \in doc[i].nodes : [by |-> i, entity |-> x] \in Image(i)
          BY DEF Image
        <5> QED BY <2>3, <3>1, <5>1
      <4>2. Shown' = NoGraph
        BY <3>1 DEF Shown
      <4> QED BY <4>1, <4>2
    <3>2. CASE nodes' # {}
      <4>1. doc[i].nodes # {}
        BY <2>3, <3>2 DEF Image
      <4>2. Shown' = doc'[i]
        BY <1>1, <2>5, <3>2, ShownIsHeldNext DEF Writers
      <4> QED BY <2>1, <4>1, <4>2
    <3> QED BY <3>1, <3>2
  <2>7. ASSUME Shown # NoGraph
        PROVE  /\ Shown \in Documents
               /\ Shown.owner = doc[i].owner /\ Shown.projection = doc[i].projection
    <3>1. nodes # {}
      BY <2>7, NothingShown
    <3>2. PICK w \in Writers : Holds(w)
      BY <3>1 DEF SerialInv, WholeOrEmpty, store
    <3>3. Shown = doc[w] /\ doc[w] \in Documents
      BY <1>1, <3>1, <3>2, ShownIsHeld
    <3>4. PICK n : n \in nodes /\ n.by = w
      BY <3>1, <3>2 DEF Holds, Image
    <3> QED BY <2>1, <3>3, <3>4 DEF OwnedInv
  <2> DEFINE Identity == [d \in Documents |-> <<d.owner, d.projection>>]
  <2>8. Shown # NoGraph => Identity[Shown] = Identity[doc[i]]
    BY <2>1, <2>7
  <2>9. Namespace!Replace(doc[i])
    BY <2>1, <2>6, <2>8 DEF Namespace!Replace
  <2> QED BY <2>1, <2>9 DEF Namespace!Next
<1>4. (doc' = doc /\ nodes' = nodes /\ rels' = rels) \/ \E i \in Importers : Commit(i)
  <2>1. ASSUME NEW i \in Importers, Import(i), ~Commit(i) PROVE nodes' = nodes /\ rels' = rels
    <3>1. CASE Reading(i)
      BY <3>1, ReadingFrame DEF store
    <3> QED BY <2>1, <3>1 DEF Import, Reading, Begin, CreateNodeIndex, CreateRelationIndex, CreateIndex,
               CheckOwnership, DeleteNamespace, CreateNodes, CreateEdges, TxFails, RollBack, store,
               Compare, Fails
  <2> QED BY <1>1, <2>1 DEF Next, vars, store
<1> QED BY <1>2, <1>3, <1>4

\* A transactional replacement never shows half a graph and never replaces one
\* of another identity (json_neo4j_parity.py:280-333).
THEOREM NamespaceImplemented == Spec => ImplementsNamespace
<1> DEFINE Inv == serial => SerialInv /\ ReaderInv /\ OwnedInv
<1>1. Init => Inv
  BY SerialInit, ReaderInit DEF Init, OwnedInv
<1>2. Inv /\ [Next]_vars => Inv'
  <2>1. ASSUME OwnedInv, UNCHANGED vars PROVE OwnedInv'
    BY <2>1 DEF OwnedInv, vars, given, store
  <2> QED BY <2>1, SerialStep, StillReading, OwnedStep, StillSerial DEF Next, given
<1>3. Inv /\ [Next]_vars => [Namespace!Next]_Shown
  <2>1. CASE serial
    BY <2>1, NamespaceStep
  <2>2. ASSUME ~serial, [Next]_vars PROVE Shown' = Shown
    BY <2>2, StillSerial DEF Shown, given
  <2> QED BY <2>1, <2>2
<1> QED BY <1>1, <1>2, <1>3, ShownInit, PTL DEF Spec, ImplementsNamespace, Namespace!Spec
=============================================================================
