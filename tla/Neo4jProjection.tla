--------------------------- MODULE Neo4jProjection ---------------------------
(***************************************************************************)
(* import_neo4j (src/runtime/json_neo4j_parity.py): project an             *)
(* authoritative graph into one Neo4j namespace, read it back and compute  *)
(* the parity diff.  An importer is one call: the last stage of a run or   *)
(* of a batch graph, or rebuild_projection.                                *)
(*                                                                         *)
(* The database is external.  A statement is atomic and sees what is       *)
(* committed when it runs (read committed) and its own transaction's       *)
(* writes; what it deletes or links stays locked until the transaction     *)
(* ends; nothing in it keeps two nodes from carrying the same entity_id.   *)
(***************************************************************************)
EXTENDS Naturals, FiniteSets

CONSTANTS
  Importers,   \* calls of import_neo4j on one namespace
  Earlier,     \* whoever filled the namespace before them
  Documents,   \* what may be imported
  Databases,   \* what the database may already have: indexes, stray graph ids
  Contended,   \* bound: documents of the importers that may overlap
  MaxAttempts, \* bound: attempts of the managed transaction
  NoGraph      \* what an empty namespace shows

ASSUME ImportersAssumption ==
  Earlier \notin Importers /\ MaxAttempts \in Nat \ {0}

\* FinalGraph refuses two edges of one id (final_graph_contract.py:128-130).
ASSUME DocumentsAssumption ==
  /\ Contended \subseteq Documents
  /\ NoGraph \notin Documents
  /\ \A d \in Documents : \A e, f \in d.edges : e.id = f.id => e = f

Writers == Importers \cup {Earlier}

VARIABLES
  serial,   \* whether each importer starts only when the others have ended
  doc,      \* the document of each writer
  nodes,    \* committed nodes: which writer created it, for which entity
  rels,     \* committed relationships, between nodes
  indexes,  \* the indexes of the database
  stray,    \* foreign data of the database: "missing" or "blank" graph ids
  pc,       \* where each importer is
  attempt,  \* its attempt at the transaction
  dropped,  \* committed nodes its open transaction has deleted
  made,     \* nodes its open transaction has created
  links,    \* relationships its open transaction has created
  read,     \* what it has read back
  diff      \* its parity diff, once computed: none or one record

store == <<nodes, rels>>
tx == <<dropped, made, links>>
given == <<serial, doc, stray>>
vars == <<given, store, indexes, pc, attempt, tx, read, diff>>

TxStages == {"check", "delete", "nodes", "edges", "commit"}
IndexStages == {"nodeIndex", "relationIndex"}
ReadStages == {"readNodes", "readEdges", "readMissing", "readLabels", "readTypes",
               "readIndexes", "readBlank", "compare"}
Ended == {"done", "raised"}

Ids(d) == {e.id : e \in d.edges}
\* What every projected property of a node carries: its owner and its values.
Values(w) == <<doc[w].owner, doc[w].content>>
Image(w) == [by : {w}, entity : doc[w].nodes]

\* What MATCH (a {entity_id: row.source}) MATCH (b {entity_id: row.target})
\* CREATE (a)-[r]->(b) makes: one relationship for every pair that matches.
Linked(w, visible) ==
  UNION {{[by |-> w, id |-> e.id, source |-> a, target |-> b] :
            a \in {n \in visible : n.entity = e.source /\ doc[n.by].projection = doc[w].projection},
            b \in {n \in visible : n.entity = e.target /\ doc[n.by].projection = doc[w].projection}}
         : e \in doc[w].edges}

NothingRead == [nodes |-> {}, rels |-> {}, missing |-> {}, labels |-> {}, types |-> {},
                indexes |-> {}, blank |-> {}]
Dangling(d) == {e \in d.edges : ~({e.source, e.target} \subseteq d.nodes)}

Init ==
  /\ serial \in BOOLEAN
  /\ doc \in [Writers -> IF serial THEN Documents ELSE Contended]
  /\ \E filled \in BOOLEAN :
       /\ filled => doc[Earlier].valid /\ Dangling(doc[Earlier]) = {}
       /\ nodes = IF filled THEN Image(Earlier) ELSE {}
       /\ rels = IF filled THEN Linked(Earlier, Image(Earlier)) ELSE {}
  /\ \E database \in Databases :
       indexes = database.indexes /\ stray = database.stray
  /\ pc = [i \in Importers |-> "idle"]
  /\ attempt = [i \in Importers |-> 1]
  /\ dropped = [i \in Importers |-> {}] /\ made = dropped /\ links = dropped
  /\ read = [i \in Importers |-> NothingRead]
  /\ diff = [i \in Importers |-> {}]
-----------------------------------------------------------------------------
(* Indexes and the managed write transaction.                              *)

Goto(i, s) == pc' = [pc EXCEPT ![i] = s]

\* Edges are validated before the database is touched.
Begin(i) ==
  /\ pc[i] = "idle"
  /\ serial => \A j \in Importers \ {i} : pc[j] \in {"idle"} \cup Ended
  /\ Goto(i, IF doc[i].valid THEN "nodeIndex" ELSE "raised")
  /\ UNCHANGED <<given, store, indexes, attempt, tx, read, diff>>

\* The two indexes of a projection, on graph_id.
ExpectedIndex(kind, p) == [name |-> <<kind, p>>, on |-> <<kind, p>>, over |-> "graph_id"]
ExpectedIndexes(p) == {ExpectedIndex(kind, p) : kind \in {"node", "relation"}}

\* CREATE INDEX ... IF NOT EXISTS, a statement and a transaction of its own: it
\* does nothing when the name, or an index of the same schema, exists.
CreateIndex(i, kind) ==
  /\ indexes' = indexes \cup
       {x \in {ExpectedIndex(kind, doc[i].projection)} :
          \A y \in indexes : y.name # x.name /\ <<y.on, y.over>> # <<x.on, x.over>>}
  /\ UNCHANGED <<given, store, attempt, tx, read, diff>>

CreateNodeIndex(i) ==
  /\ pc[i] = "nodeIndex"
  /\ CreateIndex(i, "node")
  /\ Goto(i, "relationIndex")

CreateRelationIndex(i) ==
  /\ pc[i] = "relationIndex"
  /\ CreateIndex(i, "relation")
  /\ Goto(i, IF Dangling(doc[i]) = {} THEN "check" ELSE "readNodes")

Visible(i) == (nodes \ dropped[i]) \cup made[i]

\* The ownership query: the nodes of the namespace, grouped by owner and label,
\* with the types of the relationships each group takes part in.
Group(n) == <<doc[n.by].owner, doc[n.by].projection>>
OwnershipRows ==
  {[owner |-> group[1], label |-> group[2],
    types |-> {doc[r.by].projection :
                 r \in {x \in rels : group \in {Group(x.source), Group(x.target)}}}]
   : group \in {Group(n) : n \in nodes}}

\* Mutant: the query's rows are not compared with the importer's identity.
Matches_Owner(i, row) == TRUE

Matches(i, row) ==
  /\ row.owner = doc[i].owner
  /\ row.label = doc[i].projection
  /\ row.types \subseteq {doc[i].projection}

\* RETURN DISTINCT ... LIMIT 2: any two of the rows.  A row that does not match
\* raises NamespaceOwnershipError, which is not retried.
CheckOwnership(i) ==
  /\ pc[i] = "check"
  /\ \E seen \in SUBSET OwnershipRows :
         /\ Cardinality(seen) =
              IF Cardinality(OwnershipRows) < 2 THEN Cardinality(OwnershipRows) ELSE 2
         /\ Goto(i, IF \A row \in seen : Matches(i, row) THEN "delete" ELSE "raised")
  /\ UNCHANGED <<given, store, indexes, attempt, tx, read, diff>>

\* Committed nodes that the open transactions of others hold.
Locked(i) ==
  UNION {dropped[j] \cup {r.source : r \in links[j]} \cup {r.target : r \in links[j]}
         : j \in Importers \ {i}}

DeleteNamespace(i) ==
  /\ pc[i] = "delete"
  /\ Visible(i) \cap Locked(i) = {}
  /\ dropped' = [dropped EXCEPT ![i] = Visible(i)]
  /\ Goto(i, "nodes")
  /\ UNCHANGED <<given, store, indexes, attempt, made, links, read, diff>>

CreateNodes(i) ==
  /\ pc[i] = "nodes"
  /\ made' = [made EXCEPT ![i] = Image(i)]
  /\ Goto(i, "edges")
  /\ UNCHANGED <<given, store, indexes, attempt, dropped, links, read, diff>>

CreateEdges(i) ==
  /\ pc[i] = "edges"
  /\ LET new == Linked(i, Visible(i)) IN
       /\ ({r.source : r \in new} \cup {r.target : r \in new}) \cap Locked(i) = {}
       /\ links' = [links EXCEPT ![i] = new]
  /\ Goto(i, "commit")
  /\ UNCHANGED <<given, store, indexes, attempt, dropped, made, read, diff>>

EndTx(i) ==
  /\ dropped' = [dropped EXCEPT ![i] = {}]
  /\ made' = [made EXCEPT ![i] = {}]
  /\ links' = [links EXCEPT ![i] = {}]

\* What a commit leaves in the database.
Apply(i) ==
  /\ nodes' = Visible(i)
  /\ rels' = {r \in rels : {r.source, r.target} \cap dropped[i] = {}} \cup links[i]

\* The reply to a commit may be lost: the driver does not retry it then.
Commit(i) ==
  /\ pc[i] = "commit"
  /\ Apply(i) /\ EndTx(i)
  /\ \/ Goto(i, "readNodes")
     \/ Goto(i, "raised")
  /\ UNCHANGED <<given, indexes, attempt, read, diff>>

\* Mutant: the deletion of the nodes is committed on its own.
RollBack_Partly(i) == EndTx(i) /\ nodes' = nodes \ dropped[i] /\ rels' = rels

RollBack(i) == EndTx(i) /\ UNCHANGED store

\* A statement fails: a transient error is retried by execute_write, any other
\* one, and the death of the process, ends the importer.
TxFails(i) ==
  /\ pc[i] \in TxStages
  /\ RollBack(i)
  /\ \/ /\ attempt[i] < MaxAttempts
        /\ attempt' = [attempt EXCEPT ![i] = @ + 1]
        /\ Goto(i, "check")
     \/ Goto(i, "raised") /\ UNCHANGED attempt
  /\ UNCHANGED <<given, indexes, read, diff>>
-----------------------------------------------------------------------------
(* Reading back, each query in a transaction of its own, and comparing.    *)

Reads(i, at, found, next) ==
  /\ pc[i] = at
  /\ read' = [read EXCEPT ![i] = found]
  /\ Goto(i, next)
  /\ UNCHANGED <<given, store, indexes, attempt, tx, diff>>

ReadNodes(i) ==
  Reads(i, "readNodes",
    [read[i] EXCEPT !.nodes = {n \in nodes : doc[n.by].projection = doc[i].projection}],
    "readEdges")

ReadEdges(i) ==
  Reads(i, "readEdges",
    [read[i] EXCEPT !.rels = {r \in rels : doc[r.by].projection = doc[i].projection}],
    "readMissing")

\* Relationships without a graph id.
ReadMissing(i) ==
  Reads(i, "readMissing", [read[i] EXCEPT !.missing = stray \cap {"missing"}], "readLabels")

\* Labels and types in use in the namespace.
ReadLabels(i) ==
  Reads(i, "readLabels",
    [read[i] EXCEPT !.labels = {doc[n.by].projection : n \in nodes}], "readTypes")

ReadTypes(i) ==
  Reads(i, "readTypes",
    [read[i] EXCEPT !.types = {doc[r.by].projection : r \in rels}], "readIndexes")

ReadIndexes(i) ==
  Reads(i, "readIndexes", [read[i] EXCEPT !.indexes = indexes], "readBlank")

\* Blank graph ids.
ReadBlank(i) ==
  Reads(i, "readBlank", [read[i] EXCEPT !.blank = stray \cap {"blank"}], "compare")

\* The records are put into dictionaries: of those with one id, one survives.
ByKey(records, key) ==
  {f \in [{key[x] : x \in records} -> records] : \A k \in DOMAIN f : key[f[k]] = k}

\* Mutant: the ownership properties are not compared.
Mismatched_Content(i, ids, record) ==
  {k \in ids : Values(record[k].by)[2] # Values(i)[2]}

Mismatched(i, ids, record) == {k \in ids : Values(record[k].by) # Values(i)}

\* build_parity_diff: the sets whose emptiness is the verdict.
ParityDiff(i, node, edge) ==
  LET d == doc[i]
      p == {d.projection}
      endpoints(e) == <<edge[e.id].source.entity, edge[e.id].target.entity>>
      own == {x \in read[i].indexes : x.on \in {<<"node", d.projection>>, <<"relation", d.projection>>}}
      expected == ExpectedIndexes(d.projection)
  IN [json_only_nodes |-> d.nodes \ DOMAIN node,
      neo4j_only_nodes |-> DOMAIN node \ d.nodes,
      json_only_edges |-> Ids(d) \ DOMAIN edge,
      neo4j_only_edges |-> DOMAIN edge \ Ids(d),
      source_target_mismatches |->
        {e.id : e \in {x \in d.edges : x.id \in DOMAIN edge /\ endpoints(x) # <<x.source, x.target>>}},
      import_errors |-> {e.id : e \in Dangling(d)},
      missing_labels |-> p \ read[i].labels,
      unexpected_labels |-> read[i].labels \ p,
      missing_types |-> p \ read[i].types,
      unexpected_types |-> read[i].types \ p,
      node_property_mismatches |->
        Mismatched(i, d.nodes \cap DOMAIN node, node),
      relationship_property_mismatches |->
        Mismatched(i, Ids(d) \cap DOMAIN edge, edge),
      missing_indexes |-> {x.name : x \in expected} \ {x.name : x \in read[i].indexes},
      unexpected_indexes |-> {x.name : x \in own} \ {x.name : x \in expected},
      misconfigured_indexes |->
        {x.name : x \in {y \in read[i].indexes :
           \E z \in expected : y.name = z.name /\ (y.on # z.on \/ y.over # z.over)}},
      edges_without_graph_id |-> read[i].missing,
      unexpected_graph_ids |-> read[i].blank]

Compare(i) ==
  /\ pc[i] = "compare"
  /\ \E node \in ByKey(read[i].nodes, [n \in read[i].nodes |-> n.entity]),
        edge \in ByKey(read[i].rels, [r \in read[i].rels |-> r.id]) :
       diff' = [diff EXCEPT ![i] = {ParityDiff(i, node, edge)}]
  /\ Goto(i, "done")
  /\ UNCHANGED <<given, store, indexes, attempt, tx, read>>

\* An index statement, a query or the process fails outside the transaction.
Fails(i) ==
  /\ pc[i] \in IndexStages \cup ReadStages
  /\ Goto(i, "raised")
  /\ UNCHANGED <<given, store, indexes, attempt, tx, read, diff>>

Import(i) ==
  \/ Begin(i) \/ CreateNodeIndex(i) \/ CreateRelationIndex(i)
  \/ CheckOwnership(i) \/ DeleteNamespace(i) \/ CreateNodes(i) \/ CreateEdges(i)
  \/ Commit(i) \/ TxFails(i)
  \/ ReadNodes(i) \/ ReadEdges(i) \/ ReadMissing(i) \/ ReadLabels(i)
  \/ ReadTypes(i) \/ ReadIndexes(i) \/ ReadBlank(i)
  \/ Compare(i) \/ Fails(i)

AllEnded == \A i \in Importers : pc[i] \in Ended

Next == (\E i \in Importers : Import(i)) \/ (AllEnded /\ UNCHANGED vars)

Spec == Init /\ [][Next]_vars
-----------------------------------------------------------------------------
Passed(i) == \E d \in diff[i] : \A field \in DOMAIN d : d[field] = {}

\* The namespace holds exactly what a writer's document says.
Holds(w) == nodes = Image(w) /\ rels = Linked(w, Image(w))

ProjectionTypeOK ==
  /\ serial \in BOOLEAN
  /\ doc \in [Writers -> Documents]
  /\ nodes \subseteq [by : Writers, entity : UNION {d.nodes : d \in Documents}]
  /\ \A r \in rels : {r.source, r.target} \subseteq nodes
  /\ pc \in [Importers -> {"idle"} \cup IndexStages \cup TxStages \cup ReadStages \cup Ended]
  /\ attempt \in [Importers -> 1 .. MaxAttempts]
  /\ \A i \in Importers : pc[i] \notin TxStages => dropped[i] \cup made[i] \cup links[i] = {}

\* One import at a time: the namespace is at every moment either empty or the
\* whole image of one document, whatever failed, was retried or lost its reply
\* (json_neo4j_parity.py:280-333; README.md:301).
WholeOrEmpty ==
  serial => store = <<{}, {}>> \/ \E w \in Writers : Holds(w)

\* What an importer read back is its document: the same entities and edges, and
\* of the records of each at least one with its values and endpoints.
ReadsAs(i) ==
  LET d == doc[i] IN
  /\ {n.entity : n \in read[i].nodes} = d.nodes
  /\ \A entity \in d.nodes :
       \E n \in read[i].nodes : n.entity = entity /\ Values(n.by) = Values(i)
  /\ {r.id : r \in read[i].rels} = Ids(d)
  /\ \A e \in d.edges :
       \E r \in read[i].rels :
         /\ r.id = e.id /\ Values(r.by) = Values(i)
         /\ <<r.source.entity, r.target.entity>> = <<e.source, e.target>>
  /\ Dangling(d) = {}

\* Also when imports of one namespace overlap, and each sees another's nodes
\* come and go between its queries: a diff that passes proves that the database
\* showed this import's document, up to copies of one id; the dictionaries keep
\* one record of each (json_neo4j_parity.py:215-238, 414-439).
PassedProvesReadBack ==
  \A i \in Importers : Passed(i) => ReadsAs(i)

\* A lone import of a document with nodes and edges fails parity only for what
\* is foreign to it: a stray graph id, an index it did not create
\* (json_neo4j_parity.py:357-439).
LoneImportPasses ==
  \A i \in Importers :
    serial /\ pc[i] = "done" /\ ~Passed(i)
      => \/ stray # {}
         \/ ~(indexes \subseteq ExpectedIndexes(doc[i].projection))
         \/ doc[i].nodes = {} \/ doc[i].edges = {} \/ Dangling(doc[i]) # {}

\* The state invariant of the importer.
ProjectionInv ==
  ProjectionTypeOK /\ WholeOrEmpty /\ LoneImportPasses

\* What the namespace shows: the document of the writer whose image it holds.
\* Nothing is promised of imports that overlap.
Shown ==
  IF serial /\ \E w \in Writers : nodes # {} /\ Holds(w)
  THEN doc[CHOOSE w \in Writers : nodes # {} /\ Holds(w)]
  ELSE NoGraph

Namespace == INSTANCE ProjectedNamespace WITH
  Graphs   <- Documents,
  Empty    <- {d \in Documents : d.nodes = {}},
  Identity <- [d \in Documents |-> <<d.owner, d.projection>>],
  Nothing  <- NoGraph,
  shown    <- Shown

\* The transactional replacement implements the promise of ProjectedNamespace,
\* one import at a time (json_neo4j_parity.py:280-333).
ImplementsNamespace == Namespace!Spec
=============================================================================
