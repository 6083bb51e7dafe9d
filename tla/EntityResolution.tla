-------------------------- MODULE EntityResolution --------------------------
(***************************************************************************)
(* resolve_entities (src/runtime/observable_entity_resolution.py): one     *)
(* embedding call, a decision for every pair of entities, the restriction  *)
(* to nearest pairs above a size limit, and the union-find over the pairs  *)
(* decided MERGE, node by node.                                            *)
(*                                                                         *)
(* Entities are numbered in extraction order, which is also the order of   *)
(* their local ids.  A name is its tokens, its punctuation and its case.   *)
(* The contracts give every relation evidence and no entity a typed        *)
(* semantic attribute, so those two tests never fire in a run.             *)
(***************************************************************************)
EXTENDS Integers, FiniteSets, Sequences

CONSTANTS
  Count,         \* how many entities were extracted
  Inputs,        \* extractions with their settings and similarities
  Responses,     \* index sequences an embedding response may carry
  Equivalences   \* the raw relations that state an equivalence

ASSUME CountAssumption == Count \in Nat
ASSUME ResponsesAssumption == Responses \subseteq Seq(Int)

Entities == 1 .. Count
Pairs == {p \in Entities \X Entities : p[1] < p[2]}

VARIABLES
  input,    \* names, types, units, relations, similarity, settings
  stage,    \* where resolve_entities is
  vectors,  \* the entity whose vector each entity was given
  decided,  \* the pairs exposed for a decision
  todo,     \* pairs decided MERGE and not linked yet
  merged,   \* pairs decided MERGE and linked
  pair,     \* the pair being linked
  parent,   \* the union-find forest
  at,       \* where find is
  left,     \* the root of the left entity, once found
  ids       \* the global id of each entity that has one

finder == <<todo, merged, pair, parent, at, left>>
vars == <<input, stage, vectors, decided, finder, ids>>
-----------------------------------------------------------------------------
(* Decisions.                                                              *)

Joins(r, p) == {r.source, r.target} = {p[1], p[2]}

\* _explicit_equivalence_evidence and _direct_distinct_relation_pairs.
Explicit(p) == \E r \in input.relations : Joins(r, p) /\ r.raw \in Equivalences
Distinct(p) == \E r \in input.relations : Joins(r, p) /\ r.raw \notin Equivalences

\* _incident_context: what the relations of an entity connect it with.
Incident(i) == {r \in input.relations : i \in {r.source, r.target}}
Families(i) == {r.family : r \in Incident(i)}
Neighbours(i) ==
  {input.types[r.target] : r \in {x \in Incident(i) : x.source = i}}
  \cup {input.types[r.source] : r \in {x \in Incident(i) : x.target = i}}

Contains(long, short) ==
  /\ short # <<>> /\ Len(long) > Len(short)
  /\ \E k \in 0 .. Len(long) - Len(short) : SubSeq(long, k + 1, k + Len(short)) = short

NameRelation(m, n) ==
  IF m = n THEN "EXACT"
  ELSE IF m.tokens = n.tokens /\ m.marks = n.marks THEN "CASE_ONLY"
  ELSE IF Contains(m.tokens, n.tokens) \/ Contains(n.tokens, m.tokens)
  THEN "TOKEN_CONTAINMENT_EXPANSION" ELSE "DIFFERENT"

Relation(p) == NameRelation(input.names[p[1]], input.names[p[2]])

Compatible(p) ==
  \/ /\ input.units[p[1]] # input.units[p[2]]
     /\ \/ Relation(p) = "EXACT" /\ input.exactNameCrossUnitMerge
        \/ Relation(p) = "CASE_ONLY" /\ input.caseOnlyNameMerge
  \/ Families(p[1]) \cap Families(p[2]) # {}
  \/ Neighbours(p[1]) \cap Neighbours(p[2]) # {}

Similarity(p) == input.similarity[{vectors[p[1]], vectors[p[2]]}]

\* _structural_decision, in the order of its tests.
Decision(p) ==
  IF Explicit(p) THEN "MERGE"
  ELSE IF Distinct(p) THEN "KEEP_SEPARATE"
  ELSE IF Similarity(p) < input.candidateThreshold THEN "BELOW_CANDIDATE_THRESHOLD"
  ELSE IF \/ Similarity(p) < input.mergeThreshold
          \/ Relation(p) = "TOKEN_CONTAINMENT_EXPANSION"
          \/ input.requireContext /\ ~Compatible(p)
  THEN "UNRESOLVED" ELSE "MERGE"

\* The topK nearest of an entity: by score, then by id, both descending.
Nearest(i) ==
  LET score(j) == Similarity(<<i, j>>)
      before(j) == {m \in Entities \ {i} : score(m) > score(j) \/ (score(m) = score(j) /\ m > j)}
  IN {j \in Entities \ {i} : Cardinality(before(j)) < input.topK}

\* Mutant: an explicit equivalence must be among the nearest, too.
Selected_Nearest == {p \in Pairs : p[2] \in Nearest(p[1]) \/ p[1] \in Nearest(p[2])}

Selected == {p \in Pairs : p[2] \in Nearest(p[1]) \/ p[1] \in Nearest(p[2]) \/ Explicit(p)}
-----------------------------------------------------------------------------
Init ==
  /\ input \in Inputs
  /\ stage = "embed"
  /\ vectors = <<>> /\ decided = {}
  /\ todo = {} /\ merged = {} /\ pair = <<>> /\ at = 0 /\ left = 0
  /\ parent = [i \in Entities |-> i]
  /\ ids = <<>>

\* Mutant: the vectors are taken in the order of the response.
Assigned_AsReceived(data) == [i \in Entities |-> data[i] + 1]

\* The items are sorted by their index; item k is the vector of input data[k].
Assigned(data) ==
  LET smaller(k) == {m \in Entities : data[m] < data[k]}
      ranked(i) == CHOOSE k \in Entities : Cardinality(smaller(k)) = i - 1
  IN [i \in Entities |-> data[ranked(i)] + 1]

\* request_embeddings: every index exactly once, in any order.
Accepted(data) == Len(data) = Count /\ {data[k] : k \in DOMAIN data} = 0 .. Count - 1

Embed ==
  /\ stage = "embed"
  /\ \E data \in Responses :
       IF Accepted(data)
       THEN stage' = "decide" /\ vectors' = Assigned(data)
       ELSE stage' = "failed" /\ UNCHANGED vectors
  /\ UNCHANGED <<input, decided, finder, ids>>

\* The HTTP call fails, or the body is not what it should be.
EmbeddingFails == stage = "embed" /\ stage' = "failed" /\ UNCHANGED <<input, vectors, decided, finder, ids>>

Decide ==
  /\ stage = "decide"
  /\ decided' = IF Count > input.pairwiseLimit THEN Selected ELSE Pairs
  /\ todo' = {p \in decided' : Decision(p) = "MERGE"}
  /\ stage' = "next"
  /\ UNCHANGED <<input, vectors, merged, pair, parent, at, left, ids>>

Earliest(p) == \A q \in todo : p[1] < q[1] \/ (p[1] = q[1] /\ p[2] <= q[2])

\* parent[find(right)] = find(left): the left find comes first.
NextPair ==
  /\ stage = "next"
  /\ \E p \in todo :
       /\ Earliest(p)
       /\ pair' = p /\ at' = p[1] /\ todo' = todo \ {p}
  /\ stage' = "findLeft"
  /\ UNCHANGED <<input, vectors, decided, merged, parent, left, ids>>

\* Mutant: the loop halves the path and does not go up.
Halve_Stays ==
  /\ stage \in {"findLeft", "findRight"} /\ parent[at] # at
  /\ parent' = [parent EXCEPT ![at] = parent[parent[at]]]
  /\ UNCHANGED <<input, stage, vectors, decided, todo, merged, pair, at, left, ids>>

\* One turn of the loop of find: path halving.
Halve ==
  /\ stage \in {"findLeft", "findRight"} /\ parent[at] # at
  /\ parent' = [parent EXCEPT ![at] = parent[parent[at]]]
  /\ at' = parent[parent[at]]
  /\ UNCHANGED <<input, stage, vectors, decided, todo, merged, pair, left, ids>>

LeftFound ==
  /\ stage = "findLeft" /\ parent[at] = at
  /\ left' = at /\ at' = pair[2] /\ stage' = "findRight"
  /\ UNCHANGED <<input, vectors, decided, todo, merged, pair, parent, ids>>

\* Mutant: the entity is linked in the place of its root.
Linked_Entity == [parent EXCEPT ![pair[2]] = left]

Linked == [parent EXCEPT ![at] = left]

Link ==
  /\ stage = "findRight" /\ parent[at] = at
  /\ parent' = Linked
  /\ merged' = merged \cup {pair} /\ stage' = "next"
  /\ UNCHANGED <<input, vectors, decided, todo, pair, at, left, ids>>

Numbering == stage = "next" /\ todo = {} /\ Len(ids) < Count

\* find of the next entity, in extraction order.
NextEntity ==
  /\ Numbering
  /\ at' = Len(ids) + 1 /\ stage' = "find"
  /\ UNCHANGED <<input, vectors, decided, todo, merged, pair, parent, left, ids>>

HalveToNumber ==
  /\ stage = "find" /\ parent[at] # at
  /\ parent' = [parent EXCEPT ![at] = parent[parent[at]]]
  /\ at' = parent[parent[at]]
  /\ UNCHANGED <<input, stage, vectors, decided, todo, merged, pair, left, ids>>

\* E001, E002, ... in the order of first appearance.
FreshId == Cardinality({ids[k].id : k \in DOMAIN ids}) + 1

\* global_ids.setdefault(root, ...): the id a root already has, or a new one.
Number ==
  /\ stage = "find" /\ parent[at] = at
  /\ LET known == {k \in DOMAIN ids : ids[k].root = at} IN
       ids' = Append(ids, [root |-> at,
                id |-> IF known # {} THEN ids[CHOOSE k \in known : TRUE].id ELSE FreshId])
  /\ stage' = "next"
  /\ UNCHANGED <<input, vectors, decided, todo, merged, pair, parent, at, left>>

Resolved ==
  /\ stage = "next" /\ todo = {} /\ Len(ids) = Count
  /\ stage' = "resolved"
  /\ UNCHANGED <<input, vectors, decided, finder, ids>>

Resolve ==
  \/ Embed \/ EmbeddingFails \/ Decide
  \/ NextPair \/ Halve \/ LeftFound \/ Link
  \/ NextEntity \/ HalveToNumber \/ Number \/ Resolved

Next == Resolve \/ (stage \in {"resolved", "failed"} /\ UNCHANGED vars)

Spec == Init /\ [][Next]_vars /\ WF_vars(Resolve)
-----------------------------------------------------------------------------
\* Two entities are connected when no set closed under the pairs separates them.
Closed(S, E) == \A p \in E : p[1] \in S <=> p[2] \in S
Connected(x, y, E) == \A S \in SUBSET Entities : x \in S /\ Closed(S, E) => y \in S

SameNode(p) == ids[p[1]].id = ids[p[2]].id

ResolutionTypeOK ==
  /\ stage \in {"embed", "decide", "next", "findLeft", "findRight", "find", "resolved", "failed"}
  /\ todo \cup merged \subseteq Pairs
  /\ parent \in [Entities -> Entities]
  /\ stage \in {"findLeft", "findRight", "find"} => at \in Entities
  /\ stage \in {"findLeft", "findRight"} => pair \in Pairs
  /\ stage = "findRight" => left \in Entities /\ parent[left] = left

\* The nodes are exactly the connected components of the MERGE decisions,
\* whatever the order of the pairs and the halved paths (303-325).
NodesAreComponents ==
  stage = "resolved" =>
    \A x, y \in Entities :
      ids[x].id = ids[y].id <=> Connected(x, y, {p \in decided : Decision(p) = "MERGE"})

\* Ids are dense, in the order of first appearance: the same extraction always
\* has the same ids (316-320).
IdsInOrder ==
  \A k \in DOMAIN ids :
    LET earlier == {ids[j].id : j \in 1 .. k - 1} IN
      ids[k].id \in earlier \cup {Cardinality(earlier) + 1}

\* A vector is compared for the entity it was computed for, in whatever order
\* the server answered (embedding_client.py:44-56).
VectorsOfTheirEntities == \A i \in DOMAIN vectors : vectors[i] = i

\* What the text itself equates is one node, also when the pair is not among
\* the nearest (observable_entity_resolution.py:355-371).
EquatedTogether ==
  stage = "resolved" => \A p \in Pairs : Explicit(p) => SameNode(p)

\* Every find reaches a root: the halved forest never has a cycle (306-310).
Terminates == <>(stage \in {"resolved", "failed"})

\* The state invariant of the resolution.
ResolutionInv == ResolutionTypeOK /\ IdsInOrder /\ VectorsOfTheirEntities
=============================================================================
