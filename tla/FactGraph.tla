----------------------------- MODULE FactGraph -----------------------------
(***************************************************************************)
(* From the model's answers to the authoritative graph: the compact        *)
(* contract (src/prompts/contracts.py), enrichment, aggregation, entity    *)
(* resolution as EntityResolution promises it, projection and the final    *)
(* graph contract.  One answer per evidence span, in document order.       *)
(*                                                                         *)
(* A qualifier is free text of the model.  Text is told apart by what the  *)
(* code does with it: <<"text">>; <<"local", n>>, exactly the local id n;  *)
(* <<"mention", n>>, a longer text with that id in it; <<"span", k, i>>,   *)
(* exactly the id of entity i of span k; <<"none">>.  Two relations matter *)
(* by themselves: "blank", white space only, and "long", over 300          *)
(* characters, the limit of a relation's description.                      *)
(***************************************************************************)
EXTENDS Naturals, FiniteSets, Sequences

CONSTANTS
  Documents,    \* the answers of one run: for each span, what the model said
  LastLocalId   \* the last id the pattern M and three digits has room for

ASSUME LastAssumption == LastLocalId \in Nat

Image(s) == {s[k] : k \in DOMAIN s}

Words ==
  {<<"none">>, <<"text">>} \cup ({"local", "mention"} \X (0 .. LastLocalId)) \cup ({"span"} \X Nat \X Nat)

\* The fields of SpanSemanticTemporalExtraction, before its validator.
IsAnswer(a) ==
  /\ a.entities \in Nat
  /\ Len(a.relations) \in Nat /\ DOMAIN a.relations = 1 .. Len(a.relations)
  /\ \A r \in Image(a.relations) : r.condition \in Words
  /\ \A b \in Image(a.bindings) : b.surface \in Words

\* A run has a span, and an answer to each.
ASSUME AnswersAssumption ==
  \A d \in Documents :
    /\ Len(d) \in Nat \ {0} /\ DOMAIN d = 1 .. Len(d)
    /\ \A k \in DOMAIN d : IsAnswer(d[k])

VARIABLES
  answers,      \* the tool arguments of each span
  stage,        \* where the run is
  results,      \* enriched answers, with ids within their span
  extractions,  \* aggregated answers, with ids within the run
  cursor,       \* the next local id
  ids,          \* the global id of each local one
  unit,         \* the next unit to project
  edges,        \* the projected relations
  graph         \* what is persisted: none or one graph

vars == <<answers, stage, results, extractions, cursor, ids, unit, edges, graph>>
-----------------------------------------------------------------------------
(* The worker's checks and the enrichment of one answer.                   *)

\* SpanSemanticTemporalExtraction.validate_status_and_indices.
WellFormed(a) ==
  /\ a.present <=> a.entities > 0 /\ a.relations # <<>>
  /\ ~a.present => a.entities = 0 /\ a.relations = <<>> /\ a.bindings = <<>>
  /\ \A r \in Image(a.relations) : {r.source, r.target} \subseteq 1 .. a.entities
  /\ \A b \in Image(a.bindings) : b.relation \in DOMAIN a.relations
  /\ \A i, j \in DOMAIN a.bindings : a.bindings[i].relation = a.bindings[j].relation => i = j

\* Every bound temporal surface occurs in the evidence text.
Backed(a) == \A b \in Image(a.bindings) : b.backed

Bound(a, i) ==
  LET own == {b \in Image(a.bindings) : b.relation = i} IN
    IF own = {} THEN <<"none">> ELSE (CHOOSE b \in own : TRUE).surface

\* What an accepted relation says, with entities numbered in their span.
Fact(k, i) ==
  LET r == answers[k].relations[i] IN
    [source |-> <<k, r.source>>, target |-> <<k, r.target>>, raw |-> r.raw, family |-> r.family,
     qualifiers |-> [condition |-> r.condition, temporality |-> Bound(answers[k], i)]]

Enriched(k) ==
  [entities |-> [i \in 1 .. answers[k].entities |-> <<k, i>>],
   relations |-> [i \in DOMAIN answers[k].relations |-> Fact(k, i)]]

Init ==
  /\ answers \in Documents
  /\ stage = "enrich"
  /\ results = <<>> /\ extractions = <<>> /\ cursor = 1
  /\ ids = <<>> /\ unit = 1 /\ edges = <<>> /\ graph = {}

\* A span that fails a check fails the run, with terminal_failure.json.
Enrich ==
  /\ stage = "enrich" /\ Len(results) < Len(answers)
  /\ LET k == Len(results) + 1 IN
       IF WellFormed(answers[k]) /\ Backed(answers[k])
       THEN /\ results' = Append(results, Enriched(k))
            /\ stage' = IF k = Len(answers) THEN "aggregate" ELSE "enrich"
       ELSE stage' = "terminalFailure" /\ UNCHANGED results
  /\ UNCHANGED <<answers, extractions, cursor, ids, unit, edges, graph>>
-----------------------------------------------------------------------------
(* Aggregation: one series of local ids for the run.                       *)

CursorAfter(n) == cursor + n

\* FactExtraction.model_validate refuses an id with four digits, and a relation
\* longer than the 300 characters of a description, which enrichment made of it:
\* nothing catches that, and no terminal_failure.json tells of it.
Refused(k) ==
  \/ Len(results[k].entities) > 0 /\ cursor + Len(results[k].entities) - 1 > LastLocalId
  \/ \E r \in Image(results[k].relations) : r.raw = "long"

Aggregate ==
  /\ stage = "aggregate"
  /\ LET k == Len(extractions) + 1
         n == Len(results[k].entities)
         remap(e) == cursor + e[2] - 1
         mapped(q) == IF q[1] = "span" /\ <<q[2], q[3]>> \in Image(results[k].entities)
                      THEN <<"local", remap(<<q[2], q[3]>>)>> ELSE q
         row(r) == [r EXCEPT !.source = remap(r.source), !.target = remap(r.target),
                             !.qualifiers = [q \in DOMAIN @ |-> mapped(@[q])]]
     IN IF Refused(k)
        THEN stage' = "raised" /\ UNCHANGED <<extractions, cursor>>
        ELSE /\ extractions' = Append(extractions,
                  [entities |-> [i \in 1 .. n |-> cursor + i - 1],
                   relations |-> [i \in DOMAIN results[k].relations |-> row(results[k].relations[i])]])
             /\ cursor' = CursorAfter(n)
             /\ stage' = IF k = Len(results) THEN "resolve" ELSE "aggregate"
  /\ UNCHANGED <<answers, results, ids, unit, edges, graph>>

Locals == UNION {Image(extractions[k].entities) : k \in DOMAIN extractions}

\* Any partition of the mentions, numbered by first appearance: what
\* EntityResolution shows of resolve_entities (NodesAreComponents, IdsInOrder).
Resolve ==
  /\ stage = "resolve"
  /\ ids' \in {f \in [Locals -> 1 .. Cardinality(Locals)] :
                 \A n \in Locals : \/ \E m \in Locals : m < n /\ f[m] = f[n]
                                   \/ f[n] = Cardinality({f[m] : m \in {x \in Locals : x < n}}) + 1}
  /\ stage' = "project"
  /\ UNCHANGED <<answers, results, extractions, cursor, unit, edges, graph>>
-----------------------------------------------------------------------------
(* Projection of one unit after the other.                                 *)

Rebind(q) == IF q[1] = "local" /\ q[2] \in Locals THEN <<"node", ids[q[2]]>> ELSE q

\* Mutant: only an exact local id is looked for.
Unresolved_Exact(q) == q[1] = "local"

\* A local id that is left anywhere in the text.
Unresolved(q) == q[1] \in {"local", "mention"}

Edge(k, r) ==
  [unit |-> k, source |-> ids[r.source], target |-> ids[r.target], raw |-> r.raw,
   family |-> r.family, qualifiers |-> [q \in DOMAIN r.qualifiers |-> Rebind(r.qualifiers[q])]]

\* Mutant: the qualifiers are not part of what makes two relations the same.
Signature_Bare(e) == <<e.source, e.raw, e.target, e.unit>>

\* _signature: the evidence of an edge is the span of its unit.
Signature(e) == <<e.source, e.raw, e.target, e.unit, e.qualifiers>>

\* The relations of a unit, the first one of every signature.
Projected(k) ==
  LET rows == extractions[k].relations
      first == {i \in DOMAIN rows :
                  \A j \in 1 .. i - 1 : Signature(Edge(k, rows[j])) # Signature(Edge(k, rows[i]))}
      nth(n) == CHOOSE i \in first : Cardinality({j \in first : j < i}) = n - 1
  IN [n \in 1 .. Cardinality(first) |-> Edge(k, rows[nth(n)])]

\* A ValueError of rebind_qualifier_entity_references ends the run.
Project ==
  /\ stage = "project"
  /\ LET k == unit
         qualifiers == UNION {Image(r.qualifiers) : r \in Image(extractions[k].relations)}
     IN IF \E q \in qualifiers : Unresolved(Rebind(q))
        THEN stage' = "raised" /\ UNCHANGED <<unit, edges>>
        ELSE /\ edges' = edges \o Projected(k) /\ unit' = k + 1
             /\ stage' = IF k = Len(extractions) THEN "validate" ELSE "project"
  /\ UNCHANGED <<answers, results, extractions, cursor, ids, graph>>
-----------------------------------------------------------------------------
(* The final graph.                                                        *)

\* Mutant: a node keeps the evidence of its first mention only.
Nodes_First ==
  {[entity |-> g, mentions |-> {n \in Locals : ids[n] = g},
    evidence |-> {CHOOSE k \in DOMAIN extractions : \E n \in Image(extractions[k].entities) : ids[n] = g}]
   : g \in Image(ids)}

\* globals_from: the mentions of one global id.
Nodes ==
  {[entity |-> g, mentions |-> {n \in Locals : ids[n] = g},
    evidence |-> {k \in DOMAIN extractions : \E n \in Image(extractions[k].entities) : ids[n] = g}]
   : g \in Image(ids)}

\* deduplicate_exact_edges: the edge id is a hash of the signature.
EdgeSet == {edges[i] : i \in {j \in DOMAIN edges : \A m \in 1 .. j - 1 : Signature(edges[m]) # Signature(edges[j])}}

\* FinalGraph: the rules an assembled graph could break.
Contract(nodes, links) ==
  /\ \A a, b \in nodes : a.entity = b.entity => a = b
  /\ \A a, b \in links : Signature(a) = Signature(b) => a = b
  /\ \A e \in links : /\ {e.source, e.target} \subseteq {n.entity : n \in nodes}
                      /\ e.raw # "blank"
                      /\ \A q \in Image(e.qualifiers) : q[1] \notin {"local", "mention"}
  /\ \A n \in nodes : n.evidence \subseteq DOMAIN answers

Validate ==
  /\ stage = "validate"
  /\ IF Contract(Nodes, EdgeSet)
     THEN graph' = {[nodes |-> Nodes, edges |-> EdgeSet]} /\ stage' = "persisted"
     ELSE stage' = "terminalFailure" /\ UNCHANGED graph
  /\ UNCHANGED <<answers, results, extractions, cursor, ids, unit, edges>>

Ended == stage \in {"persisted", "terminalFailure", "raised"}

Next == Enrich \/ Aggregate \/ Resolve \/ Project \/ Validate \/ (Ended /\ UNCHANGED vars)

Spec == Init /\ [][Next]_vars
-----------------------------------------------------------------------------
\* The mentions and the facts of all answers, each with its span, and the
\* global id of a mention, by its place among all.
Mentions == UNION {{k} \X (1 .. answers[k].entities) : k \in DOMAIN answers}
Facts == UNION {{k} \X DOMAIN answers[k].relations : k \in DOMAIN answers}
Place(m) == Cardinality({x \in Mentions : x[1] < m[1] \/ (x[1] = m[1] /\ x[2] <= m[2])})
Global(m) == ids[Place(m)]

\* A qualifier as it should be persisted: text as the model wrote it, an id of
\* an entity of this run as the node of that entity.
Persisted(q, k) ==
  IF q[1] = "span" /\ q[2] = k /\ q[3] \in 1 .. answers[k].entities THEN <<"node", Global(<<k, q[3]>>)>>
  ELSE IF q[1] = "local" THEN <<"node", ids[q[2]]>> ELSE q

\* The edge that says what fact f says, and what it says but for the family.
SaidBy(f) ==
  LET fact == Fact(f[1], f[2]) IN
    [unit |-> f[1], source |-> Global(fact.source), target |-> Global(fact.target), raw |-> fact.raw,
     family |-> fact.family,
     qualifiers |-> [key \in {"condition", "temporality"} |-> Persisted(fact.qualifiers[key], f[1])]]

ButFamily(f) == [SaidBy(f) EXCEPT !.family = "any"]

\* Facts no earlier one of their span repeats, its family aside.
Firsts == {f \in Facts : \A g \in Facts : g[1] = f[1] /\ g[2] < f[2] => ButFamily(g) # ButFamily(f)}

FactGraphTypeOK ==
  /\ stage \in {"enrich", "aggregate", "resolve", "project", "validate",
                "persisted", "terminalFailure", "raised"}
  /\ Locals \subseteq 1 .. LastLocalId
  /\ Cardinality(Locals) = cursor - 1
  /\ stage = "persisted" <=> graph # {}

\* The persisted edges are what the answers say, each once, with its family: no
\* fact is invented, changed or attached to another span's entity on the way
\* through three series of ids. Of facts of one span that differ in the family
\* alone only the first is kept: the signature leaves the family out, so this
\* consolidation is not of exact repetitions only
\* (production_projection.py:43-77, span_extraction.py:16-48).
EdgesAreFacts == \A g \in graph : g.edges = {SaidBy(f) : f \in Firsts}

\* Every mention is in one node, whose evidence is the spans of its mentions
\* (production_runner.py:41-48).
NodesCoverMentions ==
  \A g \in graph :
    /\ \A m \in Mentions :
         Cardinality({n \in g.nodes : Place(m) \in n.mentions /\ m[1] \in n.evidence}) = 1
    /\ \A n \in g.nodes : n.mentions # {} /\ n.evidence # {}

\* What the workers accepted fails later for four causes only: more entities
\* than three digits number, a relation longer than a description may be, a
\* qualifier with a local id the run does not have or in a longer text, a
\* relation that is blank (span_extraction.py:24 and 44,
\* production_projection.py:37, final_graph_contract.py:75).
LateFailuresExplained ==
  LET accepted == \A k \in DOMAIN answers : WellFormed(answers[k]) /\ Backed(answers[k])
      facts == {Fact(f[1], f[2]) : f \in Facts}
      total == Cardinality(Mentions)
  IN accepted =>
       /\ stage = "raised" => \/ total > LastLocalId
                              \/ \E f \in facts : f.raw = "long"
                              \/ \E f \in facts : \E q \in Image(f.qualifiers) :
                                   q[1] = "mention" \/ (q[1] = "local" /\ q[2] \notin 1 .. total)
       /\ stage = "terminalFailure" => \E f \in facts : f.raw = "blank"

\* The state invariant of the projection to a graph.
FactGraphInv == FactGraphTypeOK /\ NodesCoverMentions
=============================================================================
