------------------------- MODULE MCNeo4jProjection -------------------------
(* Two importers of a namespace that may have been filled before.  The      *)
(* documents differ from the first in one respect each.                     *)
EXTENDS Neo4jProjection, TLC

Edge(id, from, to) == [id |-> id, source |-> from, target |-> to]
Base == [owner |-> "run", projection |-> "P", nodes |-> {"n1", "n2"},
         edges |-> {Edge("e1", "n1", "n2")}, content |-> 1, valid |-> TRUE]
Rerun == [Base EXCEPT !.content = 2, !.edges = {Edge("e1", "n2", "n1")}]
Other == [Base EXCEPT !.owner = "other"]
Renamed == [Base EXCEPT !.projection = "Q"]
Smaller == [Base EXCEPT !.nodes = {"n1"}, !.edges = {}]
Absent == [Base EXCEPT !.nodes = {"n1"}]
Empty == [Smaller EXCEPT !.nodes = {}]
Blank == [Base EXCEPT !.valid = FALSE]

MCDocuments == {Base, Rerun, Other, Renamed, Smaller, Empty, Absent, Blank}

Foreign(name, on, over) == [name |-> name, on |-> on, over |-> over]
Clean == [indexes |-> {}, stray |-> {}]
MCDatabases ==
  {Clean, [Clean EXCEPT !.stray = {"missing"}], [Clean EXCEPT !.stray = {"blank"}],
   [Clean EXCEPT !.indexes = {Foreign(<<"custom", "P">>, <<"node", "P">>, "graph_id")}],
   [Clean EXCEPT !.indexes = {Foreign(<<"relation", "P">>, <<"relation", "Q">>, "graph_id")}],
   [Clean EXCEPT !.indexes = {Foreign(<<"node", "P">>, <<"node", "P">>, "entity_id")}]}
MCContended == {Base, Rerun, Other}

EitherImporter == Permutations(Importers)
=============================================================================
