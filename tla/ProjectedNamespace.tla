------------------------- MODULE ProjectedNamespace -------------------------
(***************************************************************************)
(* What a namespace promises to its readers (docs/ARCHITECTURE.md, run     *)
(* identity): it shows no graph or one whole graph, and only an import     *)
(* with the same identity replaces what it shows.                          *)
(***************************************************************************)
CONSTANTS
  Graphs,     \* the graphs that may be imported
  Empty,      \* those without a node: there is nothing to show
  Identity,   \* the owner and type names of each graph
  Nothing     \* not a graph

VARIABLE shown

Init == shown \in (Graphs \ Empty) \cup {Nothing}

Replace(g) ==
  /\ shown # Nothing => Identity[shown] = Identity[g]
  /\ shown' = IF g \in Empty THEN Nothing ELSE g

Next == \E g \in Graphs : Replace(g)

Spec == Init /\ [][Next]_shown
=============================================================================
