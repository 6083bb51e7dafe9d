--------------------------- MODULE MCProductionRun ---------------------------
(* Two calls on one directory, one after the other, and rebuilds of it.     *)
EXTENDS ProductionRun

CONSTANTS first, second

OneDirectory == [p \in Processes |-> "out1"]
=============================================================================
