-------------------------- MODULE MCEvidenceSpans --------------------------
(* Every text up to a length, over a letter, a blank, a line end, a period   *)
(* and another stop.                                                         *)
EXTENDS EvidenceSpans

CONSTANT MaxLength

Alphabet == {"a", " ", "n", ".", "!"}
MCTexts == UNION {[1 .. n -> Alphabet] : n \in 0 .. MaxLength}
=============================================================================
