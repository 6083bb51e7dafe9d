--------------------------- MODULE AtomicRegister ---------------------------
(* What the readers of an artifact rely on: its content changes in one step *)
(* from one whole content to another.                                       *)
CONSTANTS Contents, Initial
VARIABLE content
Init == content = Initial
Set(c) == content' = c
Next == \E c \in Contents : Set(c)
Spec == Init /\ [][Next]_content
=============================================================================
