---------------------------- MODULE MCFactGraph ----------------------------
(* Runs of up to three spans whose answers range from malformed to full.    *)
EXTENDS FactGraph

Says(from, to, raw, family, condition) ==
  [source |-> from, target |-> to, raw |-> raw, family |-> family, condition |-> condition]
Binding(relation, backed, surface) == [relation |-> relation, backed |-> backed, surface |-> surface]
Answer(n, relations, bindings) ==
  [present |-> n > 0, entities |-> n, relations |-> relations, bindings |-> bindings]

Text == <<"text">>
None == <<"none">>
Empty == Answer(0, <<>>, <<>>)
Plain == Answer(2, <<Says(1, 2, "uses", "flow", None)>>, <<>>)
Loop == Answer(1, <<Says(1, 1, "is", "flow", Text)>>, <<Binding(1, TRUE, Text)>>)
\* The same relation under two conditions, and once more word for word.
Repeated == Answer(2, <<Says(1, 2, "uses", "flow", None), Says(1, 2, "uses", "flow", Text),
                        Says(1, 2, "uses", "flow", None)>>, <<>>)
TwoFamilies == Answer(2, <<Says(1, 2, "uses", "flow", None), Says(1, 2, "uses", "cause", None)>>, <<>>)
BlankRelation == Answer(1, <<Says(1, 1, "blank", "flow", None)>>, <<>>)
LongRelation == Answer(1, <<Says(1, 1, "long", "flow", None)>>, <<>>)
With(q) == Answer(2, <<Says(2, 1, "uses", "flow", q)>>, <<>>)
Dated(q) == Answer(2, <<Says(2, 1, "uses", "flow", None)>>, <<Binding(1, TRUE, q)>>)

Malformed ==
  {[Plain EXCEPT !.present = FALSE], Answer(2, <<>>, <<>>),
   Answer(1, <<Says(1, 2, "uses", "flow", None)>>, <<>>),
   Answer(2, Plain.relations, <<Binding(2, TRUE, Text)>>),
   Answer(2, Plain.relations, <<Binding(1, TRUE, Text), Binding(1, TRUE, Text)>>),
   Answer(2, Plain.relations, <<Binding(1, FALSE, Text)>>)}

Good ==
  {Empty, Plain, Loop, Repeated, TwoFamilies, BlankRelation, LongRelation,
   With(<<"local", 0>>), With(<<"local", 1>>), With(<<"local", 3>>),
   With(<<"mention", 1>>), With(<<"span", 2, 1>>), Dated(<<"local", 2>>), Dated(<<"span", 1, 2>>)}

MCDocuments ==
  {<<a>> : a \in Good} \cup (Good \X (Good \cup Malformed))
  \cup {<<a, b, c>> : a \in {Empty, Loop, With(<<"local", 3>>)}, b \in Good, c \in {Plain, Repeated, Empty}}
=============================================================================
