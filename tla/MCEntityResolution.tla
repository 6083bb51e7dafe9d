------------------------ MODULE MCEntityResolution ------------------------
(* Four entities: a name, its case variant or expansion, and two others.     *)
EXTENDS EntityResolution

Name(tokens, case) == [tokens |-> tokens, marks |-> " ", case |-> case]
Alpha == Name(<<"alpha">>, "title")
ALPHA == Name(<<"alpha">>, "upper")
AlphaSystem == Name(<<"alpha", "system">>, "title")
TheAlpha == Name(<<"the", "alpha">>, "title")

Fact(from, to, raw, family) == [source |-> from, target |-> to, raw |-> raw, family |-> family]
RelationSets ==
  {{}, {Fact(1, 2, "uses", "flow")}, {Fact(3, 1, "same_as", "flow")},
   {Fact(1, 4, "same_as", "flow"), Fact(2, 3, "uses", "cause")},
   {Fact(2, 4, "uses", "flow"), Fact(4, 2, "same_as", "flow")},
   {Fact(1, 3, "uses", "flow"), Fact(2, 4, "uses", "flow")}}

Ends == {{p[1], p[2]} : p \in Pairs}

Input(names, relations, similarity, strict, limit) ==
  [names |-> names, types |-> <<"t", "t", "u", "v">>, units |-> <<1, 1, 2, 2>>,
   relations |-> relations, similarity |-> similarity,
   candidateThreshold |-> 76, mergeThreshold |-> 90,
   exactNameCrossUnitMerge |-> TRUE, caseOnlyNameMerge |-> TRUE, requireContext |-> strict,
   pairwiseLimit |-> limit, topK |-> 1]

MCInputs ==
  {Input(<<Alpha, AlphaSystem, Alpha, ALPHA>>, relations, similarity, strict, 4) :
     relations \in RelationSets, similarity \in [Ends -> {50, 95}], strict \in BOOLEAN}
  \cup
  {Input(<<Alpha, ALPHA, TheAlpha, AlphaSystem>>, relations, similarity, FALSE, 3) :
     relations \in RelationSets, similarity \in [Ends -> {50, 80, 95}]}

\* The expansion of a name, the name and a third one close to both.
ChainInputs ==
  {Input(<<Alpha, AlphaSystem, TheAlpha, ALPHA>>, {}, similarity, FALSE, 4) :
     similarity \in [Ends -> {50, 95}]}
  \cup
  {Input(<<Alpha, Name(<<"beta">>, "title"), AlphaSystem, ALPHA>>, {}, similarity, FALSE, 4) :
     similarity \in [Ends -> {50, 95}]}

\* In order, reversed, rotated; an index twice; one item missing.
MCResponses == {<<0, 1, 2, 3>>, <<3, 2, 1, 0>>, <<2, 3, 0, 1>>, <<1, 1, 2, 3>>, <<0, 1, 2>>}
=============================================================================
