---------------------------- MODULE MCBatchPlan ----------------------------
(* Two batches; configurations good and bad; manifests with one fault each.  *)
EXTENDS BatchPlan, TLC

CONSTANTS b1, b2

None == [k \in {} |-> 0]
Thinking(v) == [chat_template_kwargs |-> [thinking |-> v]]
Preserve == [chat_template_kwargs |-> [preserve_thinking |-> FALSE]]
Profile(id, model, sampling, extra) ==
  [id |-> id, model |-> model, served |-> NoValue, transport |-> "native_tool_call", choice |-> "auto",
   parallel |-> FALSE, stream |-> FALSE, sampling |-> sampling, temperature |-> "0.7", top_p |-> "0.9",
   seed |-> 7, max_tokens |-> 100, extra |-> extra]
Runtime(overrides, first) ==
  [selected |-> "P", overrides |-> overrides,
   samplings |-> [zero |-> [temperature |-> "0.0", top_p |-> NoValue, seed |-> NoValue]],
   profiles |-> [P |-> first, Q |-> [Profile("Q", "m2", NoValue, Preserve) EXCEPT !.parallel = NoValue]]]
Normal == Profile("P", "m1", "zero", Thinking(FALSE))

MCRuntimes ==
  {Runtime(None, Normal), Runtime(Preserve, [Normal EXCEPT !.served = "alias", !.choice = NoValue]),
   Runtime(None, [Normal EXCEPT !.transport = "response_format_json"]),
   Runtime(None, [Normal EXCEPT !.id = "Q"]),
   Runtime([ToolChoice |-> "x"], Normal),
   Runtime(None, [Normal EXCEPT !.extra = [chat_template_kwargs |-> [other |-> TRUE]]])}

Extraction(contract, entities, contracts) ==
  [extraction |-> [prompt |-> Prompt, contract |-> contract, entities |-> entities, relations |-> 40],
   contracts |-> contracts]
Contract == [prompt |-> Prompt, strict |-> FALSE]
\* The second differs in a limit and in the name of the contract: a load that
\* reads a section of each is refused; the third in a limit and in strictness.
MCExtractions ==
  {Extraction("spans", 60, [spans |-> Contract]),
   Extraction("other", 20, [other |-> Contract]),
   Extraction("spans", 20, [spans |-> [Contract EXCEPT !.strict = TRUE]])}

MCEnvironments ==
  {[profiles |-> None, selected |-> NoValue], [profiles |-> None, selected |-> "Q"],
   [profiles |-> [R |-> Profile("R", "m1", NoValue, None)], selected |-> "R"],
   [profiles |-> None, selected |-> "unknown"]}

Document(id, path) == [id |-> id, path |-> path]
Graph(id, documents) == [id |-> id, documents |-> documents]
Good ==
  [profile |-> "P", model |-> "m1", output |-> "out", perDocument |-> 1, perGraph |-> 1, global |-> 2,
   documents |-> <<Document("d1", "p1"), Document("d2", "p2")>>,
   graphs |-> <<Graph("g1", <<"d1">>), Graph("g2", <<"d2">>)>>]
MCManifests ==
  {Good, [Good EXCEPT !.graphs = <<Graph("g1", <<"d2", "d1">>)>>, !.output = "other"],
   [Good EXCEPT !.profile = "R"], [Good EXCEPT !.profile = "Q"], [Good EXCEPT !.perGraph = 3],
   [Good EXCEPT !.documents[2].id = "bad id"], [Good EXCEPT !.graphs[2].id = "g1"],
   [Good EXCEPT !.graphs[2].documents = <<>>], [Good EXCEPT !.graphs[2].documents = <<"d1", "d2">>],
   [Good EXCEPT !.graphs[1].documents = <<"d1", "d1">>], [Good EXCEPT !.graphs[1].documents = <<"d3">>]}
\* One batch with any manifest next to one that may run.
MCStarts == {(b1 :> m) @@ (b2 :> Good) : m \in MCManifests}
=============================================================================
