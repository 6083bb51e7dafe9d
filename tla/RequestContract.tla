-------------------------- MODULE RequestContract --------------------------
(***************************************************************************)
(* Settings and what a request is made of: loading and validating the      *)
(* configuration (src/config/settings.py), the request payload and the     *)
(* identity recorded for it (src/runtime/production_inputs.py).            *)
(*                                                                         *)
(* Settings have the two sections of extraction.yaml and, from             *)
(* runtime.yaml and the environment, profiles, sampling profiles, the      *)
(* selected profile and overrides of the request.  NoValue is None.  An    *)
(* extension is a function from keys to values; only the value of          *)
(* chat_template_kwargs is looked into, and it is a function from its own  *)
(* keys to values.  A hash stands for what is hashed.                      *)
(***************************************************************************)
EXTENDS Integers, Sequences

CONSTANTS
  NoValue,   \* None
  Prompt     \* the one registered prompt

Optional(value, otherwise) == IF value = NoValue THEN otherwise ELSE value

\* The entries of f, and those of g it does not have.
Over(f, g) == [k \in DOMAIN f \cup DOMAIN g |-> IF k \in DOMAIN f THEN f[k] ELSE g[k]]

\* The settings a document gives: those that are not None.
Given(f) == [k \in {k \in DOMAIN f : f[k] # NoValue} |-> f[k]]
-----------------------------------------------------------------------------
\* Mutant: reserved names are refused by their exact spelling only.
ValidExtension_Spelling(extension) ==
  DOMAIN extension \cap {"model", "messages", "tools"} = {}

\* _validate_request_extensions.  Every key it calls reserved or credential-
\* like it also does not list as supported.
ValidExtension(extension) ==
  /\ DOMAIN extension \subseteq {"chat_template_kwargs"}
  /\ \A k \in DOMAIN extension : DOMAIN extension[k] \subseteq {"thinking", "preserve_thinking"}

\* What the schema of the settings makes of them before the checks below.
IsProfile(p) ==
  DOMAIN p = {"id", "model", "served", "transport", "choice", "parallel", "stream", "sampling",
              "temperature", "top_p", "seed", "max_tokens", "extra"}
IsSampling(s) == DOMAIN s = {"temperature", "top_p", "seed"}

\* The section runtime of runtime.yaml.
IsRuntime(r) ==
  /\ DOMAIN r = {"selected", "overrides", "samplings", "profiles"}
  /\ \A k \in DOMAIN r.profiles : IsProfile(r.profiles[k])
  /\ \A k \in DOMAIN r.samplings : IsSampling(r.samplings[k])

\* The sections extraction and extraction_contracts of extraction.yaml; of the
\* dynamic limits those that the schema is built from.
IsExtraction(e) ==
  /\ DOMAIN e.extraction = {"prompt", "contract", "entities", "relations"}
  /\ \A k \in DOMAIN e.contracts : DOMAIN e.contracts[k] = {"prompt", "strict"}

\* ProjectSettings.
IsConfig(c) ==
  /\ DOMAIN c = {"extraction", "contracts", "selected", "overrides", "samplings", "profiles"}
  /\ \A k \in DOMAIN c.profiles : IsProfile(c.profiles[k])
  /\ \A k \in DOMAIN c.samplings : IsSampling(c.samplings[k])

ValidRemote(c) ==
  /\ c.selected \in DOMAIN c.profiles
  /\ ValidExtension(c.overrides)
  /\ \A p \in DOMAIN c.profiles :
       /\ c.profiles[p].id = p
       /\ c.profiles[p].sampling \in DOMAIN c.samplings \cup {NoValue}
       /\ ValidExtension(c.profiles[p].extra)

\* extraction_contract_is_registered, and the limits' own bounds.
ValidContract(c) ==
  /\ c.extraction.entities > 0 /\ c.extraction.relations > 0
  /\ c.extraction.prompt = Prompt
  /\ c.extraction.contract \in DOMAIN c.contracts
  /\ c.contracts[c.extraction.contract].prompt = Prompt

\* load_project_settings, from the sections read: profiles of the environment
\* replace those of the file one by one, its selection replaces the file's, the
\* caller's comes last.
Loaded(extraction, runtime, contracts, env, override) ==
  [extraction |-> extraction, contracts |-> contracts,
   overrides |-> runtime.overrides, samplings |-> runtime.samplings,
   profiles |-> Over(env.profiles, runtime.profiles),
   selected |-> Optional(override, Optional(env.selected, runtime.selected))]

\* selected_provider_profile: the sampling profile's values, None included.
Effective(c) ==
  LET p == c.profiles[c.selected] IN
    IF p.sampling = NoValue THEN p
    ELSE [p EXCEPT !.temperature = c.samplings[p.sampling].temperature,
                   !.top_p = c.samplings[p.sampling].top_p,
                   !.seed = c.samplings[p.sampling].seed]

\* build_tool_schema: a schema is told apart by its two limits.
Schema(c) == [entities |-> c.extraction.entities, relations |-> c.extraction.relations]

\* What request_payload takes from the profile, the schema and the contract.
Base(c) ==
  LET p == Effective(c) IN
    Over([model |-> Optional(p.served, p.model), max_tokens |-> p.max_tokens, messages |-> Prompt,
          tools |-> [parameters |-> Schema(c), strict |-> c.contracts[c.extraction.contract].strict]],
         Given([tool_choice |-> p.choice, parallel_tool_calls |-> p.parallel, stream |-> p.stream,
                temperature |-> p.temperature, top_p |-> p.top_p, seed |-> p.seed]))

\* The overrides replace the profile's extension key by key, at the top.
Extras(c) == Over(c.overrides, Effective(c).extra)

Payload(c) == Over(Extras(c), Base(c))

\* request_payload raises for another transport: no request is sent.
Requests(c) == IF Effective(c).transport = "native_tool_call" THEN {Payload(c)} ELSE {}

\* effective_request_identity.
Identity(c) ==
  LET p == Effective(c) IN
    [model |-> p.model, served |-> Optional(p.served, p.model), profile |-> p.id,
     sampling |-> p.sampling, prompt |-> Prompt, schema |-> Schema(c),
     choice |-> p.choice, extra |-> Extras(c)]
=============================================================================
