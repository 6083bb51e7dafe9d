------------------------ MODULE MCCompatibilityProbe ------------------------
(* Profiles of every policy and tool choice; replies that fail one check    *)
(* each, and the combinations the checks tell apart.                        *)
EXTENDS CompatibilityProbe

MCProfiles ==
  [policy : {"require_empty", "allow_nonempty", "ignore"},
   toolChoice : {"auto", "required", "object", "null", "any"},
   accepted : {{"tool_calls", "length"}}]

Reply(code, content, reasoning, finish, calls, arguments) ==
  [status |-> code, content |-> content, reasoning |-> reasoning,
   finish |-> finish, calls |-> calls, arguments |-> arguments]

NoBody == {Reply(s, "none", FALSE, "absent", "absent", "absent") : s \in {0, 200, 500}}
Prose == {Reply(200, c, t, f, "absent", "absent") :
            c \in {"text", "special"}, t \in BOOLEAN, f \in {"stop", "length"}}
Called(arguments) ==
  {Reply(s, c, t, f, "one", arguments) :
     s \in {200, 201}, c \in {"none", "text", "special"}, t \in BOOLEAN,
     f \in {"tool_calls", "stop", "length"}}
Wrong == {Reply(200, "none", t, "tool_calls", n, "plain") : t \in BOOLEAN, n \in {"two", "other"}}
Bad == {Reply(200, "none", t, "tool_calls", "one", a) :
          t \in BOOLEAN, a \in {"malformed", "invalid", "unbacked", "binding"}}

MCReplies == NoBody \cup Prose \cup Called("plain") \cup Wrong \cup Bad
=============================================================================
