------------------------------ MODULE MCSetup ------------------------------
(* Instances of Setup for TLC.                                              *)
EXTENDS Setup

By == [p \in Parts |-> Nobody]

Codex == buildOpenAICodexOAuthLLMConfigMap("set")
Short == buildOpenAICodexOAuthLLMConfigMap("")

Choice(profile, slack) == [profile |-> profile, slack |-> slack]

MCAnswers == {Choice("codex", "none"), Choice("codex", "complete"), Choice("anthropic", "none"),
              Choice("openai key", "complete"), Choice("openai oauth", "no token"),
              Choice("custom oauth", "none")}

Scenario(c, m, k) == [contents |-> c, commands |-> m, cuts |-> k]

(* Two commands from no file, from one without llm and with half of slack,  *)
(* and from one with half of llm and without slack; after a kill the second *)
(* command finds what is left.  One command on files that onboarding does   *)
(* not help with: no default provider, a route to an unknown provider that  *)
(* Validate checks, such routes that it does not check, beside a checked    *)
(* route and alone, and a provider that is never built.                     *)
Astray(routing) == Contents([Codex EXCEPT !.routing = routing], "complete", By)

MCScenarios == {
  Scenario(Nothing, 2, 0),
  Scenario(Contents(NoSection, "no token", By), 2, 0),
  Scenario(Contents(Short, "none", By), 2, 1),
  Scenario(Contents(Codex, "complete", By), 2, 0),
  Scenario(Contents([Codex EXCEPT !.default = "absent"], "no channel", By), 1, 0),
  Scenario(Astray(Routing([default |-> "openai", code |-> "custom"], <<>>, {})), 1, 0),
  Scenario(Astray(Routing([default |-> "openai"], [analysis |-> "custom"], {"gemini"})), 1, 0),
  Scenario(Astray(Routing(<<>>, [another |-> "custom"], {"anthropic"})), 1, 0),
  Scenario(Contents(Single("gemini", Plain("set")), "complete", By), 1, 0)}

=============================================================================
