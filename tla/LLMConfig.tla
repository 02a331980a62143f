----------------------------- MODULE LLMConfig -----------------------------
(***************************************************************************)
(* The llm section of viaduct.yaml: what onboarding takes for complete       *)
(* (internal/onboarding), what Load accepts (internal/config), what newApp   *)
(* can build (cmd/viaduct), and what onboarding writes.  A scalar is "" when *)
(* it is missing or blank, "env" when it names an environment variable.      *)
(***************************************************************************)

Names == {"openai", "anthropic", "gemini", "custom"}

Modes == {"", "client_credentials", "authorization_code", "other"}

Scalar == {"", "env", "set"}

(* A route is the provider it names.  The routing section has the six named  *)
(* routes, of which some may be given; a route for each of some tasks, of    *)
(* whatever name; and a chain, whose order does not matter here.             *)
TaskTypes ==
  {"classification", "summarisation", "analysis", "generation", "code", "default", "another"}

Routing(named, tasks, chain) == [named |-> named, tasks |-> tasks, chain |-> chain]

(* default is "no section" when there is no llm section, "absent" when the   *)
(* section does not name a default provider.                                 *)
Section(default, providers, routing) ==
  [default |-> default, providers |-> providers, routing |-> routing]

NoSection == Section("no section", <<>>, Routing(<<>>, <<>>, {}))

(* block says that the provider has an oauth block.                          *)
Plain(key) ==
  [key |-> key, model |-> "set", base |-> "", auth |-> "", block |-> FALSE, mode |-> "",
   url |-> "", id |-> "", secret |-> "", refresh |-> "", access |-> ""]

OAuth(mode, id, secret, refresh, access) ==
  [key |-> "", model |-> "set", base |-> "set", auth |-> "oauth", block |-> TRUE, mode |-> mode,
   url |-> "set", id |-> id, secret |-> secret, refresh |-> refresh, access |-> access]

Mode(p) ==
  IF p.mode # "" THEN p.mode
  ELSE IF p.refresh # "" \/ p.access # "" THEN "authorization_code" ELSE "client_credentials"

-----------------------------------------------------------------------------
(* llmOnboardingPromptState.  It takes an oauth block of openai for oauth    *)
(* even if auth_type does not say so.                                        *)

AuthType(name, p) ==
  IF p.auth = "" THEN IF name = "openai" /\ p.block THEN "oauth" ELSE "api_key" ELSE p.auth

(* Fault: the secret of client credentials is not looked for.                *)
OAuthCompleteNoSecret(p) ==
  /\ p.block
  /\ p.url # "" /\ p.id # ""
  /\ Mode(p) = "authorization_code" => p.refresh # ""

OAuthComplete(p) ==
  /\ p.block
  /\ p.url # "" /\ p.id # ""
  /\ Mode(p) = "authorization_code" => p.refresh # ""
  /\ Mode(p) = "client_credentials" => p.secret # ""

ProviderComplete(name, p) ==
  /\ p.model # ""
  /\ IF AuthType(name, p) = "oauth" THEN OAuthComplete(p) ELSE p.key # ""

NeedsPrompt(llm) ==
  ~ /\ llm.default \in DOMAIN llm.providers
    /\ ProviderComplete(llm.default, llm.providers[llm.default])

(* What runSetupLLMWithReader agrees to repair: a missing default provider   *)
(* prints as "<nil>", which is not the blank it looks for.                   *)
Repairable(llm) == llm.default \in {"no section", "", "openai"}

-----------------------------------------------------------------------------
(* Config.Validate, after the environment variables were put in.  It looks   *)
(* at the named routes only, never at the chain or the routes of tasks.      *)

OAuthValid(p) ==
  /\ p.url # "" /\ p.id # ""
  /\ CASE Mode(p) = "authorization_code" -> p.refresh # ""
       [] Mode(p) = "client_credentials" -> p.secret # ""
       [] OTHER -> FALSE

ProviderValid(name, p) ==
  /\ p.model # ""
  /\ CASE name = "custom" ->
            /\ p.base # "" /\ p.auth = "oauth" /\ p.key = ""
            /\ p.mode \in {"", "client_credentials"}
            /\ p.url # "" /\ p.id # "" /\ p.secret # ""
       [] name = "openai" /\ p.auth = "oauth" -> p.key = "" /\ OAuthValid(p)
       [] OTHER -> p.key # ""

(* Fault: a named route may name a provider that is not configured.          *)
ValidateNoRoutes(llm) ==
  /\ DOMAIN llm.providers # {}
  /\ \A name \in DOMAIN llm.providers : ProviderValid(name, llm.providers[name])
  /\ llm.default \in DOMAIN llm.providers

Validate(llm) ==
  /\ DOMAIN llm.providers # {}
  /\ \A name \in DOMAIN llm.providers : ProviderValid(name, llm.providers[name])
  /\ llm.default \in DOMAIN llm.providers
  /\ \A t \in DOMAIN llm.routing.named : llm.routing.named[t] \in DOMAIN llm.providers

NamesVariable(p) == \E f \in {p.key, p.id, p.secret} : f = "env"

(* Load, when the environment has the variables that the file names or not.  *)
Loads(llm, envs) ==
  /\ envs \/ \A name \in DOMAIN llm.providers : ~NamesVariable(llm.providers[name])
  /\ Validate(llm)

(* buildProviders knows no gemini; it fails if one provider does.            *)
Built(llm) ==
  IF "gemini" \in DOMAIN llm.providers THEN {} ELSE DOMAIN llm.providers

-----------------------------------------------------------------------------
(* resolveChain of the router: whom a completion for a task may ask.  (Its   *)
(* order is the business of LLMRouter.)                                      *)

RouteOf(routes, t) == IF t \in DOMAIN routes THEN {routes[t]} ELSE {}

Checked(llm, t) == RouteOf(llm.routing.named, t) \cup RouteOf(llm.routing.named, "default")

Unchecked(llm, t) == RouteOf(llm.routing.tasks, t) \cup llm.routing.chain

Asked(llm, t) ==
  LET order == Checked(llm, t) \cup Unchecked(llm, t)
  IN  IF order = {} THEN {llm.default} ELSE order

-----------------------------------------------------------------------------
(* What onboarding writes.                                                   *)

Single(name, p) ==
  LET named == [t \in {"default", "analysis", "generation", "classification"} |-> name]
  IN  Section(name, [n \in {name} |-> p], Routing(named, <<>>, {}))

buildOpenAICodexOAuthLLMConfigMap(refresh) ==
  Single("openai", OAuth("authorization_code", "set", "", refresh, "set"))

Profiles == {"codex", "anthropic", "openai key", "openai oauth", "custom oauth"}

Rendered(profile, refresh) ==
  CASE profile = "codex" -> buildOpenAICodexOAuthLLMConfigMap(refresh)
    [] profile = "anthropic" -> Single("anthropic", Plain("env"))
    [] profile = "openai key" -> Single("openai", Plain("env"))
    [] profile = "openai oauth" -> Single("openai", OAuth("", "env", "env", "", ""))
    [] profile = "custom oauth" -> Single("custom", OAuth("", "env", "env", "", ""))

=============================================================================
