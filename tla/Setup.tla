------------------------------- MODULE Setup -------------------------------
(***************************************************************************)
(* internal/onboarding and the start of cmd/viaduct over one configuration   *)
(* file: `viaduct serve`, which completes the file before it loads it,       *)
(* `viaduct setup init` and `viaduct setup slack`, run by people who do not  *)
(* know of each other, cut off at any time.                                  *)
(***************************************************************************)
EXTENDS OAuthLogin, LLMConfig

CONSTANTS
  Answers,    \* what users choose in setup init: a profile, and what Slack section they give
  Scenarios   \* what the file may hold at first, Nothing for none; and, as bounds,
              \* the commands that are run and those that are killed

VARIABLES
  file,       \* state: absent, cut (truncated, or half written) or whole; and its contents
  pc,         \* where each session is
  cmd,        \* its command
  part,       \* what it is about to save: the whole file, llm or slack
  copy,       \* the contents it read, completed or will write
  mixed,      \* sessions whose writing overlaps another's
  commands, cuts,  \* bounds: commands and kills that are left
  ideal,      \* history: what the file holds if every save counts, and only it
  spoiled     \* history: a save was cut, or a session held a copy, or wrote, during another's save

session == <<pc, cmd, part, copy>>
bounds == <<commands, cuts>>
vars == <<file, session, mixed, bounds, ideal, spoiled, login>>

-----------------------------------------------------------------------------
(* The file.  by says who saved a part last.                                 *)

Contents(llm, slack, by) == [llm |-> llm, slack |-> slack, by |-> by]
Parts == {"llm", "slack", "rest"}
Nothing == Contents(NoSection, "none", [p \in Parts |-> Nobody])

Slack == {"none", "no channel", "no token", "complete"}

Shaped(c) == c = Contents(c.llm, c.slack, [p \in Parts |-> c.by[p]])

WithLlm(s, c, llm) == Contents(llm, c.slack, [c.by EXCEPT !["llm"] = s])
WithSlack(s, c, slack) == Contents(c.llm, slack, [c.by EXCEPT !["slack"] = s])

ASSUME SetupAssumption ==
  /\ Answers \subseteq [profile : Profiles, slack : Slack]
  /\ \A first \in Scenarios : Shaped(first.contents)

(* readConfigYAML: a file that was cut is empty, or no YAML.                 *)
Reads(c) == c = IF file.state = "whole" THEN file.contents ELSE Nothing
MayBeUnreadable == file.state # "whole"

(* A session holds a copy of the file while it logs in to repair it, and     *)
(* for the moment between reading and writing.                               *)
Holds(s) == pc[s] \in {"login", "save", "writing"} /\ part[s] \in {"llm", "slack"}
Overlaps(s) == \E t \in Session \ {s} : Holds(t)
Writers == {s \in Session : pc[s] = "writing"}

Init ==
  /\ LoginInit
  /\ \E first \in Scenarios :
       /\ file = [state |-> IF first.contents = Nothing THEN "absent" ELSE "whole",
                  contents |-> first.contents]
       /\ commands = first.commands /\ cuts = first.cuts
  /\ pc = [s \in Session |-> "idle"]
  /\ cmd = [s \in Session |-> "none"]
  /\ part = [s \in Session |-> "none"]
  /\ copy = [s \in Session |-> Nothing]
  /\ mixed = {}
  /\ ideal = file.contents
  /\ spoiled = FALSE

-----------------------------------------------------------------------------
(* The steps of a session.                                                   *)

Goto(s, p) == pc' = [pc EXCEPT ![s] = p] /\ UNCHANGED <<cmd, part, copy>>

With(s, p, saved, c) ==
  /\ pc' = [pc EXCEPT ![s] = p]
  /\ part' = [part EXCEPT ![s] = saved]
  /\ copy' = [copy EXCEPT ![s] = c]
  /\ UNCHANGED cmd

(* The command is over, with an error or without.                            *)
Over(s, p) ==
  /\ pc' = [pc EXCEPT ![s] = p]
  /\ cmd' = [cmd EXCEPT ![s] = "none"]
  /\ part' = [part EXCEPT ![s] = "none"]
  /\ copy' = [copy EXCEPT ![s] = Nothing]

Untouched == UNCHANGED <<file, mixed, ideal>>
Given == UNCHANGED bounds

(* EnsureConfigExistsForServe, RunSetupInit and RunSetupSlack look first     *)
(* whether there is a file.                                                  *)
Start(s) ==
  /\ pc[s] = "idle" /\ commands > 0
  /\ \E c \in {"serve", "serve detached", "init", "init --force", "slack"} :
       /\ c = "init" => file.state = "absent"
       /\ c = "slack" => file.state # "absent"
       /\ cmd' = [cmd EXCEPT ![s] = c]
       /\ pc' = [pc EXCEPT ![s] = CASE c = "slack" -> "slack"
                                    [] c \in {"init", "init --force"} \/ file.state = "absent" -> "init"
                                    [] c = "serve" -> "llm step"
                                    [] c = "serve detached" -> "load"]
  /\ commands' = commands - 1
  /\ Untouched /\ UNCHANGED <<part, copy, cuts, spoiled, login>>

Everything(s, llm, slack) == Contents(llm, slack, [p \in Parts |-> s])

(* The answers to setup init; the first run of serve asks for two profiles.  *)
Choose(s) ==
  /\ pc[s] = "init"
  /\ \E a \in Answers :
       /\ cmd[s] \in {"serve", "serve detached"} => a.profile \in {"codex", "anthropic"}
       /\ IF a.profile = "codex"
            THEN /\ With(s, "login", "all", Everything(s, NoSection, a.slack))
                 /\ Goes(s, "bind")
            ELSE /\ With(s, "save", "all", Everything(s, Rendered(a.profile, ""), a.slack))
                 /\ UNCHANGED phase
  /\ Untouched /\ Given /\ UNCHANGED <<spoiled, ports, callback, code, tries, browser>>

(* maybeRunMissingOnboardingSteps, first for the llm section.                *)
LlmStep(s) ==
  /\ pc[s] = "llm step"
  /\ \/ \E c \in {file.contents, Nothing} :
          /\ Reads(c)
          /\ \/ NeedsPrompt(c.llm) /\ Goto(s, "repair")
             \/ Goto(s, "slack step")
     \/ MayBeUnreadable /\ Over(s, "idle")
  /\ Untouched /\ Given /\ UNCHANGED <<spoiled, login>>

(* runSetupLLMWithReader: the file as it is now is what will be written      *)
(* after the login.                                                          *)
Repair(s) ==
  /\ pc[s] = "repair"
  /\ \/ \E c \in {file.contents, Nothing} :
          /\ Reads(c)
          /\ \/ /\ Repairable(c.llm)
                /\ With(s, "login", "llm", c)
                /\ Goes(s, "bind")
             \/ ~Repairable(c.llm) /\ Over(s, "idle") /\ UNCHANGED phase
     \/ MayBeUnreadable /\ Over(s, "idle") /\ UNCHANGED phase
  /\ spoiled' = (spoiled \/ MayBeUnreadable)
  /\ Untouched /\ Given /\ UNCHANGED <<ports, callback, code, tries, browser>>

(* The login is over; without a refresh token it is saved like any other.    *)
LoggedIn(s) ==
  /\ pc[s] = "login"
  /\ \/ /\ phase[s] \in {"full", "short"}
        /\ LET refresh == IF phase[s] = "full" THEN "set" ELSE ""
               llm == buildOpenAICodexOAuthLLMConfigMap(refresh)
           IN  With(s, "save", part[s], WithLlm(s, copy[s], llm))
     \/ phase[s] = "failed" /\ Over(s, "idle")
  /\ Goes(s, "off")
  /\ Untouched /\ Given /\ UNCHANGED <<spoiled, ports, callback, code, tries, browser>>

(* ... and then for Slack.                                                   *)
SlackStep(s) ==
  /\ pc[s] = "slack step"
  /\ \/ \E c \in {file.contents, Nothing} :
          /\ Reads(c)
          /\ \/ c.slack # "complete" /\ Goto(s, "slack")
             \/ Goto(s, "load")
     \/ MayBeUnreadable /\ Over(s, "idle")
  /\ Untouched /\ Given /\ UNCHANGED <<spoiled, login>>

(* runSetupSlackWithReader reads the file for the channel it proposes.       *)
SlackAsk(s) ==
  /\ pc[s] = "slack"
  /\ \E c \in {file.contents, Nothing} : Reads(c) /\ With(s, "slack prompt", "slack", c)
  /\ Untouched /\ Given /\ UNCHANGED <<spoiled, login>>

SlackWith(s, c, token) ==
  WithSlack(s, c, IF token \/ c.slack \in {"complete", "no channel"} THEN "complete" ELSE "no token")

(* Fault: the file as it was before the questions is completed.              *)
UpsertStale(s, c, token) == SlackWith(s, copy[s], token)

Upsert(s, c, token) == SlackWith(s, c, token)

(* upsertSlackConnectorConfig, once the questions are answered.              *)
SlackAnswered(s) ==
  /\ pc[s] = "slack prompt"
  /\ \/ \E c \in {file.contents, Nothing}, token \in BOOLEAN :
          Reads(c) /\ With(s, "save", "slack", Upsert(s, c, token))
     \/ MayBeUnreadable /\ Over(s, "idle")
  /\ spoiled' = (spoiled \/ MayBeUnreadable)
  /\ Untouched /\ Given /\ UNCHANGED login

(* os.WriteFile truncates the file ...                                       *)
Save(s) ==
  /\ pc[s] = "save"
  /\ Goto(s, "writing")
  /\ file' = [state |-> "cut", contents |-> Nothing]
  /\ mixed' = IF Writers = {} THEN mixed ELSE mixed \cup Writers \cup {s}
  /\ Given /\ UNCHANGED <<ideal, spoiled, login>>

(* ... and writes it, which goes wrong if another session does the same.     *)
Write(s) ==
  /\ pc[s] = "writing"
  /\ \/ file' = [state |-> "whole", contents |-> copy[s]]
     \/ s \in mixed /\ file' = [state |-> "cut", contents |-> Nothing]
  /\ mixed' = mixed \ {s}
  /\ ideal' = IF part[s] = "all" THEN copy[s]
              ELSE IF part[s] = "llm" THEN WithLlm(s, ideal, copy[s].llm)
              ELSE WithSlack(s, ideal, copy[s].slack)
  /\ spoiled' = (spoiled \/ Overlaps(s) \/ s \in mixed)
  /\ IF cmd[s] \in {"serve", "serve detached"}
       THEN With(s, IF part[s] = "llm" THEN "slack step" ELSE "load", "none", Nothing)
       ELSE Over(s, "idle")
  /\ Given /\ UNCHANGED login

(* newApp, in an environment that has the variables the file names or not.   *)
Load(s) ==
  /\ pc[s] = "load"
  /\ \/ \E c \in {file.contents, Nothing}, envs \in BOOLEAN :
          /\ Reads(c)
          /\ Loads(c.llm, envs) /\ Built(c.llm) # {}
          /\ With(s, "serving", "none", c)
     \/ Over(s, "idle")
  /\ Untouched /\ Given /\ UNCHANGED <<spoiled, login>>

Stop(s) ==
  /\ pc[s] = "serving"
  /\ Over(s, "idle")
  /\ Untouched /\ Given /\ UNCHANGED <<spoiled, login>>

(* A command is killed, or its writing fails.                                *)
Cut(s) ==
  /\ pc[s] \notin {"idle", "serving"} /\ cuts > 0
  /\ cuts' = cuts - 1
  /\ Over(s, "idle")
  /\ Leave(s, "off")
  /\ spoiled' = (spoiled \/ pc[s] = "writing")
  /\ mixed' = mixed \ {s}
  /\ UNCHANGED <<file, commands, ideal>>

Login(s) ==
  /\ pc[s] = "login"
  /\ LoginStep(s)
  /\ UNCHANGED <<file, session, mixed, bounds, ideal, spoiled>>

Browse(s) ==
  /\ Redirect(s)
  /\ UNCHANGED <<file, session, mixed, bounds, ideal, spoiled>>

Proceed(s) ==
  \/ Choose(s) \/ LlmStep(s) \/ Repair(s) \/ Login(s) \/ LoggedIn(s)
  \/ SlackStep(s) \/ SlackAsk(s) \/ SlackAnswered(s)
  \/ Save(s) \/ Write(s) \/ Load(s)

Next == \E s \in Session : Start(s) \/ Proceed(s) \/ Stop(s) \/ Cut(s) \/ Browse(s)

Spec == Init /\ [][Next]_vars

(* The user answers what is asked, even with nothing; a login waits no       *)
(* longer than its deadlines.                                                *)
FairSpec == Spec /\ \A s \in Session : WF_vars(Proceed(s))

-----------------------------------------------------------------------------
(* Properties.                                                               *)

Pc == {"idle", "init", "llm step", "repair", "login", "slack step", "slack", "slack prompt",
       "save", "writing", "load", "serving"}

(* Every variable keeps its type, and a callback server is only open while   *)
(* its session logs in (runOpenAICodexOAuthLogin closes it on every way out).*)
TypeOK ==
  /\ LoginTypeOK
  /\ file.state \in {"absent", "cut", "whole"}
  /\ pc \in [Session -> Pc]
  /\ part \in [Session -> Parts \cup {"none", "all"}]
  /\ mixed \subseteq Writers
  /\ \A s \in Session : phase[s] # "off" <=> pc[s] = "login"

(* What one command saves no other undoes: the file holds the last save of   *)
(* the llm section, the last of Slack and everything else of the last init   *)
(* (or of its author), unless a command was killed while it wrote, or two    *)
(* overlapped: for a repair of the llm section that is its whole login, for  *)
(* Slack the moment of writing, not the time the questions take.             *)
SavedIsKept ==
  ~spoiled => \/ file.contents = ideal /\ file.state # "cut"
              \/ Writers # {}

(* Whom the router of a process may ask for a task is built, but for routes  *)
(* of the task or the chain that Validate does not check; and one that is    *)
(* built is among them, if the task or "default" has a checked route, or     *)
(* nothing unchecked is given: default_provider is asked for nothing else.   *)
Routable(llm, t) ==
  /\ Asked(llm, t) \ Built(llm) \subseteq Unchecked(llm, t)
  /\ (Checked(llm, t) # {} \/ Unchecked(llm, t) = {}) => Asked(llm, t) \cap Built(llm) # {}

(* A process that serves, whoever wrote its file and whatever others do to   *)
(* it since, has built its default provider, and can answer every task as    *)
(* far as Validate's checks go (newApp, buildProviders, resolveChain).       *)
ServingIsBuilt ==
  \A s \in Session : pc[s] = "serving" =>
    LET llm == copy[s].llm
    IN  llm.default \in Built(llm) /\ \A t \in TaskTypes : Routable(llm, t)

AnyProvider ==
  LET S == {"", "set"} IN
  {p \in [key : S, model : S, base : S, auth : {"", "oauth", "api_key"}, block : BOOLEAN, mode : Modes,
          url : S, id : S, secret : S, refresh : S, access : S] :
     ~p.block => p.mode = "" /\ \A f \in {"url", "id", "secret", "refresh", "access"} : p[f] = ""}

Documented(name, p) ==
  CASE name = "openai" -> IF p.auth = "oauth" THEN p.key = "" /\ p.mode # "other"
                                              ELSE p.auth = "" => ~p.block
    [] name = "custom" -> /\ p.auth = "oauth" /\ p.key = "" /\ p.base # ""
                          /\ p.mode \in {"", "client_credentials"} /\ p.refresh = "" /\ p.access = ""
    [] OTHER -> p.auth # "oauth"

AgreesOnAll ==
  \A name \in Names, p \in AnyProvider :
    Documented(name, p) => (NeedsPrompt(Single(name, p)) <=> ~Validate(Single(name, p)))

AcceptsItsOwn ==
  /\ \A profile \in Profiles :
       Validate(Rendered(profile, "set")) /\ ~NeedsPrompt(Rendered(profile, "set"))
  /\ NeedsPrompt(Rendered("codex", "")) /\ Repairable(Rendered("codex", ""))

(* Onboarding and Load agree about a default provider that is written the    *)
(* documented way: serve asks for a login exactly when Load would refuse the *)
(* section, and what onboarding writes is accepted by both, or, lacking a    *)
(* refresh token, asked for again.                                           *)
PromptAgreesWithLoad ==
  (\E s \in Session : pc[s] \in {"llm step", "load"}) => AgreesOnAll /\ AcceptsItsOwn

(* Every command ends or serves, however its login goes and whatever the     *)
(* user types (the loop of runOpenAICodexOAuthLogin).                        *)
SetupEnds == \A s \in Session : pc[s] # "idle" ~> pc[s] \in {"idle", "serving"}

=============================================================================
