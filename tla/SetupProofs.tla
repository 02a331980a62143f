---------------------------- MODULE SetupProofs ----------------------------
(* Theorems about Setup, for any number of sessions and first files.        *)
EXTENDS Setup, TLAPS

-----------------------------------------------------------------------------
(* Type correctness.                                                        *)

(* The initial state is well typed.                                         *)
LEMMA TypeInit == Init => TypeOK
<1> SUFFICES ASSUME Init PROVE TypeOK
  OBVIOUS
<1>1. LoginTypeOK
  BY DEF Init, LoginInit, LoginTypeOK
<1>2. PICK first \in Scenarios : file.state = IF first.contents = Nothing THEN "absent" ELSE "whole"
  BY DEF Init
<1>3. file.state \in {"absent", "cut", "whole"}
  BY <1>2
<1> QED
  BY <1>1, <1>3 DEF Init, LoginInit, TypeOK, Pc, Writers

(* A command that moves on outside its login leaves the login alone.        *)
LEMMA TypeMove ==
  ASSUME TypeOK, NEW s \in Session, NEW q \in Pc \ {"login"}, NEW r \in Parts \cup {"none", "all"},
         pc[s] # "login", pc' = [pc EXCEPT ![s] = q], part' \in {part, [part EXCEPT ![s] = r]},
         mixed' \subseteq Writers', UNCHANGED login, file'.state \in {"absent", "cut", "whole"}
  PROVE  TypeOK'
<1>1. LoginTypeOK'
  BY DEF TypeOK, LoginTypeOK, login
<1>2. pc' \in [Session -> Pc] /\ part' \in [Session -> Parts \cup {"none", "all"}]
  BY DEF TypeOK
<1>3. \A t \in Session : phase'[t] # "off" <=> pc'[t] = "login"
  BY DEF TypeOK, login
<1> QED
  BY <1>1, <1>2, <1>3 DEF TypeOK

(* One that enters its login or leaves it moves both.                       *)
LEMMA TypeCross ==
  ASSUME TypeOK, NEW s \in Session, NEW p, NEW q \in Pc, NEW r \in Parts \cup {"none", "all"},
         phase' = [phase EXCEPT ![s] = p], pc' = [pc EXCEPT ![s] = q],
         p # "off" <=> q = "login", part' = [part EXCEPT ![s] = r],
         LoginTypeOK', mixed' \subseteq Writers', file'.state \in {"absent", "cut", "whole"}
  PROVE  TypeOK'
<1>1. \A t \in Session : phase'[t] # "off" <=> pc'[t] = "login"
  BY DEF TypeOK, LoginTypeOK
<1> QED
  BY <1>1 DEF TypeOK

(* It writes, or another does.                                              *)
LEMMA MixedMove ==
  ASSUME TypeOK, NEW s \in Session, NEW q, pc[s] # "writing" \/ q = "writing",
         pc' = [pc EXCEPT ![s] = q], UNCHANGED mixed
  PROVE  mixed' \subseteq Writers'
  BY DEF TypeOK, Writers

(* A session whose phase changes had no callback server that stays open.    *)
LEMMA LoginMove ==
  ASSUME LoginTypeOK, NEW s \in Session,
         NEW p \in {"off", "bind", "wait", "paste", "exchange", "full", "short", "failed"},
         phase' = [phase EXCEPT ![s] = p],
         \A a \in Address : ports'[a] = ports[a] \/ ports'[a] \in {s, Nobody},
         ports' \in [Address -> Session \cup {Nobody}],
         p \in {"wait", "paste", "exchange"} \/ \A a \in Address : ports'[a] # s \/ s = Nobody,
         callback' \in [Session -> BOOLEAN], code' \in [Session -> BOOLEAN],
         tries' \in [Session -> 0..3], browser' \in [Session -> {"closed", "open", "code", "refused"}]
  PROVE  LoginTypeOK'
  BY DEF LoginTypeOK

(* The login leaves nothing open.                                           *)
LEMMA LeaveTypes ==
  ASSUME LoginTypeOK, NEW s \in Session, NEW p \in {"off", "full", "short", "failed"}, Leave(s, p)
  PROVE  LoginTypeOK'
<1>1. ports' \in [Address -> Session \cup {Nobody}]
  BY DEF Leave, LoginTypeOK
<1>2. \A a \in Address : ports'[a] # s \/ s = Nobody
  BY DEF Leave
<1>3. \A a \in Address : ports'[a] = ports[a] \/ ports'[a] \in {s, Nobody}
  BY DEF Leave
<1>4. /\ callback' \in [Session -> BOOLEAN] /\ code' \in [Session -> BOOLEAN]
      /\ tries' \in [Session -> 0..3]
      /\ browser' \in [Session -> {"closed", "open", "code", "refused"}]
  BY DEF Leave, LoginTypeOK
<1> QED
  BY <1>1, <1>2, <1>3, <1>4, LoginMove DEF Leave

(* Each step of a login keeps its types.                                    *)
LEMMA LoginStepTypes ==
  ASSUME LoginTypeOK, NEW s \in Session, LoginStep(s)
  PROVE  /\ LoginTypeOK'
         /\ phase[s] # "off" /\ phase'[s] # "off"
         /\ \A t \in Session \ {s} : phase'[t] = phase[t]
<1>1. CASE Bind(s)
  <2>1. PICK got \in SUBSET {a \in Address : ports[a] = Nobody} :
          /\ ports' = [a \in Address |-> IF a \in got THEN s ELSE ports[a]]
          /\ Goes(s, IF got = {} THEN "paste" ELSE "wait")
    BY <1>1 DEF Bind
  <2>2. browser' \in [Session -> {"closed", "open", "code", "refused"}]
    BY <1>1 DEF Bind, LoginTypeOK
  <2>3. LoginTypeOK'
    BY <1>1, <2>1, <2>2, LoginMove DEF Bind, Goes, LoginTypeOK
  <2> QED
    BY <1>1, <2>1, <2>3 DEF Bind, Goes, LoginTypeOK
<1>2. ASSUME NEW own \in BOOLEAN, Found(s, own), phase[s] \in {"wait", "paste"}
      PROVE  LoginTypeOK' /\ phase'[s] # "off" /\ \A t \in Session \ {s} : phase'[t] = phase[t]
  <2>1. /\ callback' \in [Session -> BOOLEAN] /\ code' \in [Session -> BOOLEAN]
        /\ tries' \in [Session -> 0..3]
        /\ browser' \in [Session -> {"closed", "open", "code", "refused"}]
    BY <1>2 DEF Found, LoginTypeOK
  <2>2. LoginTypeOK'
    BY <1>2, <2>1, LoginMove DEF Found, Goes, LoginTypeOK
  <2> QED
    BY <1>2, <2>2 DEF Found, Goes, LoginTypeOK
<1>3. ASSUME NEW p \in {"full", "short", "failed"}, Leave(s, p), phase[s] \in {"paste", "exchange"}
      PROVE  LoginTypeOK' /\ phase'[s] # "off" /\ \A t \in Session \ {s} : phase'[t] = phase[t]
  BY <1>3, LeaveTypes DEF Leave, LoginTypeOK
<1>4. CASE WaitForCode(s)
  <2>1. CASE callback[s] /\ Found(s, TRUE)
    BY <1>2, <1>4, <2>1 DEF WaitForCode
  <2>2. CASE /\ Goes(s, "paste") /\ callback' = [callback EXCEPT ![s] = FALSE]
             /\ UNCHANGED <<ports, code, tries, browser>>
    <3>1. callback' \in [Session -> BOOLEAN]
      BY <2>2 DEF LoginTypeOK
    <3>2. LoginTypeOK'
      BY <1>4, <2>2, <3>1, LoginMove DEF WaitForCode, Goes, LoginTypeOK
    <3> QED
      BY <1>4, <2>2, <3>2 DEF WaitForCode, Goes, LoginTypeOK
  <2> QED
    BY <1>4, <2>1, <2>2 DEF WaitForCode
<1>5. CASE Paste(s)
  <2>1. CASE \E own \in BOOLEAN : Found(s, own)
    BY <1>2, <1>5, <2>1 DEF Paste
  <2>2. CASE tries[s] < 2 /\ AskAgain(s, tries[s] + 1)
    BY <1>5, <2>2 DEF Paste, AskAgain, LoginTypeOK
  <2>3. CASE Leave(s, "failed")
    BY <1>3, <1>5, <2>3 DEF Paste
  <2> QED
    BY <1>5, <2>1, <2>2, <2>3 DEF Paste
<1>6. CASE exchangeOpenAICodexAuthorizationCode(s)
  BY <1>3, <1>6 DEF exchangeOpenAICodexAuthorizationCode
<1> QED
  BY <1>1, <1>4, <1>5, <1>6 DEF LoginStep

(* A command that enters its login has no callback server yet.              *)
LEMMA EnterTypes ==
  ASSUME TypeOK, NEW s \in Session, pc[s] # "login", Goes(s, "bind"),
         UNCHANGED <<ports, callback, code, tries, browser>>
  PROVE  LoginTypeOK'
  BY LoginMove DEF TypeOK, LoginTypeOK, Goes

(* Each step of a session keeps the types.                                  *)
LEMMA TypeSession ==
  ASSUME TypeOK, NEW s \in Session,
         Start(s) \/ Proceed(s) \/ Stop(s) \/ Cut(s) \/ Browse(s)
  PROVE  TypeOK'
<1>0. Nobody = Nobody /\ file.state \in {"absent", "cut", "whole"}
  BY DEF TypeOK
<1>1. CASE Start(s)
  <2>1. PICK q \in {"slack", "init", "llm step", "load"} : pc' = [pc EXCEPT ![s] = q]
    BY <1>1 DEF Start
  <2>2. mixed' \subseteq Writers'
    BY <1>1, <2>1, MixedMove DEF Start, Untouched
  <2> QED
    BY <1>0, <1>1, <2>1, <2>2, TypeMove DEF Start, Untouched, Pc
<1>2. CASE Choose(s)
  <2>1. PICK a \in Answers :
          IF a.profile = "codex"
            THEN /\ With(s, "login", "all", Everything(s, NoSection, a.slack))
                 /\ Goes(s, "bind")
            ELSE /\ With(s, "save", "all", Everything(s, Rendered(a.profile, ""), a.slack))
                 /\ UNCHANGED phase
    BY <1>2 DEF Choose
  <2>2. CASE a.profile = "codex"
    <3>1. LoginTypeOK'
      BY <1>2, <2>1, <2>2, EnterTypes DEF Choose
    <3>2. mixed' \subseteq Writers'
      BY <1>2, <2>1, <2>2, MixedMove DEF Choose, With, Untouched
    <3>3. /\ phase' = [phase EXCEPT ![s] = "bind"] /\ pc' = [pc EXCEPT ![s] = "login"]
          /\ part' = [part EXCEPT ![s] = "all"] /\ UNCHANGED file
      BY <1>2, <2>1, <2>2 DEF Choose, With, Goes, Untouched
    <3> QED
      BY <1>0, <3>1, <3>2, <3>3, TypeCross DEF Pc
  <2>3. CASE a.profile # "codex"
    <3>1. mixed' \subseteq Writers'
      BY <1>2, <2>1, <2>3, MixedMove DEF Choose, With, Untouched
    <3> QED
      BY <1>0, <1>2, <2>1, <2>3, <3>1, TypeMove DEF Choose, With, Untouched, login, Pc
  <2> QED
    BY <2>2, <2>3
<1>3. CASE LlmStep(s) \/ SlackStep(s)
  <2>1. PICK q \in {"repair", "slack step", "slack", "load", "idle"}, r \in Parts \cup {"none", "all"} :
          pc' = [pc EXCEPT ![s] = q] /\ part' \in {part, [part EXCEPT ![s] = r]}
    BY <1>3 DEF LlmStep, SlackStep, Goto, Over
  <2>2. mixed' \subseteq Writers'
    BY <1>3, <2>1, MixedMove DEF LlmStep, SlackStep, Untouched
  <2> QED
    BY <1>0, <1>3, <2>1, <2>2, TypeMove DEF LlmStep, SlackStep, Untouched, Pc
<1>4. CASE Repair(s)
  <2>1. CASE \E c : With(s, "login", "llm", c) /\ Goes(s, "bind")
    <3>1. LoginTypeOK'
      BY <1>4, <2>1, EnterTypes DEF Repair
    <3>2. mixed' \subseteq Writers'
      BY <1>4, <2>1, MixedMove DEF Repair, With, Untouched
    <3>3. /\ phase' = [phase EXCEPT ![s] = "bind"] /\ pc' = [pc EXCEPT ![s] = "login"]
          /\ part' = [part EXCEPT ![s] = "llm"] /\ UNCHANGED file
      BY <1>4, <2>1 DEF Repair, With, Goes, Untouched
    <3> QED
      BY <1>0, <3>1, <3>2, <3>3, TypeCross DEF Pc, Parts
  <2>2. CASE Over(s, "idle") /\ UNCHANGED phase
    <3>1. mixed' \subseteq Writers'
      BY <1>4, <2>2, MixedMove DEF Repair, Over, Untouched
    <3> QED
      BY <1>0, <1>4, <2>2, <3>1, TypeMove DEF Repair, Over, Untouched, login, Pc
  <2> QED
    BY <1>4, <2>1, <2>2 DEF Repair
<1>5. CASE Login(s)
  <2>1. LoginTypeOK' /\ phase'[s] # "off" /\ \A t \in Session \ {s} : phase'[t] = phase[t]
    BY <1>5, LoginStepTypes DEF Login, TypeOK
  <2> QED
    BY <1>5, <2>1 DEF Login, session, TypeOK, Writers
<1>6. CASE LoggedIn(s)
  <2>1. PICK q \in {"save", "idle"}, r \in Parts \cup {"none", "all"} :
          pc' = [pc EXCEPT ![s] = q] /\ part' = [part EXCEPT ![s] = r]
    BY <1>6 DEF LoggedIn, With, Over, TypeOK
  <2>2. mixed' \subseteq Writers'
    BY <1>6, <2>1, MixedMove DEF LoggedIn, Untouched
  <2>3. \A a \in Address : ports[a] # s \/ s = Nobody
    BY <1>6 DEF LoggedIn, TypeOK, LoginTypeOK
  <2>4. LoginTypeOK'
    BY <1>6, <2>3, LoginMove DEF LoggedIn, Goes, TypeOK, LoginTypeOK
  <2> QED
    BY <1>0, <1>6, <2>1, <2>2, <2>4, TypeCross DEF LoggedIn, Goes, Untouched, Pc
<1>7. CASE SlackAsk(s) \/ SlackAnswered(s)
  <2>1. PICK q \in {"slack prompt", "save", "idle"}, r \in {"slack", "none"} :
          pc' = [pc EXCEPT ![s] = q] /\ part' = [part EXCEPT ![s] = r]
    BY <1>7 DEF SlackAsk, SlackAnswered, With, Over
  <2>2. mixed' \subseteq Writers'
    BY <1>7, <2>1, MixedMove DEF SlackAsk, SlackAnswered, Untouched
  <2> QED
    BY <1>0, <1>7, <2>1, <2>2, TypeMove DEF SlackAsk, SlackAnswered, Untouched, Pc, Parts
<1>8. CASE Save(s)
  <2>1. pc' = [pc EXCEPT ![s] = "writing"] /\ UNCHANGED part
    BY <1>8 DEF Save, Goto
  <2>2. mixed' \subseteq Writers'
    BY <1>8, <2>1 DEF Save, TypeOK, Writers
  <2> QED
    BY <1>8, <2>1, <2>2, TypeMove DEF Save, Pc
<1>9. CASE Write(s)
  <2>1. PICK q \in {"slack step", "load", "idle"} :
          pc' = [pc EXCEPT ![s] = q] /\ part' = [part EXCEPT ![s] = "none"]
    BY <1>9 DEF Write, With, Over
  <2>2. mixed' \subseteq Writers'
    BY <1>9, <2>1 DEF Write, TypeOK, Writers
  <2>3. file'.state \in {"absent", "cut", "whole"}
    <3>1. \/ file' = [state |-> "whole", contents |-> copy[s]]
          \/ file' = [state |-> "cut", contents |-> Nothing]
      BY <1>9, Zenon DEF Write
    <3>2. CASE file' = [state |-> "whole", contents |-> copy[s]]
      BY <3>2
    <3>3. CASE file' = [state |-> "cut", contents |-> Nothing]
      BY <3>3
    <3> QED
      BY <3>1, <3>2, <3>3
  <2>4. pc[s] # "login" /\ UNCHANGED login
    BY <1>9 DEF Write
  <2> QED
    BY <2>1, <2>2, <2>3, <2>4, TypeMove DEF Pc
<1>10. CASE Load(s) \/ Stop(s)
  <2>1. PICK q \in {"serving", "idle"} :
          pc' = [pc EXCEPT ![s] = q] /\ part' = [part EXCEPT ![s] = "none"]
    BY <1>10 DEF Load, Stop, With, Over
  <2>2. mixed' \subseteq Writers'
    BY <1>10, <2>1, MixedMove DEF Load, Stop, Untouched
  <2> QED
    BY <1>0, <1>10, <2>1, <2>2, TypeMove DEF Load, Stop, Untouched, Pc
<1>11. CASE Cut(s)
  <2>1. LoginTypeOK'
    BY <1>11, LeaveTypes DEF Cut, TypeOK
  <2>2. mixed' \subseteq Writers'
    BY <1>11 DEF Cut, Over, TypeOK, Writers
  <2> QED
    BY <1>0, <1>11, <2>1, <2>2, TypeCross DEF Cut, Over, Leave, Pc
<1>12. CASE Browse(s)
  BY <1>12 DEF Browse, Redirect, session, TypeOK, LoginTypeOK, Writers
<1> QED
  BY <1>1, <1>2, <1>3, <1>4, <1>5, <1>6, <1>7, <1>8, <1>9, <1>10, <1>11, <1>12 DEF Proceed

(* Each step of the system keeps the types.                                 *)
LEMMA TypeStep == TypeOK /\ [Next]_vars => TypeOK'
<1>1. ASSUME TypeOK, UNCHANGED vars PROVE TypeOK'
  BY <1>1 DEF vars, session, login, TypeOK, LoginTypeOK, Writers
<1> QED
  BY <1>1, TypeSession DEF Next

(* Whatever is done in whatever order, every variable keeps its type, and a *)
(* callback server is open only while its session logs in (oauth.go 71-75). *)
THEOREM TypeCorrect == Spec => []TypeOK
  BY TypeInit, TypeStep, PTL DEF Spec

-----------------------------------------------------------------------------
(* Serving.  A session serves with the contents that Load accepted and that *)
(* newApp built: the invariant keeps both judgements.                       *)

ServeInv ==
  /\ copy = [t \in Session |-> copy[t]]
  /\ \A s \in Session : pc[s] = "serving" => Validate(copy[s].llm) /\ Built(copy[s].llm) # {}

(* Nobody serves at first.                                                  *)
LEMMA ServeInit == Init => ServeInv
  BY DEF Init, ServeInv

(* Only Load makes a session serve.                                         *)
LEMMA ServeMove ==
  ASSUME TypeOK, ServeInv, NEW s \in Session, NEW q, q # "serving", NEW c,
         pc' = [pc EXCEPT ![s] = q], copy' \in {copy, [copy EXCEPT ![s] = c]},
         pc[s] # "serving" \/ q # "serving"
  PROVE  ServeInv'
  BY DEF TypeOK, ServeInv

(* Each step keeps what is known of those who serve.                        *)
LEMMA ServeStep == TypeOK /\ ServeInv /\ [Next]_vars => ServeInv'
<1> SUFFICES ASSUME TypeOK, ServeInv, [Next]_vars PROVE ServeInv'
  OBVIOUS
<1>1. ASSUME NEW s \in Session, NEW q, q # "serving", NEW c, NEW p, With(s, q, p, c)
      PROVE  ServeInv'
  BY <1>1, ServeMove DEF With
<1>2. ASSUME NEW s \in Session, Over(s, "idle")
      PROVE  ServeInv'
  BY <1>2, ServeMove DEF Over
<1>3. ASSUME NEW s \in Session, NEW q, q # "serving", Goto(s, q)
      PROVE  ServeInv'
  BY <1>3, ServeMove DEF Goto
<1>4. ASSUME NEW s \in Session, Start(s)
      PROVE  ServeInv'
  <2>1. PICK q \in {"slack", "init", "llm step", "load"} : pc' = [pc EXCEPT ![s] = q]
    BY <1>4 DEF Start
  <2> QED
    BY <1>4, <2>1, ServeMove DEF Start
<1>5. ASSUME NEW s \in Session, Load(s)
      PROVE  ServeInv'
  <2>1. CASE \E c, envs : Loads(c.llm, envs) /\ Built(c.llm) # {} /\ With(s, "serving", "none", c)
    BY <2>1 DEF With, Loads, ServeInv, TypeOK
  <2> QED
    BY <1>2, <1>5, <2>1 DEF Load
<1>6. ASSUME NEW s \in Session, Proceed(s)
      PROVE  ServeInv'
  <2>1. CASE Choose(s)
    BY <1>1, <2>1 DEF Choose
  <2>2. CASE LlmStep(s) \/ SlackStep(s)
    BY <1>2, <1>3, <2>2 DEF LlmStep, SlackStep
  <2>3. CASE Repair(s)
    BY <1>1, <1>2, <2>3 DEF Repair
  <2>4. CASE Login(s)
    BY <2>4 DEF Login, session, ServeInv
  <2>5. CASE LoggedIn(s)
    BY <1>1, <1>2, <2>5 DEF LoggedIn
  <2>6. CASE SlackAsk(s) \/ SlackAnswered(s)
    BY <1>1, <1>2, <2>6 DEF SlackAsk, SlackAnswered
  <2>7. CASE Save(s)
    BY <1>3, <2>7 DEF Save
  <2>8. CASE Write(s)
    BY <1>1, <1>2, <2>8 DEF Write
  <2> QED
    BY <1>5, <1>6, <2>1, <2>2, <2>3, <2>4, <2>5, <2>6, <2>7, <2>8 DEF Proceed
<1>7. ASSUME NEW s \in Session, Stop(s) \/ Cut(s)
      PROVE  ServeInv'
  BY <1>2, <1>7 DEF Stop, Cut
<1>8. ASSUME NEW s \in Session, Browse(s)
      PROVE  ServeInv'
  BY <1>8 DEF Browse, session, ServeInv
<1>9. CASE UNCHANGED vars
  BY <1>9 DEF vars, session, ServeInv
<1> QED
  BY <1>4, <1>6, <1>7, <1>8, <1>9 DEF Next

(* What serves is built: Validate knows every name that a named route gives *)
(* and the default provider, and buildProviders fails unless it builds every *)
(* provider.                                                                *)
LEMMA AcceptedIsBuilt ==
  ASSUME NEW llm, Validate(llm), Built(llm) # {}
  PROVE  llm.default \in Built(llm) /\ \A t \in TaskTypes : Routable(llm, t)
<1>1. Built(llm) = DOMAIN llm.providers
  BY DEF Built
<1>2. llm.default \in Built(llm)
  BY <1>1 DEF Validate
<1>3. ASSUME NEW t \in TaskTypes
      PROVE  Routable(llm, t)
  <2>1. Checked(llm, t) \subseteq Built(llm)
    BY <1>1 DEF Validate, Checked, RouteOf
  <2>2. CASE Checked(llm, t) \cup Unchecked(llm, t) = {}
    <3>1. Asked(llm, t) = {llm.default} /\ Asked(llm, t) \subseteq Built(llm)
      BY <1>2, <2>2 DEF Asked
    <3> QED
      BY <1>2, <3>1 DEF Routable
  <2>3. CASE Checked(llm, t) \cup Unchecked(llm, t) # {}
    <3>1. Asked(llm, t) = Checked(llm, t) \cup Unchecked(llm, t)
      BY <2>3 DEF Asked
    <3> QED
      BY <2>1, <2>3, <3>1 DEF Routable
  <2> QED
    BY <2>2, <2>3
<1> QED
  BY <1>2, <1>3

(* A process that serves has its default provider and every provider that a *)
(* checked route names, so that every task with such a route finds one,     *)
(* whatever other sessions do to the file it was started from (newApp,      *)
(* Load, resolveChain).  Routes of tasks and of the chain may name others.  *)
THEOREM ProvidersAreBuilt == Spec => []ServingIsBuilt
<1>1. Init => ServeInv
  BY ServeInit
<1>2. ServeInv => ServingIsBuilt
  BY AcceptedIsBuilt DEF ServeInv, ServingIsBuilt
<1> QED
  BY <1>1, <1>2, TypeCorrect, ServeStep, PTL DEF Spec

-----------------------------------------------------------------------------
(* Saving.  Contents always have three parts; a session that is to save one  *)
(* of them has put itself down for it; a writer that no other knows of is    *)
(* the only one; and, unspoiled, the file is what it should be when nobody   *)
(* writes, and every copy is the same but for its own part.                  *)

(* What a session that is to save the part p holds differs from what the    *)
(* file should hold in that part only.                                      *)
Fits(c, p) ==
  /\ p = "llm" => c.slack = ideal.slack
  /\ p = "slack" => c.llm = ideal.llm
  /\ \A q \in Parts \ {p} : c.by[q] = ideal.by[q]

ShapeInv ==
  /\ Shaped(ideal) /\ Shaped(file.contents)
  /\ copy = [t \in Session |-> copy[t]]
  /\ \A t \in Session : Shaped(copy[t])

AimInv ==
  \A t \in Session :
    /\ pc[t] = "login" => part[t] \in {"all", "llm"}
    /\ pc[t] \in {"save", "writing"} =>
         /\ part[t] \in {"all", "llm", "slack"}
         /\ part[t] # "all" => copy[t].by[part[t]] = t

OnlyWriter == \A t, u \in Writers : t = u \/ t \in mixed

KeepInv ==
  ~spoiled =>
    /\ IF Writers = {} THEN file.contents = ideal /\ file.state # "cut" ELSE file.state = "cut"
    /\ \A t \in Session : Holds(t) => Fits(copy[t], part[t])

SavedInv == ShapeInv /\ AimInv /\ OnlyWriter /\ KeepInv

(* No file has the shape of contents ...                                    *)
LEMMA ShapedNothing == Shaped(Nothing)
  BY DEF Shaped, Nothing, Contents

(* ... and what setup init writes.                                          *)
LEMMA ShapedEverything ==
  ASSUME NEW s, NEW llm, NEW slack
  PROVE  Shaped(Everything(s, llm, slack))
  BY DEF Shaped, Everything, Contents

(* What is completed keeps its shape and its other parts.                   *)
LEMMA Completed ==
  ASSUME NEW c, Shaped(c), NEW s, NEW new
  PROVE  /\ Shaped(WithLlm(s, c, new)) /\ WithLlm(s, c, new).slack = c.slack
         /\ Shaped(WithSlack(s, c, new)) /\ WithSlack(s, c, new).llm = c.llm
         /\ WithLlm(s, c, new).by["llm"] = s /\ WithSlack(s, c, new).by["slack"] = s
         /\ \A q \in Parts \ {"llm"} : WithLlm(s, c, new).by[q] = c.by[q]
         /\ \A q \in Parts \ {"slack"} : WithSlack(s, c, new).by[q] = c.by[q]
<1>1. c.by = [q \in Parts |-> c.by[q]]
  BY DEF Shaped, Contents
<1> QED
  BY <1>1 DEF WithLlm, WithSlack, Shaped, Contents, Parts

(* Contents that agree in every part are the same.                          *)
LEMMA SameContents ==
  ASSUME NEW c, NEW d, Shaped(c), Shaped(d), c.llm = d.llm, c.slack = d.slack,
         \A q \in Parts : c.by[q] = d.by[q]
  PROVE  c = d
<1>1. [q \in Parts |-> c.by[q]] = [q \in Parts |-> d.by[q]]
  OBVIOUS
<1> QED
  BY <1>1 DEF Shaped

(* The file is what it should be at first.                                  *)
LEMMA SavedInit == Init => SavedInv
<1> SUFFICES ASSUME Init PROVE SavedInv
  OBVIOUS
<1>1. PICK first \in Scenarios : file = [state |-> IF first.contents = Nothing THEN "absent" ELSE "whole",
                                         contents |-> first.contents]
  BY DEF Init
<1>2. ShapeInv
  BY <1>1, SetupAssumption, ShapedNothing DEF Init, ShapeInv
<1>3. Writers = {} /\ AimInv /\ OnlyWriter
  BY DEF Init, Writers, AimInv, OnlyWriter
<1>4. KeepInv
  BY <1>1, <1>3 DEF Init, KeepInv, Holds
<1> QED
  BY <1>2, <1>3, <1>4 DEF SavedInv

(* A session that is not writing moves on, and what it is to save fits.     *)
LEMMA SavedMove ==
  ASSUME TypeOK, SavedInv, NEW s \in Session, NEW q, NEW r, NEW c,
         pc[s] # "writing", q # "writing", Shaped(c), spoiled => spoiled',
         pc' = [pc EXCEPT ![s] = q], part' = [part EXCEPT ![s] = r], copy' = [copy EXCEPT ![s] = c],
         UNCHANGED <<file, mixed, ideal>>,
         q = "login" => r \in {"all", "llm"},
         q = "save" => r \in {"all", "llm", "slack"} /\ (r # "all" => c.by[r] = s),
         ~spoiled' /\ q \in {"login", "save"} /\ r \in {"llm", "slack"} => Fits(c, r)
  PROVE  SavedInv'
<1>1. ShapeInv'
  BY DEF SavedInv, ShapeInv
<1>2. AimInv'
  BY DEF TypeOK, SavedInv, ShapeInv, AimInv
<1>3. Writers' = Writers
  BY DEF TypeOK, Writers
<1>4. OnlyWriter'
  BY <1>3 DEF SavedInv, OnlyWriter
<1>5. ASSUME ~spoiled', NEW t \in Session, Holds(t)'
      PROVE  Fits(copy[t], part[t])'
  <2>1. CASE t = s
    BY <1>5, <2>1 DEF TypeOK, SavedInv, ShapeInv, Holds, Fits
  <2>2. CASE t # s
    BY <1>5, <2>2 DEF TypeOK, SavedInv, ShapeInv, KeepInv, Holds, Fits
  <2> QED
    BY <2>1, <2>2
<1>6. KeepInv'
  BY <1>3, <1>5 DEF SavedInv, KeepInv
<1> QED
  BY <1>1, <1>2, <1>4, <1>6 DEF SavedInv

(* Nothing moved but the logins.                                            *)
LEMMA SavedStays ==
  ASSUME SavedInv, UNCHANGED <<file, session, mixed, ideal, spoiled>>
  PROVE  SavedInv'
  BY DEF SavedInv, ShapeInv, AimInv, OnlyWriter, KeepInv, session, Shaped, Writers, Holds, Fits

(* A session that asks, and keeps its copy or drops it.                     *)
LEMMA SavedLeave ==
  ASSUME TypeOK, SavedInv, NEW s \in Session, NEW q, q \notin {"login", "save", "writing"},
         Over(s, q) \/ Goto(s, q), pc[s] # "writing",
         UNCHANGED <<file, mixed, ideal>>, spoiled => spoiled'
  PROVE  SavedInv'
<1>1. CASE Over(s, q)
  BY <1>1, ShapedNothing, SavedMove DEF Over
<1>2. CASE Goto(s, q)
  <2>1. part' = [part EXCEPT ![s] = part[s]] /\ copy' = [copy EXCEPT ![s] = copy[s]]
    BY <1>2 DEF Goto, TypeOK, SavedInv, ShapeInv
  <2>2. Shaped(copy[s])
    BY DEF SavedInv, ShapeInv
  <2> QED
    BY <1>2, <2>1, <2>2, SavedMove DEF Goto
<1> QED
  BY <1>1, <1>2

(* What a session reads is what the file should hold.                       *)
LEMMA ReadIsIdeal ==
  ASSUME SavedInv, NEW c \in {file.contents, Nothing}, Reads(c)
  PROVE  Shaped(c) /\ (~spoiled /\ ~MayBeUnreadable => c = ideal)
  BY ShapedNothing DEF SavedInv, ShapeInv, KeepInv, Reads, MayBeUnreadable

(* The repair of the llm section starts from it ...                         *)
LEMMA SavedRepair ==
  ASSUME TypeOK, SavedInv, NEW s \in Session, Repair(s)
  PROVE  SavedInv'
<1>1. UNCHANGED <<file, mixed, ideal>> /\ pc[s] = "repair" /\ (spoiled => spoiled')
  BY DEF Repair, Untouched
<1>2. CASE Over(s, "idle")
  BY <1>1, <1>2, SavedLeave
<1>3. ASSUME NEW c \in {file.contents, Nothing}, Reads(c), With(s, "login", "llm", c)
      PROVE  SavedInv'
  <2>1. Shaped(c) /\ (~spoiled' => c = ideal)
    BY <1>3, ReadIsIdeal DEF Repair
  <2>2. ~spoiled' => Fits(c, "llm")
    BY <2>1 DEF Fits
  <2> QED
    BY <1>1, <1>3, <2>1, <2>2, SavedMove DEF With
<1> QED
  BY <1>2, <1>3 DEF Repair

(* ... and changes only that section.                                       *)
LEMMA SavedLoggedIn ==
  ASSUME TypeOK, SavedInv, NEW s \in Session, LoggedIn(s)
  PROVE  SavedInv'
<1>1. UNCHANGED <<file, mixed, ideal, spoiled>> /\ pc[s] = "login"
  BY DEF LoggedIn, Untouched
<1>2. CASE Over(s, "idle")
  BY <1>1, <1>2, SavedLeave
<1>3. ASSUME NEW llm, With(s, "save", part[s], WithLlm(s, copy[s], llm))
      PROVE  SavedInv'
  <2> DEFINE c == WithLlm(s, copy[s], llm)
  <2>1. Shaped(copy[s]) /\ part[s] \in {"all", "llm"}
    BY <1>1 DEF SavedInv, ShapeInv, AimInv
  <2>2. /\ Shaped(c) /\ c.slack = copy[s].slack /\ c.by["llm"] = s
        /\ \A q \in Parts \ {"llm"} : c.by[q] = copy[s].by[q]
    BY <2>1, Completed
  <2>3. ~spoiled' /\ part[s] \in {"llm", "slack"} => Fits(c, part[s])
    BY <1>1, <2>1, <2>2 DEF SavedInv, KeepInv, Holds, Fits
  <2>4. /\ pc' = [pc EXCEPT ![s] = "save"] /\ part' = [part EXCEPT ![s] = part[s]]
        /\ copy' = [copy EXCEPT ![s] = c]
    BY <1>3 DEF With
  <2> HIDE DEF c
  <2> QED
    BY <1>1, <2>1, <2>2, <2>3, <2>4, SavedMove
<1> QED
  BY <1>2, <1>3 DEF LoggedIn

(* The Slack section is put into the file as it is read once the questions  *)
(* are answered.                                                            *)
LEMMA SavedAnswered ==
  ASSUME TypeOK, SavedInv, NEW s \in Session, SlackAnswered(s)
  PROVE  SavedInv'
<1>1. UNCHANGED <<file, mixed, ideal>> /\ pc[s] = "slack prompt" /\ (spoiled => spoiled')
  BY DEF SlackAnswered, Untouched
<1>2. CASE Over(s, "idle")
  BY <1>1, <1>2, SavedLeave
<1>3. ASSUME NEW c \in {file.contents, Nothing}, NEW token \in BOOLEAN, Reads(c),
             With(s, "save", "slack", Upsert(s, c, token))
      PROVE  SavedInv'
  <2> DEFINE d == Upsert(s, c, token)
  <2>1. Shaped(c) /\ (~spoiled' => c = ideal)
    BY <1>3, ReadIsIdeal DEF SlackAnswered
  <2>2. /\ Shaped(d) /\ d.llm = c.llm /\ d.by["slack"] = s
        /\ \A q \in Parts \ {"slack"} : d.by[q] = c.by[q]
    <3> DEFINE k == IF token \/ c.slack \in {"complete", "no channel"} THEN "complete" ELSE "no token"
    <3>1. d = WithSlack(s, c, k)
      BY DEF Upsert, SlackWith
    <3> HIDE DEF k
    <3> QED
      BY <2>1, <3>1, Completed
  <2>3. ~spoiled' => Fits(d, "slack")
    BY <2>1, <2>2 DEF Fits
  <2>4. /\ pc' = [pc EXCEPT ![s] = "save"] /\ part' = [part EXCEPT ![s] = "slack"]
        /\ copy' = [copy EXCEPT ![s] = d]
    BY <1>3 DEF With
  <2> HIDE DEF d
  <2> QED
    BY <1>1, <2>2, <2>3, <2>4, SavedMove
<1> QED
  BY <1>2, <1>3 DEF SlackAnswered

(* A writer is alone, or every writer is told.                              *)
LEMMA SavedSave ==
  ASSUME TypeOK, SavedInv, NEW s \in Session, Save(s)
  PROVE  SavedInv'
<1>1. /\ pc[s] = "save" /\ pc' = [pc EXCEPT ![s] = "writing"] /\ UNCHANGED <<part, copy, ideal, spoiled>>
      /\ file' = [state |-> "cut", contents |-> Nothing]
  BY DEF Save, Goto
<1>2. Writers' = Writers \cup {s}
  BY <1>1 DEF TypeOK, Writers
<1>3. ShapeInv'
  BY <1>1, ShapedNothing DEF SavedInv, ShapeInv
<1>4. AimInv'
  BY <1>1 DEF TypeOK, SavedInv, AimInv
<1>5. OnlyWriter'
  BY <1>1, <1>2 DEF SavedInv, OnlyWriter, Save
<1>6. \A t \in Session : Holds(t)' => Holds(t)
  BY <1>1 DEF TypeOK, Holds
<1>7. KeepInv'
  BY <1>1, <1>2, <1>6 DEF SavedInv, KeepInv, Fits
<1> QED
  BY <1>3, <1>4, <1>5, <1>7 DEF SavedInv

(* A killed command may have been writing.                                  *)
LEMMA SavedCut ==
  ASSUME TypeOK, SavedInv, NEW s \in Session, Cut(s)
  PROVE  SavedInv'
<1>1. /\ pc' = [pc EXCEPT ![s] = "idle"] /\ part' = [part EXCEPT ![s] = "none"]
      /\ copy' = [copy EXCEPT ![s] = Nothing] /\ UNCHANGED <<file, ideal>>
      /\ mixed' = mixed \ {s} /\ spoiled' = (spoiled \/ pc[s] = "writing")
  BY DEF Cut, Over
<1>2. CASE pc[s] # "writing"
  <2>1. UNCHANGED mixed
    BY <1>1, <1>2 DEF TypeOK, Writers
  <2> QED
    BY <1>1, <1>2, <2>1, ShapedNothing, SavedMove
<1>3. CASE pc[s] = "writing"
  <2>1. Writers' = Writers \ {s}
    BY <1>1 DEF TypeOK, Writers
  <2>2. ShapeInv'
    BY <1>1, ShapedNothing DEF SavedInv, ShapeInv
  <2>3. AimInv'
    BY <1>1 DEF TypeOK, SavedInv, ShapeInv, AimInv
  <2>4. OnlyWriter'
    BY <1>1, <2>1 DEF SavedInv, OnlyWriter
  <2>5. KeepInv'
    BY <1>1, <1>3 DEF KeepInv
  <2> QED
    BY <2>2, <2>3, <2>4, <2>5 DEF SavedInv
<1> QED
  BY <1>2, <1>3

(* What is written alone, by a session nobody overlaps, is what the file    *)
(* should hold: its copy is the ideal but for the part it saves.            *)
LEMMA WrittenIsIdeal ==
  ASSUME SavedInv, NEW s \in Session, Write(s), ~spoiled'
  PROVE  file' = [state |-> "whole", contents |-> copy[s]] /\ ideal' = copy[s]
<1>1. pc[s] = "writing" /\ ~spoiled /\ s \notin mixed
  BY DEF Write
<1>2. file' = [state |-> "whole", contents |-> copy[s]]
  BY <1>1, Zenon DEF Write
<1>3. /\ Shaped(copy[s]) /\ Shaped(ideal) /\ part[s] \in {"all", "llm", "slack"}
      /\ part[s] # "all" => copy[s].by[part[s]] = s /\ Fits(copy[s], part[s])
  BY <1>1 DEF SavedInv, ShapeInv, AimInv, KeepInv, Holds
<1>4. CASE part[s] = "all"
  BY <1>4 DEF Write
<1>5. CASE part[s] = "llm"
  <2> DEFINE d == WithLlm(s, ideal, copy[s].llm)
  <2>1. ideal' = d
    BY <1>5 DEF Write
  <2>2. /\ Shaped(d) /\ d.slack = ideal.slack /\ d.by["llm"] = s /\ d.llm = copy[s].llm
        /\ \A q \in Parts \ {"llm"} : d.by[q] = ideal.by[q]
    BY <1>3, Completed DEF WithLlm, Contents
  <2> HIDE DEF d
  <2>3. d = copy[s]
    BY <1>3, <1>5, <2>2, SameContents DEF Fits
  <2> QED
    BY <1>2, <2>1, <2>3
<1>6. CASE part[s] = "slack"
  <2> DEFINE d == WithSlack(s, ideal, copy[s].slack)
  <2>1. ideal' = d
    BY <1>6 DEF Write
  <2>2. /\ Shaped(d) /\ d.llm = ideal.llm /\ d.by["slack"] = s /\ d.slack = copy[s].slack
        /\ \A q \in Parts \ {"slack"} : d.by[q] = ideal.by[q]
    BY <1>3, Completed DEF WithSlack, Contents
  <2> HIDE DEF d
  <2>3. d = copy[s]
    BY <1>3, <1>6, <2>2, SameContents DEF Fits
  <2> QED
    BY <1>2, <2>1, <2>3
<1> QED
  BY <1>2, <1>3, <1>4, <1>5, <1>6

(* After that nobody holds a copy of what the file was before.              *)
LEMMA SavedWrite ==
  ASSUME TypeOK, SavedInv, NEW s \in Session, Write(s)
  PROVE  SavedInv'
<1>1. PICK q \in {"slack step", "load", "idle"} :
        pc' = [pc EXCEPT ![s] = q] /\ part' = [part EXCEPT ![s] = "none"]
        /\ copy' = [copy EXCEPT ![s] = Nothing]
  BY DEF Write, With, Over
<1>2. /\ pc[s] = "writing" /\ mixed' = mixed \ {s}
      /\ spoiled' = (spoiled \/ Overlaps(s) \/ s \in mixed)
  BY DEF Write
<1>3. Writers' = Writers \ {s}
  BY <1>1 DEF TypeOK, Writers
<1>4. Shaped(copy[s]) /\ Shaped(ideal) /\ part[s] \in {"all", "llm", "slack"}
  BY <1>2 DEF SavedInv, ShapeInv, AimInv
<1>5. Shaped(ideal')
  <2>1. CASE part[s] = "all"
    BY <1>4, <2>1 DEF Write
  <2>2. CASE part[s] = "llm"
    <3>1. ideal' = WithLlm(s, ideal, copy[s].llm)
      BY <2>2 DEF Write
    <3> QED
      BY <1>4, <3>1, Completed
  <2>3. CASE part[s] = "slack"
    <3>1. ideal' = WithSlack(s, ideal, copy[s].slack)
      BY <2>3 DEF Write
    <3> QED
      BY <1>4, <3>1, Completed
  <2> QED
    BY <1>4, <2>1, <2>2, <2>3
<1>6. Shaped(file'.contents)
  <2>1. \/ file' = [state |-> "whole", contents |-> copy[s]]
        \/ file' = [state |-> "cut", contents |-> Nothing]
    BY Zenon DEF Write
  <2>2. CASE file' = [state |-> "whole", contents |-> copy[s]]
    BY <1>4, <2>2
  <2>3. CASE file' = [state |-> "cut", contents |-> Nothing]
    BY <2>3, ShapedNothing
  <2> QED
    BY <2>1, <2>2, <2>3
<1>7. ShapeInv'
  BY <1>1, <1>5, <1>6, ShapedNothing DEF SavedInv, ShapeInv
<1>8. AimInv'
  BY <1>1 DEF TypeOK, SavedInv, ShapeInv, AimInv
<1>9. OnlyWriter'
  BY <1>2, <1>3 DEF SavedInv, OnlyWriter
<1>10. ASSUME ~spoiled'
       PROVE  /\ Writers' = {} /\ file'.contents = ideal' /\ file'.state # "cut"
              /\ \A t \in Session : ~Holds(t)'
  <2>1. s \in Writers /\ s \notin mixed /\ \A t \in Session \ {s} : ~Holds(t)
    BY <1>2, <1>10 DEF Overlaps, Writers
  <2>2. Writers' = {}
    BY <1>3, <2>1 DEF SavedInv, OnlyWriter
  <2>3. file'.contents = ideal' /\ file'.state # "cut"
    <3>1. file' = [state |-> "whole", contents |-> copy[s]] /\ ideal' = copy[s]
      BY <1>10, WrittenIsIdeal
    <3> QED
      BY <3>1
  <2>4. \A t \in Session : ~Holds(t)'
    BY <1>1, <2>1 DEF TypeOK, SavedInv, ShapeInv, Holds
  <2> QED
    BY <2>2, <2>3, <2>4
<1>11. KeepInv'
  BY <1>10 DEF KeepInv
<1> QED
  BY <1>7, <1>8, <1>9, <1>11 DEF SavedInv

(* Each step keeps the invariant.                                           *)
LEMMA SavedStep == TypeOK /\ SavedInv /\ [Next]_vars => SavedInv'
<1> SUFFICES ASSUME TypeOK, SavedInv, [Next]_vars PROVE SavedInv'
  OBVIOUS
<1>1. ASSUME NEW s \in Session, Start(s)
      PROVE  SavedInv'
  <2>1. PICK q \in {"slack", "init", "llm step", "load"} : pc' = [pc EXCEPT ![s] = q]
    BY <1>1 DEF Start
  <2>2. part' = [part EXCEPT ![s] = part[s]] /\ copy' = [copy EXCEPT ![s] = copy[s]]
    BY <1>1 DEF Start, TypeOK, SavedInv, ShapeInv
  <2>3. Shaped(copy[s])
    BY DEF SavedInv, ShapeInv
  <2> QED
    BY <1>1, <2>1, <2>2, <2>3, SavedMove DEF Start, Untouched
<1>2. ASSUME NEW s \in Session, Choose(s)
      PROVE  SavedInv'
  <2>1. PICK q \in {"login", "save"} :
          \E llm, slack : With(s, q, "all", Everything(s, llm, slack))
    BY <1>2 DEF Choose
  <2>2. PICK llm, slack : With(s, q, "all", Everything(s, llm, slack))
    BY <2>1
  <2> QED
    BY <1>2, <2>2, ShapedEverything, SavedMove DEF Choose, With, Untouched
<1>3. ASSUME NEW s \in Session, LlmStep(s) \/ SlackStep(s)
      PROVE  SavedInv'
  <2>1. PICK q \in {"repair", "slack step", "slack", "load", "idle"} : Goto(s, q) \/ Over(s, q)
    BY <1>3 DEF LlmStep, SlackStep
  <2>2. /\ UNCHANGED <<file, mixed, ideal, spoiled>> /\ pc[s] # "writing"
        /\ q \notin {"login", "save", "writing"}
    BY <1>3 DEF LlmStep, SlackStep, Untouched
  <2> QED
    BY <2>1, <2>2, SavedLeave
<1>4. ASSUME NEW s \in Session, SlackAsk(s)
      PROVE  SavedInv'
  <2>1. PICK c \in {file.contents, Nothing} : Reads(c) /\ With(s, "slack prompt", "slack", c)
    BY <1>4 DEF SlackAsk
  <2> QED
    BY <1>4, <2>1, ReadIsIdeal, SavedMove DEF SlackAsk, With, Untouched
<1>5. ASSUME NEW s \in Session, Load(s) \/ Stop(s)
      PROVE  SavedInv'
  <2>1. CASE Over(s, "idle")
    BY <1>5, <2>1, SavedLeave DEF Load, Stop, Untouched
  <2>2. ASSUME NEW c \in {file.contents, Nothing}, Reads(c), With(s, "serving", "none", c)
        PROVE  SavedInv'
    <3>1. Shaped(c)
      BY <2>2, ReadIsIdeal
    <3>2. UNCHANGED <<file, mixed, ideal, spoiled>> /\ pc[s] # "writing"
      BY <1>5 DEF Load, Stop, Untouched
    <3> QED
      BY <2>2, <3>1, <3>2, SavedMove DEF With
  <2> QED
    BY <1>5, <2>1, <2>2 DEF Load, Stop
<1>6. ASSUME NEW s \in Session, Login(s) \/ Browse(s)
      PROVE  SavedInv'
  BY <1>6, SavedStays DEF Login, Browse
<1>7. CASE UNCHANGED vars
  BY <1>7, SavedStays DEF vars
<1> QED
  BY <1>1, <1>2, <1>3, <1>4, <1>5, <1>6, <1>7, SavedRepair, SavedLoggedIn, SavedAnswered,
     SavedSave, SavedWrite, SavedCut DEF Next, Proceed

(* No command undoes what another has saved, however many work on the file, *)
(* unless one was killed as it wrote, or two overlapped.                    *)
THEOREM SavesAreKept == Spec => []SavedIsKept
<1>1. SavedInv => SavedIsKept
  BY DEF SavedInv, KeepInv, SavedIsKept
<1> QED
  BY <1>1, SavedInit, TypeCorrect, SavedStep, PTL DEF Spec

-----------------------------------------------------------------------------
(* Onboarding and Load about one provider.                                  *)

(* A section with one provider, which is the default one.                   *)
LEMMA OneProvider ==
  ASSUME NEW name, NEW p
  PROVE  /\ NeedsPrompt(Single(name, p)) <=> ~ProviderComplete(name, p)
         /\ Validate(Single(name, p)) <=> ProviderValid(name, p)
<1> DEFINE s == Single(name, p)
<1>1. /\ s.default = name /\ \A t \in DOMAIN s.routing.named : s.routing.named[t] = name
      /\ DOMAIN s.providers = {name} /\ s.providers[name] = p
  BY DEF Single, Section, Routing
<1> HIDE DEF s
<1>2. NeedsPrompt(s) <=> ~ProviderComplete(name, p)
  BY <1>1 DEF NeedsPrompt
<1>3. Validate(s) <=> ProviderValid(name, p)
  BY <1>1 DEF Validate
<1> QED
  BY <1>2, <1>3 DEF s

(* What the fields of a provider may be.                                    *)
LEMMA Fields ==
  ASSUME NEW p \in AnyProvider
  PROVE  /\ p.auth \in {"", "oauth", "api_key"} /\ p.mode \in Modes
         /\ ~p.block => /\ p.mode = "" /\ p.url = "" /\ p.id = "" /\ p.secret = ""
                        /\ p.refresh = "" /\ p.access = ""
  BY DEF AnyProvider

(* An oauth block is complete for onboarding when it is valid for Load, but *)
(* for a mode that Load does not know.                                      *)
LEMMA BlocksAgree ==
  ASSUME NEW p \in AnyProvider, p.mode # "other"
  PROVE  OAuthComplete(p) <=> OAuthValid(p)
<1>1. Mode(p) \in {"authorization_code", "client_credentials"}
  BY Fields DEF Mode, Modes
<1>2. ~p.block => p.url = ""
  BY Fields
<1>3. CASE Mode(p) = "authorization_code"
  BY <1>2, <1>3 DEF OAuthComplete, OAuthValid
<1>4. CASE Mode(p) = "client_credentials"
  BY <1>2, <1>4 DEF OAuthComplete, OAuthValid
<1> QED
  BY <1>1, <1>3, <1>4

(* Of a provider written as documented, onboarding and Validate think       *)
(* alike, case by case of its name and way of access.                       *)
LEMMA Agreement ==
  ASSUME NEW name \in Names, NEW p \in AnyProvider, Documented(name, p)
  PROVE  ProviderComplete(name, p) <=> ProviderValid(name, p)
<1>1. CASE name = "openai"
  <2>1. CASE p.auth = "oauth"
    <3>1. p.key = "" /\ p.mode # "other"
      BY <1>1, <2>1 DEF Documented
    <3>2. AuthType(name, p) = "oauth"
      BY <2>1 DEF AuthType
    <3> QED
      BY <1>1, <2>1, <3>1, <3>2, BlocksAgree DEF ProviderComplete, ProviderValid
  <2>2. CASE p.auth # "oauth"
    <3>1. AuthType(name, p) # "oauth"
      BY <1>1, <2>2 DEF AuthType, Documented
    <3> QED
      BY <1>1, <2>2, <3>1 DEF ProviderComplete, ProviderValid
  <2> QED
    BY <2>1, <2>2
<1>2. CASE name = "custom"
  <2>1. /\ p.auth = "oauth" /\ p.key = "" /\ p.base # ""
        /\ p.mode \in {"", "client_credentials"} /\ p.refresh = "" /\ p.access = ""
    BY <1>2 DEF Documented
  <2>2. AuthType(name, p) = "oauth" /\ Mode(p) = "client_credentials"
    BY <2>1 DEF AuthType, Mode
  <2>3. ~p.block => p.url = ""
    BY Fields
  <2> QED
    BY <1>2, <2>1, <2>2, <2>3 DEF ProviderComplete, ProviderValid, OAuthComplete
<1>3. CASE name \in {"anthropic", "gemini"}
  <2>1. p.auth # "oauth"
    BY <1>3 DEF Documented
  <2>2. AuthType(name, p) # "oauth"
    BY <1>3, <2>1 DEF AuthType
  <2> QED
    BY <1>3, <2>1, <2>2 DEF ProviderComplete, ProviderValid
<1> QED
  BY <1>1, <1>2, <1>3 DEF Names

(* Of what onboarding writes, only a login without refresh token is asked   *)
(* for again.                                                               *)
LEMMA OwnSections == AcceptsItsOwn
<1>1. ASSUME NEW profile \in Profiles
      PROVE  Validate(Rendered(profile, "set")) /\ ~NeedsPrompt(Rendered(profile, "set"))
  <2>1. CASE profile = "codex"
    <3> DEFINE p == OAuth("authorization_code", "set", "", "set", "set")
    <3>1. Rendered(profile, "set") = Single("openai", p)
      BY <2>1 DEF Rendered, buildOpenAICodexOAuthLLMConfigMap
    <3>2. ProviderComplete("openai", p) /\ ProviderValid("openai", p)
      BY DEF OAuth, ProviderComplete, ProviderValid, AuthType, Mode, OAuthComplete, OAuthValid
    <3> HIDE DEF p
    <3>3. Validate(Single("openai", p)) /\ ~NeedsPrompt(Single("openai", p))
      BY <3>2, OneProvider
    <3> QED
      BY <3>1, <3>3
  <2>2. CASE profile \in {"anthropic", "openai key"}
    <3> DEFINE p == Plain("env")
    <3>1. PICK name \in {"anthropic", "openai"} : Rendered(profile, "set") = Single(name, p)
      BY <2>2 DEF Rendered
    <3>2. ProviderComplete(name, p) /\ ProviderValid(name, p)
      BY <3>1 DEF Plain, ProviderComplete, ProviderValid, AuthType
    <3> HIDE DEF p
    <3>3. Validate(Single(name, p)) /\ ~NeedsPrompt(Single(name, p))
      BY <3>2, OneProvider
    <3> QED
      BY <3>1, <3>3
  <2>3. CASE profile \in {"openai oauth", "custom oauth"}
    <3> DEFINE p == OAuth("", "env", "env", "", "")
    <3>1. PICK name \in {"custom", "openai"} : Rendered(profile, "set") = Single(name, p)
      BY <2>3 DEF Rendered
    <3>2. ProviderComplete(name, p) /\ ProviderValid(name, p)
      BY <3>1 DEF OAuth, ProviderComplete, ProviderValid, AuthType, Mode, OAuthComplete, OAuthValid
    <3> HIDE DEF p
    <3>3. Validate(Single(name, p)) /\ ~NeedsPrompt(Single(name, p))
      BY <3>2, OneProvider
    <3> QED
      BY <3>1, <3>3
  <2> QED
    BY <2>1, <2>2, <2>3 DEF Profiles
<1>2. NeedsPrompt(Rendered("codex", "")) /\ Repairable(Rendered("codex", ""))
  <2> DEFINE p == OAuth("authorization_code", "set", "", "", "set")
  <2>1. Rendered("codex", "") = Single("openai", p)
    BY DEF Rendered, buildOpenAICodexOAuthLLMConfigMap
  <2>2. ~ProviderComplete("openai", p)
    BY DEF OAuth, ProviderComplete, AuthType, Mode, OAuthComplete
  <2>3. Single("openai", p).default = "openai"
    BY DEF Single, Section
  <2> HIDE DEF p
  <2>4. NeedsPrompt(Single("openai", p)) /\ Repairable(Single("openai", p))
    BY <2>2, <2>3, OneProvider DEF Repairable
  <2> QED
    BY <2>1, <2>4
<1> QED
  BY <1>1, <1>2 DEF AcceptsItsOwn

(* Whatever a default provider holds that is written the documented way,    *)
(* serve asks for a login exactly when Load would refuse the section, and   *)
(* what onboarding writes is accepted by both, or asked for again           *)
(* (llmOnboardingPromptState, Config.Validate).                             *)
THEOREM PromptAndLoadAgree == Spec => []PromptAgreesWithLoad
<1>1. AgreesOnAll
  BY OneProvider, Agreement DEF AgreesOnAll
<1>2. PromptAgreesWithLoad
  BY <1>1, OwnSections DEF PromptAgreesWithLoad
<1> QED
  BY <1>2, PTL

=============================================================================
