----------------------------- MODULE OAuthLogin -----------------------------
(***************************************************************************)
(* internal/onboarding/oauth.go: the logins of several sessions on one       *)
(* machine.  Each waits for its browser at the same two local addresses, and *)
(* lets its user paste what the browser was sent if that fails.              *)
(***************************************************************************)
EXTENDS Naturals

CONSTANTS
  Session,
  Address,   \* the local addresses of the callback, those the machine has
  Nobody

VARIABLES
  phase,     \* off, bind, wait, paste, exchange, or the result: full, short, failed
  ports,     \* which session's server listens at an address
  callback,  \* codeCh: the callback server of a session got its code
  code,      \* the code to exchange is one of this flow
  tries,     \* what the user has been asked to paste
  browser    \* closed, open at the flow's URL, or what is in its address bar

login == <<phase, ports, callback, code, tries, browser>>

LoginTypeOK ==
  /\ phase \in [Session -> {"off", "bind", "wait", "paste", "exchange", "full", "short", "failed"}]
  /\ ports \in [Address -> Session \cup {Nobody}]
  /\ callback \in [Session -> BOOLEAN]
  /\ code \in [Session -> BOOLEAN]
  /\ tries \in [Session -> 0..3]
  /\ browser \in [Session -> {"closed", "open", "code", "refused"}]
  /\ \A a \in Address : ports[a] # Nobody => phase[ports[a]] \in {"wait", "paste", "exchange"}

LoginInit ==
  /\ phase = [s \in Session |-> "off"]
  /\ ports = [a \in Address |-> Nobody]
  /\ callback = [s \in Session |-> FALSE]
  /\ code = [s \in Session |-> FALSE]
  /\ tries = [s \in Session |-> 0]
  /\ browser = [s \in Session |-> "closed"]

(* Fault: the callback server is left open.                                  *)
LeaveOpen(s, result) ==
  /\ phase' = [phase EXCEPT ![s] = result]
  /\ callback' = [callback EXCEPT ![s] = FALSE]
  /\ code' = [code EXCEPT ![s] = FALSE]
  /\ tries' = [tries EXCEPT ![s] = 0]
  /\ browser' = [browser EXCEPT ![s] = "closed"]
  /\ UNCHANGED ports

(* The login returns, and closes its server; what its browser does then does *)
(* not matter any more.                                                      *)
Leave(s, result) ==
  /\ phase' = [phase EXCEPT ![s] = result]
  /\ callback' = [callback EXCEPT ![s] = FALSE]
  /\ code' = [code EXCEPT ![s] = FALSE]
  /\ tries' = [tries EXCEPT ![s] = 0]
  /\ browser' = [browser EXCEPT ![s] = "closed"]
  /\ ports' = [a \in Address |-> IF ports[a] = s THEN Nobody ELSE ports[a]]

Goes(s, p) == phase' = [phase EXCEPT ![s] = p]

(* startOpenAICallbackServer.  Either address may be taken by another        *)
(* session, or by another program.                                           *)
Bind(s) ==
  /\ phase[s] = "bind"
  /\ \E got \in SUBSET {a \in Address : ports[a] = Nobody} :
       /\ ports' = [a \in Address |-> IF a \in got THEN s ELSE ports[a]]
       /\ Goes(s, IF got = {} THEN "paste" ELSE "wait")
  /\ browser' = [browser EXCEPT ![s] = "open"]
  /\ UNCHANGED <<callback, code, tries>>

(* The browser of s is sent back to one of the addresses of localhost, with  *)
(* a code or an error.  The server there takes a code that has its own state.*)
Redirect(s) ==
  /\ browser[s] = "open"
  /\ \E bar \in {"code", "refused"}, a \in Address :
       /\ browser' = [browser EXCEPT ![s] = bar]
       /\ callback' = [callback EXCEPT ![s] = bar = "code" /\ ports[a] = s]
  /\ UNCHANGED <<phase, ports, code, tries>>

(* The login has a code, of its own flow or not, and no use for its browser. *)
Found(s, own) ==
  /\ Goes(s, "exchange")
  /\ code' = [code EXCEPT ![s] = own]
  /\ callback' = [callback EXCEPT ![s] = FALSE]
  /\ tries' = [tries EXCEPT ![s] = 0]
  /\ browser' = [browser EXCEPT ![s] = "closed"]
  /\ UNCHANGED ports

(* A code comes; or an error, which may be another session's, or the end of  *)
(* the two minutes.                                                          *)
WaitForCode(s) ==
  /\ phase[s] = "wait"
  /\ \/ callback[s] /\ Found(s, TRUE)
     \/ /\ Goes(s, "paste")
        /\ callback' = [callback EXCEPT ![s] = FALSE]
        /\ UNCHANGED <<ports, code, tries, browser>>

AskAgain(s, n) ==
  /\ tries' = [tries EXCEPT ![s] = n]
  /\ UNCHANGED <<phase, ports, callback, code, browser>>

(* Fault: the user is asked until a code is found.                           *)
PasteForever(s) ==
  /\ phase[s] = "paste"
  /\ \/ \E own \in BOOLEAN : Found(s, own)
     \/ AskAgain(s, 1 - tries[s])

(* The user pastes an address or the code in it, of this flow or another, or *)
(* something that is no code at all; or nothing, three times at most.  An    *)
(* address with the state of another flow ends the login.                    *)
Paste(s) ==
  /\ phase[s] = "paste"
  /\ \/ \E own \in BOOLEAN : (own => browser[s] = "code") /\ Found(s, own)
     \/ tries[s] < 2 /\ AskAgain(s, tries[s] + 1)
     \/ tries[s] = 2 /\ Leave(s, "failed")
     \/ (\E t \in Session \ {s} : browser[t] \in {"code", "refused"}) /\ Leave(s, "failed")

(* The server gives tokens for a code of this flow only, with a refresh      *)
(* token ("full") or without; or it fails, or does not answer in time.       *)
exchangeOpenAICodexAuthorizationCode(s) ==
  /\ phase[s] = "exchange"
  /\ \E result \in {"full", "short", "failed"} :
       /\ result # "failed" => code[s]
       /\ Leave(s, result)

LoginStep(s) == Bind(s) \/ WaitForCode(s) \/ Paste(s) \/ exchangeOpenAICodexAuthorizationCode(s)

=============================================================================
