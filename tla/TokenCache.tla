---------------------------- MODULE TokenCache ----------------------------
(***************************************************************************)
(* The clients that share one access token between concurrent requests:    *)
(*   "azure"   internal/connectors/azure                                    *)
(*   "graph"   internal/connectors/microsoft365                             *)
(*   "custom"  internal/agent/llm/openai_oauth_provider.go, with client     *)
(*             credentials                                                  *)
(*   "codex"   internal/agent/llm/openai_codex_provider.go, with a refresh  *)
(*             token that the server may rotate at each use                 *)
(* The cached token is fetched under a mutex.  The two connectors retry,    *)
(* and throw the token away after a 401; the two providers do neither.      *)
(* "graph" reads the cached token without the mutex when it sends.          *)
(***************************************************************************)
EXTENDS CodexStream, Naturals, FiniteSets

CONSTANTS
  Kinds,     \* the clients to explore
  Call,      \* calls of an operation of the client
  Attempts,  \* requests a connector makes before it gives up (5 in the code)
  Skew,      \* 30 seconds, in ticks
  Patience,  \* the HTTP client's timeout (30 seconds), in ticks
  Lives,     \* ticks a new token may live
  Fallback,  \* ticks a provider takes an unstated lifetime for (300 seconds)
  Saved,     \* bound: the tokens the file of a provider may hold: when they
             \* expire, how late their answer came and whether they are dated
  Explored,  \* bound: of each kind, the operations that are called
  Bound,     \* bounds, for each kind: the clock, the tokens given out and the
             \* contexts that end early
  None,      \* no token: the empty string; no call
  Junk,      \* what a torn read makes of two tokens
  Crash      \* what it makes of the process when it reads no address

ASSUME TokenAssumption ==
  /\ Kinds \subseteq {"azure", "graph", "custom", "codex"}
  /\ Attempts \in Nat \ {0}
  /\ Skew \in Nat \ {0}
  /\ Patience \in Nat
  /\ Saved \subseteq [left : Nat, late : 0..Patience, dated : BOOLEAN]
  /\ \A life \in Lives : life \in Nat /\ life > Skew
  /\ Fallback \in Nat
  /\ Bound \in [{"azure", "graph", "custom", "codex"} -> [time : Nat, tokens : Nat \ {0}, gone : Nat]]
  /\ None \notin Nat \cup Call
  /\ Junk \notin Nat \cup {None}
  /\ Crash \notin Nat \cup {None, Junk}

VARIABLES
  kind,     \* the client, chosen once
  now,      \* ticks since the start
  exp,      \* when each token given out really expires
  late,     \* how long each token was on its way from the identity server
  revoked,  \* tokens the server no longer accepts although they live
  cache,    \* the client's token and when it takes it to expire
  mu,       \* the call that holds the client's mutex
  rt,       \* the refresh token: the one the server honours and the client's
  file,     \* the token the configuration file holds
  pc,
  loc,      \* the locals of each call
  gone,     \* the calls whose context has ended
  up,       \* whether the process runs: a torn string may kill it
  hist      \* history: refusals, expected expiries, losses, restarts

auth == <<exp, late, revoked, rt, file>>
vars == <<kind, now, exp, late, revoked, cache, mu, rt, file, pc, loc, gone, up, hist>>

-----------------------------------------------------------------------------
(* What an operation asks for: whether it checks its arguments first, its   *)
(* requests in order, and whether a body that does not parse is taken for   *)
(* an empty list.  "sdk" is a listing by the library, with its own tokens.  *)

Asks(checked, requests, lenient) ==
  [checked |-> checked, requests |-> requests, lenient |-> lenient]

AzureHealth        == Asks(FALSE, <<"token", "sdk">>, FALSE)
AzureRead          == Asks(TRUE,  <<"get">>, FALSE)
AzureSearch        == Asks(FALSE, <<"get">>, TRUE)
AzureSubscriptions == Asks(FALSE, <<"get">>, TRUE)
AzureGroups        == Asks(FALSE, <<"sdk">>, FALSE)
AzureAlerts        == Asks(FALSE, <<"get">>, TRUE)
AzureMetrics       == Asks(TRUE,  <<"get">>, FALSE)

GraphHealth    == Asks(FALSE, <<"get">>, FALSE)
GraphSearch    == Asks(FALSE, <<"post">>, FALSE)
GraphSites     == Asks(FALSE, <<"get">>, FALSE)
GraphFiles     == Asks(TRUE,  <<"get">>, FALSE)
GraphChannels  == Asks(TRUE,  <<"get">>, FALSE)
GraphMessages  == Asks(TRUE,  <<"get">>, FALSE)
GraphDriveItem == Asks(TRUE,  <<"get", "get">>, FALSE)
GraphMessage   == Asks(TRUE,  <<"get">>, FALSE)

Complete == Asks(FALSE, <<"post">>, FALSE)

OpsOf(k) ==
  CASE k = "azure" -> {AzureHealth, AzureRead, AzureSearch, AzureSubscriptions,
                       AzureGroups, AzureAlerts, AzureMetrics}
    [] k = "graph" -> {GraphHealth, GraphSearch, GraphSites, GraphFiles, GraphChannels,
                       GraphMessages, GraphDriveItem, GraphMessage}
    [] OTHER -> {Complete}

-----------------------------------------------------------------------------

Nothing == [token |-> None, until |-> 0]

(* What a client that starts with what the file holds expects.              *)
Expected == IF file.token = None THEN <<>> ELSE <<file.until>>

(* The operation; its request the call is at, how often it was sent, and    *)
(* whether the reader of its body is spent; the token at hand and when it   *)
(* was taken or asked for; the token last refused (history).                *)
Locals == [op |-> Complete, step |-> 1, attempt |-> 0, body |-> "whole",
           token |-> None, at |-> 0, refused |-> None]

(* The two providers start with what the file holds: no token, or one with  *)
(* its expiry, or one without, which the client takes for long expired.     *)
(* Nothing but a login writes the file, and its refresh token is number 1.  *)
Init ==
  /\ kind \in Kinds
  /\ now = 0
  /\ \/ exp = <<>> /\ late = <<>> /\ file = Nothing
     \/ /\ kind \in {"custom", "codex"}
        /\ \E s \in Saved :
             /\ exp = <<s.left>> /\ late = <<s.late>>
             /\ file = [token |-> 1, until |-> IF s.dated THEN s.left + s.late ELSE 0]
  /\ revoked = {}
  /\ cache = file
  /\ rt = [server |-> 1, client |-> 1]
  /\ mu = None
  /\ pc = [c \in Call |-> "idle"]
  /\ loc = [c \in Call |-> Locals]
  /\ gone = {}
  /\ up = TRUE
  /\ hist = [refused |-> 0, expiries |-> Expected, unstated |-> {},
             denied |-> FALSE, lost |-> FALSE, restarted |-> FALSE]

Ended == {"done", "void", "failed", "killed"}
Active(c) == up /\ pc[c] \notin {"idle"} \cup Ended
At(c, p) == up /\ pc[c] = p
Goto(c, p) == pc' = [pc EXCEPT ![c] = p]
Request(c) == loc[c].op.requests[loc[c].step]

Return(c, how) ==
  /\ Goto(c, how)
  /\ loc' = [loc EXCEPT ![c] = Locals]

(* What the server makes of a token that reaches it now.                    *)
Good(token) == token \in 1..Len(exp) /\ token \notin revoked /\ now < exp[token]

Connector == kind \in {"azure", "graph"}

(* To request s of operation o, if it has as many.                          *)
Enter(c, o, s) ==
  IF s > Len(o.requests) THEN Return(c, "done")
  ELSE /\ Goto(c, IF o.requests[s] = "sdk" THEN "sdk" ELSE "token")
       /\ loc' = [loc EXCEPT ![c] = [Locals EXCEPT !.op = o, !.step = s]]

EnterNext(c) == Enter(c, loc[c].op, loc[c].step + 1)

Begin(c) ==
  /\ At(c, "idle")
  /\ \E o \in OpsOf(kind) \cap Explored[kind] :
       \/ Enter(c, o, 1)
       \/ o.checked /\ Return(c, "failed")
  /\ UNCHANGED <<kind, now, auth, cache, mu, gone, up, hist>>

Sdk(c) ==
  /\ At(c, "sdk")
  /\ \/ c \notin gone /\ EnterNext(c)
     \/ Return(c, "failed")
  /\ UNCHANGED <<kind, now, auth, cache, mu, gone, up, hist>>

-----------------------------------------------------------------------------
(* getAccessToken, ensureToken and oauthTokenSource.Token.  A call is at    *)
(* "token" before its first attempt and at "retoken" after a 401.           *)

(* Fault: the token is served up to its expiry.                             *)
FreshToTheEnd == cache.token # None /\ now < cache.until

Fresh == cache.token # None /\ now + Skew < cache.until

(* "graph" leaves the token where it is and reads it when it sends, so that *)
(* nothing is kept of when it was got.                                      *)
HasToken(c, token) ==
  IF pc[c] \in {"token", "fetch"} /\ Request(c) = "token" THEN EnterNext(c)
  ELSE /\ Goto(c, IF pc[c] \in {"token", "fetch"} THEN "send" ELSE "backoff")
       /\ loc' = IF kind = "graph" THEN [loc EXCEPT ![c].at = 0]
                 ELSE [loc EXCEPT ![c].token = token, ![c].at = now]

Serve(c) ==
  /\ pc[c] \in {"token", "retoken"} /\ up
  /\ mu = None
  /\ Fresh
  /\ HasToken(c, cache.token)
  /\ UNCHANGED <<kind, now, auth, cache, mu, gone, up, hist>>

(* To the identity server, which is asked now.                              *)
Ask(c) ==
  /\ pc[c] \in {"token", "retoken"} /\ up
  /\ ~Fresh
  /\ Goto(c, IF pc[c] = "token" THEN "fetch" ELSE "refetch")
  /\ loc' = [loc EXCEPT ![c].at = now]

(* Fault: the mutex is let go while the token is fetched.                   *)
AcquireUnlocked(c) ==
  /\ Ask(c)
  /\ UNCHANGED <<kind, now, auth, cache, mu, gone, up, hist>>

(* Fault: the old token is dropped before the new one is asked for.         *)
AcquireClearing(c) ==
  /\ mu = None /\ Ask(c)
  /\ mu' = c
  /\ cache' = Nothing
  /\ UNCHANGED <<kind, now, auth, gone, up, hist>>

Acquire(c) ==
  /\ mu = None /\ Ask(c)
  /\ mu' = c
  /\ UNCHANGED <<kind, now, auth, cache, gone, up, hist>>

Fetching(c) == pc[c] \in {"fetch", "refetch"} /\ up

(* Fault: the expiry is not kept with the token.                            *)
KeepTokenOnly(c, token, until) ==
  /\ cache' = [cache EXCEPT !.token = token]
  /\ mu' = None
  /\ HasToken(c, token)

Keep(c, token, until) ==
  /\ cache' = [token |-> token, until |-> until]
  /\ mu' = None
  /\ HasToken(c, token)

(* Fault: the rotated refresh token is not kept.                            *)
RotateForgetting(n) == [rt EXCEPT !.server = n]

(* The rotated refresh token is kept in memory.                             *)
Rotate(n) == [server |-> n, client |-> n]

Refreshed ==
  IF kind # "codex" THEN rt' = rt
  ELSE /\ rt.client = rt.server
       /\ rt' \in {rt, Rotate(rt.server + 1)}

(* A lifetime the answer does not state is none for "graph" and a default   *)
(* for the providers; the azure library always states it.                   *)
Unstated == IF kind = "graph" THEN now ELSE now + Fallback

(* The token lives from when the server issued it; the client counts from   *)
(* when it reads the answer, which its HTTP client waits for no longer than *)
(* its timeout.  The azure library sets no such limit.                      *)
Fetched(c) ==
  /\ Fetching(c)
  /\ Len(exp) < Bound[kind].tokens
  /\ kind = "azure" \/ now - loc[c].at <= Patience
  /\ Refreshed
  /\ \E issued \in loc[c].at..now, life \in Lives, stated \in {TRUE, kind = "azure"} :
       LET until == IF stated THEN now + life ELSE Unstated IN
       /\ exp' = Append(exp, issued + life)
       /\ late' = Append(late, now - issued)
       /\ Keep(c, Len(exp) + 1, until)
       /\ hist' = [hist EXCEPT !.expiries = Append(@, until),
                               !.unstated = IF stated \/ kind = "graph" THEN @
                                                  ELSE @ \cup {Len(exp) + 1}]
  /\ UNCHANGED <<kind, now, revoked, file, gone, up>>

(* The azure credential has a cache of its own, which a 401 does not clear, *)
(* and takes its tokens to expire when it told the client they would.       *)
FetchedAgain(c) ==
  /\ Fetching(c) /\ kind = "azure" /\ exp # <<>>
  /\ LET until == exp[Len(exp)] + late[Len(exp)] IN
       /\ now + Skew < until
       /\ Keep(c, Len(exp), until)
       /\ hist' = [hist EXCEPT !.expiries = Append(@, until)]
  /\ UNCHANGED <<kind, now, auth, gone, up>>

(* Fault: the mutex is not let go when the fetch fails.                     *)
FetchFailsLocked(c) ==
  /\ Fetching(c)
  /\ Return(c, "failed")
  /\ UNCHANGED <<kind, now, auth, cache, mu, gone, up, hist>>

FetchFails(c) ==
  /\ Fetching(c)
  /\ mu' = None
  /\ Return(c, "failed")
  /\ \/ UNCHANGED <<rt, hist>>
     \/ /\ kind = "codex" /\ rt.client = rt.server /\ rt.server < Bound[kind].tokens
        /\ rt' = [rt EXCEPT !.server = @ + 1]
        /\ hist' = [hist EXCEPT !.lost = TRUE]
     \/ /\ kind = "codex" /\ rt.client # rt.server
        /\ hist' = [hist EXCEPT !.denied = TRUE]
        /\ UNCHANGED rt
  /\ UNCHANGED <<kind, now, exp, late, revoked, cache, file, gone, up>>

-----------------------------------------------------------------------------
(* The requests: requestWithBackoff, graphRequest, RoundTrip and Complete.  *)

(* The token as "graph" reads it, its address a and its length b while      *)
(* another call may write it: an address without a length is the empty      *)
(* string, a length without an address the end of the process.              *)
Torn(a, b) ==
  IF a = b THEN {a} ELSE IF None \in {a, b} THEN {None, Crash} ELSE {a, b, Junk}

Peek(c) ==
  /\ At(c, "send") /\ kind = "graph"
  /\ loc' = [loc EXCEPT ![c].token = cache.token]
  /\ Goto(c, "peeked")
  /\ UNCHANGED <<kind, now, auth, cache, mu, gone, up, hist>>

(* A request reads the reader of its body to the end; the next one of the   *)
(* same call is made with what is left of it.                               *)
Drain(request, body) ==
  IF request # "post" THEN body ELSE IF body = "whole" THEN "sent" ELSE "spent"

Send(c) ==
  /\ IF kind = "graph" THEN At(c, "peeked") ELSE At(c, "send")
  /\ \E token \in IF kind = "graph" THEN Torn(loc[c].token, cache.token) ELSE {loc[c].token} :
       \/ /\ token # Crash
          /\ Goto(c, "sent")
          /\ loc' = [loc EXCEPT ![c].token = token, ![c].attempt = @ + 1,
                                ![c].body = Drain(Request(c), @)]
          /\ UNCHANGED up
       \/ /\ token = Crash
          /\ up' = FALSE
          /\ Return(c, "killed")
  /\ UNCHANGED <<kind, now, auth, cache, mu, gone, hist>>

(* On to the backoff of a connector; a provider returns the error.  "graph" *)
(* keeps no token of its own.                                               *)
Again(c, p, refused, body) ==
  IF ~Connector THEN Return(c, "failed")
  ELSE /\ Goto(c, p)
       /\ loc' = [loc EXCEPT ![c].token = IF kind = "graph" THEN None ELSE @,
                             ![c].refused = refused, ![c].body = body]

Answered(c) == At(c, "sent") /\ c \notin gone

(* An answer of 200.  The service of codex answers with a stream, which may *)
(* report a fault; a body that is empty where a query was due is refused.   *)
Accept(c) ==
  /\ Answered(c) /\ Good(loc[c].token)
  /\ loc[c].body # "spent"
  /\ \/ EnterNext(c)
     \/ kind = "codex" /\ SomeStreamFails /\ Return(c, "failed")
  /\ UNCHANGED <<kind, now, auth, cache, mu, gone, up, hist>>

(* A 200 whose body cannot be decoded, or any other final status.           *)
Reject(c) ==
  /\ At(c, "sent")
  /\ \/ Return(c, "failed")
     \/ loc[c].op.lenient /\ Answered(c) /\ Good(loc[c].token) /\ Return(c, "void")
  /\ UNCHANGED <<kind, now, auth, cache, mu, gone, up, hist>>

(* 429, a status of 500 and more, or no answer: a connector tries again.    *)
(* A request that never left has not read its body.                         *)
Trouble(c) ==
  /\ At(c, "sent")
  /\ \E body \in {loc[c].body} \cup IF loc[c].body = "sent" THEN {"whole"} ELSE {} :
       Again(c, "backoff", loc[c].refused, body)
  /\ UNCHANGED <<kind, now, auth, cache, mu, gone, up, hist>>

Unauthorized(c) ==
  /\ Answered(c) /\ ~Good(loc[c].token)
  /\ Again(c, "refused", loc[c].token, loc[c].body)
  /\ hist' = [hist EXCEPT !.refused = @ + 1]
  /\ UNCHANGED <<kind, now, auth, cache, mu, gone, up>>

(* Fault: the token is not thrown away.                                     *)
InvalidateNot(c) ==
  /\ At(c, "refused")
  /\ mu = None
  /\ Goto(c, "retoken")
  /\ UNCHANGED <<kind, now, auth, cache, mu, loc, gone, up, hist>>

(* invalidateToken: whatever token is cached by now goes.                   *)
Invalidate(c) ==
  /\ At(c, "refused")
  /\ mu = None
  /\ cache' = Nothing
  /\ Goto(c, "retoken")
  /\ UNCHANGED <<kind, now, auth, mu, loc, gone, up, hist>>

Backoff(c) ==
  /\ At(c, "backoff")
  /\ \/ c \in gone /\ Return(c, "failed")
     \/ loc[c].attempt < Attempts /\ Goto(c, "send") /\ UNCHANGED loc
     \/ loc[c].attempt = Attempts /\ Return(c, "failed")
  /\ UNCHANGED <<kind, now, auth, cache, mu, gone, up, hist>>

-----------------------------------------------------------------------------
(* The world.                                                               *)

Expire(c) ==
  /\ Active(c) /\ c \notin gone
  /\ Cardinality(gone) < Bound[kind].gone
  /\ gone' = gone \cup {c}
  /\ UNCHANGED <<kind, now, auth, cache, mu, pc, loc, up, hist>>

(* Bound: one token is revoked.                                             *)
Revoke ==
  /\ revoked = {}
  /\ \E token \in 1..Len(exp) : now < exp[token] /\ revoked' = {token}
  /\ UNCHANGED <<kind, now, exp, late, cache, mu, rt, file, pc, loc, gone, up, hist>>

Tick ==
  /\ now < Bound[kind].time
  /\ now' = now + 1
  /\ UNCHANGED <<kind, auth, cache, mu, pc, loc, gone, up, hist>>

(* The process ends and is started again with what the file holds.  Bound:  *)
(* once, and not for the connectors, which have nothing in the file and     *)
(* start as in Init.                                                        *)
Restart ==
  /\ kind \in {"custom", "codex"} /\ ~hist.restarted
  /\ mu' = None
  /\ pc' = [c \in Call |-> IF pc[c] \in {"idle"} \cup Ended THEN pc[c] ELSE "killed"]
  /\ loc' = [c \in Call |-> Locals]
  /\ cache' = file
  /\ rt' = [rt EXCEPT !.client = 1]
  /\ hist' = [hist EXCEPT !.refused = 0, !.restarted = TRUE, !.expiries = Expected]
  /\ UNCHANGED <<kind, now, exp, late, revoked, file, gone, up>>

Own(c) ==
  \/ Begin(c) \/ Sdk(c) \/ Serve(c) \/ Acquire(c)
  \/ Fetched(c) \/ FetchedAgain(c) \/ FetchFails(c)
  \/ Peek(c) \/ Send(c) \/ Invalidate(c) \/ Backoff(c)

Answer(c) == Accept(c) \/ Reject(c) \/ Trouble(c) \/ Unauthorized(c)

Next ==
  \/ \E c \in Call : Own(c) \/ Answer(c) \/ Expire(c)
  \/ Revoke \/ Tick \/ Restart

Spec == Init /\ [][Next]_vars

(* A call does its own steps; the identity server and the services answer   *)
(* or the HTTP client gives up after its timeout.  Codex is asked by a      *)
(* client without one: its answer is only due once the context has ended.   *)
FairSpec ==
  /\ Spec
  /\ \A c \in Call : /\ WF_vars(Own(c) /\ pc[c] # "idle")
                     /\ WF_vars(Answer(c) /\ (kind = "codex" => c \in gone))

-----------------------------------------------------------------------------
(* Properties.                                                              *)

Token == {None, Junk} \cup 1..Bound[kind].tokens

(* Every variable keeps its type; the mutex is held by the one call that    *)
(* fetches a token.                                                         *)
TypeOK ==
  /\ kind \in Kinds
  /\ now \in 0..Bound[kind].time
  /\ Len(exp) <= Bound[kind].tokens /\ Len(late) = Len(exp) /\ revoked \subseteq 1..Len(exp)
  /\ cache.token \in {None} \cup 1..Len(exp) /\ cache.until \in Nat
  /\ {rt.server, rt.client} \subseteq 1..Bound[kind].tokens + 1
  /\ \A c \in Call : /\ loc[c].token \in Token
                     /\ loc[c].attempt \in 0..Attempts
                     /\ pc[c] \in {"fetch", "refetch"} <=> mu = c
  /\ mu \in Call \cup {None}

(* However calls interleave, the identity server is asked for a token only  *)
(* when there was none, when the last one had become stale or when a        *)
(* service had refused one: callers that find a stale token at the same     *)
(* time fetch one between them (getAccessToken, ensureToken, Token).        *)
FetchesExplained ==
  LET stale == {i \in DOMAIN hist.expiries : now + Skew >= hist.expiries[i]}
  IN  Len(hist.expiries) <= 1 + Cardinality(stale) + hist.refused

(* The unlocked read of graphRequest yields an empty token, or kills the    *)
(* process, only where a service has refused a token before: a token that   *)
(* merely expires is replaced by the next one and never by nothing.         *)
EmptyTokenHasCause ==
  /\ \A c \in Call : At(c, "sent") /\ loc[c].token = None => hist.refused > 0
  /\ ~up => hist.refused > 0

(* A call of the Microsoft 365 connector never sends again a token that was *)
(* refused to it, whatever other calls do to the shared token meanwhile.    *)
RefusedTokenDropped ==
  [][\A c \in Call : kind = "graph" /\ ~At(c, "sent") /\ At(c, "sent")'
       => loc'[c].token \notin {loc[c].refused} \ {None, Junk}]_vars

(* A token that is on its way after it expired, and that the server dated,  *)
(* has been under way for longer than the skew: from the identity server to *)
(* the client, and from the cache to the service.  A provider whose HTTP    *)
(* client gives up within the skew never takes an expired one from its      *)
(* cache (Token, getAccessToken, and the timeouts of their clients).        *)
ExpiryNeedsDelay ==
  \A c \in Call :
    /\ kind # "graph" /\ At(c, "sent")
    /\ now >= exp[loc[c].token] /\ loc[c].token \notin hist.unstated
    => /\ late[loc[c].token] + (now - loc[c].at) > Skew
       /\ kind # "azure" /\ Patience <= Skew => loc[c].at < exp[loc[c].token]

(* The refresh token is refused only after an answer that rotated it was    *)
(* lost, or after a restart went back to the one in the file: concurrent    *)
(* completions never spend one token twice (refreshWithRefreshToken).       *)
RefreshRefusalExplained == hist.denied => hist.lost \/ hist.restarted

(* Whatever stream answers a completion of codex, it is read faithfully.    *)
StreamsRead == (\E c \in Call : kind = "codex" /\ At(c, "sent")) => ReadFaithfully

(* Every call ends: refusals, failures and renewals cannot keep it going.   *)
(* One to codex, whose HTTP client has no timeout, ends with its context.   *)
CallEnds ==
  \A c \in Call : Active(c) /\ (kind = "codex" => c \in gone) ~> pc[c] \in Ended \/ ~up

=============================================================================
