----------------------------- MODULE LLMRouter -----------------------------
(***************************************************************************)
(* internal/agent/llm/router.go with rate_limiter.go: concurrent calls of   *)
(* Router.Complete, each of which walks its chain of routes, waits for its  *)
(* turn at the two token buckets of a limited provider, and falls back to   *)
(* the next route after a failure that is not final.  A call's context may  *)
(* end at any step.                                                         *)
(***************************************************************************)
EXTENDS TokenBucket, Sequences, FiniteSets, SequencesExt, Functions

CONSTANTS
  Task,        \* calls of Router.Complete
  TaskType,    \* of each call, its req.TaskType after "" became "default"
  Sizes,       \* of the calls, what estimateTokens may make of their requests
  Provider,    \* the providers routes may name
  Model,       \* the models they may name
  Registered,  \* the providers that were built
  Limited,     \* those with an entry in rate_limits
  Gap,         \* ticks between two requests: a minute over requests_per_minute
  Routings,    \* what viaduct.yaml may give as llm.routing
  Default,     \* default_provider
  MaxTime      \* bound: the clock

(* resolveChain.  A route is a provider and a model; its model is "bare" if *)
(* it was written without a slash.  NoRoute is the empty string.            *)

NoRoute == [provider |-> "", model |-> ""]

Route == [provider : Provider \cup {""}, model : Model]

TaskTypes == {TaskType[t] : t \in Task} \cup {"default"}

ASSUME RouterAssumption ==
  /\ Burst \in Nat \ {0}
  /\ Gap \in 1..Burst
  /\ Sizes \subseteq [Task -> Nat \ {0}]
  /\ Registered \subseteq Provider
  /\ Limited \subseteq Provider
  /\ Default \in Registered
  /\ {"", "bare"} \subseteq Model
  /\ \A r \in Routings : /\ \A type \in TaskTypes : {r.tasks[type], r.byTask[type]} \subseteq Route
                        /\ r.chain \in Seq(Route)
  /\ MaxTime \in Nat

VARIABLES
  routing,  \* llm.routing
  size,     \* of each call, the tokens it is estimated to need
  now,      \* ticks since the start
  reqs,     \* of each limiter, its bucket of requests
  toks,     \* of each limiter, its bucket of tokens
  pc,
  chain,    \* of each call, the routes it tries
  hop,      \* the place in the chain of the route a call is at
  act,      \* when a waiting call may go on
  expired,  \* the calls whose context has ended
  trace,    \* of each call, how it fared with the routes it is done with
  passed,   \* history: who got past a request bucket, at which hop and when
  sent      \* history: who was let through to a limited provider, and when

buckets == <<reqs, toks>>
history == <<passed, sent>>
vars == <<routing, size, now, reqs, toks, pc, chain, hop, act, expired, trace, passed, sent>>

-----------------------------------------------------------------------------
Written(route) == IF route = NoRoute THEN <<>> ELSE <<route>>

(* Override for the task type, route for the task type, default, chain.     *)
Order(r, type) ==
  LET order == Written(r.tasks[type]) \o Written(r.byTask[type])
                 \o Written(r.byTask["default"]) \o r.chain
  IN  IF order = <<>> THEN <<[provider |-> Default, model |-> "bare"]>> ELSE order

Slashed(route) ==
  IF route.model = "bare" THEN [provider |-> route.provider, model |-> ""] ELSE route

Add(out, route) ==
  IF route = NoRoute \/ Slashed(route) \in ToSet(out) THEN out
                                                      ELSE Append(out, Slashed(route))

AddAll(order) ==
  LET out[n \in 0..Len(order)] == IF n = 0 THEN <<>> ELSE Add(out[n - 1], order[n])
  IN  out[Len(order)]

resolveChain(r, type) == AddAll(Order(r, type))

(* Complete, when nothing is left of the chain.                             *)
OrDefault(routes) == IF routes = <<>> THEN <<[provider |-> Default, model |-> ""]>> ELSE routes

-----------------------------------------------------------------------------

Init ==
  /\ routing \in Routings
  /\ size \in Sizes
  /\ now = 0
  /\ reqs = [p \in Limited |-> Full]
  /\ toks = [p \in Limited |-> Full]
  /\ pc = [t \in Task |-> "idle"]
  /\ chain = [t \in Task |-> <<>>]
  /\ hop = [t \in Task |-> 1]
  /\ act = [t \in Task |-> 0]
  /\ expired = {}
  /\ trace = [t \in Task |-> <<>>]
  /\ passed = {}
  /\ sent = {}

At(t, step) == pc[t] = step
Step(t, step) == pc' = [pc EXCEPT ![t] = step]
Here(t) == chain[t][hop[t]]
Prov(t) == Here(t).provider

Note(t, outcome) ==
  trace' = [trace EXCEPT ![t] = Append(@, [route |-> Here(t), outcome |-> outcome])]

(* On to the next route.                                                    *)
MoveOn(t, outcome) ==
  /\ Note(t, outcome)
  /\ hop' = [hop EXCEPT ![t] = @ + 1]
  /\ Step(t, "route")

Begin(t) ==
  /\ At(t, "idle")
  /\ Step(t, "route")
  /\ chain' = [chain EXCEPT ![t] = OrDefault(resolveChain(routing, TaskType[t]))]
  /\ UNCHANGED <<routing, size, now, buckets, hop, act, expired, trace, history>>

Expire(t) ==
  /\ pc[t] \notin {"idle", "answered", "failed"}
  /\ t \notin expired
  /\ expired' = expired \cup {t}
  /\ UNCHANGED <<routing, size, now, chain, buckets, pc, hop, act, trace, history>>

(* The head of the loop: a route, and whether its provider was built.       *)
OnRoute(t) == At(t, "route") /\ hop[t] <= Len(chain[t])

Exhausted(t) ==
  /\ At(t, "route") /\ hop[t] > Len(chain[t])
  /\ Step(t, "failed")
  /\ UNCHANGED <<routing, size, now, chain, buckets, hop, act, expired, trace, history>>

(* Fault: a provider that is missing ends the loop.                         *)
MissingStops(t) ==
  /\ OnRoute(t) /\ Prov(t) \notin Registered
  /\ Note(t, "missing")
  /\ Step(t, "failed")
  /\ UNCHANGED <<routing, size, now, chain, buckets, hop, act, expired, history>>

Missing(t) ==
  /\ OnRoute(t) /\ Prov(t) \notin Registered
  /\ MoveOn(t, "missing")
  /\ UNCHANGED <<routing, size, now, chain, buckets, act, expired, history>>

Pass(t) ==
  /\ Step(t, "tokens")
  /\ passed' = passed \cup {[task |-> t, hop |-> hop[t], provider |-> Prov(t), at |-> now]}

(* requests.Wait: refused when the context has ended, or would before its   *)
(* turn; otherwise a reservation, and a wait if it is for later.            *)
RequestTurn(t) ==
  /\ OnRoute(t) /\ Prov(t) \in Registered \cap Limited
  /\ LET p == Prov(t)
         wait == Delay(reqs[p].level - Gap) > 0
     IN  \/ /\ t \in expired \/ wait
            /\ MoveOn(t, "limited")
            /\ UNCHANGED <<reqs, act, passed>>
         \/ /\ t \notin expired
            /\ reqs' = [reqs EXCEPT ![p] = Reserve(@, Gap, now)]
            /\ act' = [act EXCEPT ![t] = ActAt(reqs[p], Gap, now)]
            /\ IF wait THEN Step(t, "queued") /\ UNCHANGED passed ELSE Pass(t)
            /\ UNCHANGED <<hop, trace>>
  /\ UNCHANGED <<routing, size, now, chain, toks, expired, sent>>

(* Fault: the end of the context ends the wait, not the request.            *)
QueuedCancelsAndPasses(t) ==
  /\ At(t, "queued")
  /\ act[t] <= now \/ t \in expired
  /\ reqs' = [reqs EXCEPT ![Prov(t)] =
                IF t \in expired THEN Cancel(@, Gap, act[t], now) ELSE @]
  /\ Pass(t)
  /\ UNCHANGED <<routing, size, now, chain, toks, act, expired, sent, hop, trace>>

Queued(t) ==
  /\ At(t, "queued")
  /\ \/ /\ act[t] <= now
        /\ Pass(t)
        /\ UNCHANGED <<reqs, hop, trace>>
     \/ /\ t \in expired
        /\ reqs' = [reqs EXCEPT ![Prov(t)] = Cancel(@, Gap, act[t], now)]
        /\ MoveOn(t, "limited")
        /\ UNCHANGED passed
  /\ UNCHANGED <<routing, size, now, chain, toks, act, expired, sent>>

Send(t) ==
  /\ Step(t, "call")
  /\ sent' = sent \cup {[task |-> t, hop |-> hop[t], provider |-> Prov(t), at |-> now]}

(* tokens.ReserveN: more than the bucket holds is never granted.            *)
Denied(t) ==
  /\ At(t, "tokens") /\ size[t] > Burst
  /\ MoveOn(t, "limited")
  /\ UNCHANGED <<routing, size, now, chain, buckets, act, expired, history>>

TokenTurn(t) ==
  /\ At(t, "tokens") /\ size[t] <= Burst
  /\ LET p == Prov(t)
     IN  /\ toks' = [toks EXCEPT ![p] = Reserve(@, size[t], now)]
         /\ act' = [act EXCEPT ![t] = ActAt(toks[p], size[t], now)]
         /\ IF Delay(toks[p].level - size[t]) > 0
            THEN Step(t, "held") /\ UNCHANGED sent
            ELSE Send(t)
  /\ UNCHANGED <<routing, size, now, chain, reqs, hop, expired, trace, passed>>

(* Fault: the request goes out although its context has ended, and its      *)
(* tokens are given back.                                                   *)
HeldCancelsAndSends(t) ==
  /\ At(t, "held")
  /\ act[t] <= now \/ t \in expired
  /\ toks' = [toks EXCEPT ![Prov(t)] =
                IF t \in expired THEN Cancel(@, size[t], act[t], now) ELSE @]
  /\ Send(t)
  /\ UNCHANGED <<routing, size, now, chain, reqs, act, expired, hop, trace, passed>>

(* Fault: the end of the context is not waited for.                         *)
HeldToTheEnd(t) ==
  /\ At(t, "held")
  /\ act[t] <= now
  /\ Send(t)
  /\ UNCHANGED <<routing, size, now, chain, buckets, act, expired, hop, trace, passed>>

(* The select between the timer and the end of the context.                 *)
Held(t) ==
  /\ At(t, "held")
  /\ \/ /\ act[t] <= now
        /\ Send(t)
        /\ UNCHANGED <<toks, hop, trace>>
     \/ /\ t \in expired
        /\ toks' = [toks EXCEPT ![Prov(t)] = Cancel(@, size[t], act[t], now)]
        /\ MoveOn(t, "limited")
        /\ UNCHANGED sent
  /\ UNCHANGED <<routing, size, now, chain, reqs, act, expired, passed>>

(* provider.Complete answers; or fails for good, or with what isRetryable   *)
(* takes for a passing failure, the end of the context among them.          *)
Call(t) ==
  /\ At(t, "call") \/ (OnRoute(t) /\ Prov(t) \in Registered \ Limited)
  /\ \/ Note(t, "ok") /\ Step(t, "answered") /\ UNCHANGED hop
     \/ Note(t, "final") /\ Step(t, "failed") /\ UNCHANGED hop
     \/ MoveOn(t, "retryable")
  /\ UNCHANGED <<routing, size, now, chain, buckets, act, expired, history>>

(* Time passes; the timers that are due have fired.                         *)
Tick ==
  /\ now < MaxTime
  /\ \A t \in Task : pc[t] \in {"queued", "held"} => act[t] > now
  /\ now' = now + 1
  /\ reqs' = [p \in Limited |-> Refill(reqs[p])]
  /\ toks' = [p \in Limited |-> Refill(toks[p])]
  /\ UNCHANGED <<routing, size, pc, chain, hop, act, expired, trace, history>>

Complete(t) ==
  \/ Exhausted(t) \/ Missing(t) \/ RequestTurn(t) \/ Queued(t)
  \/ Denied(t) \/ TokenTurn(t) \/ Held(t) \/ Call(t)

Next == Tick \/ \E t \in Task : Begin(t) \/ Expire(t) \/ Complete(t)

Spec == Init /\ [][Next]_vars

(* A call whose context has ended waits for nothing: its timers are in a    *)
(* select with it, and providers return when it has ended.                  *)
Fairness == \A t \in Task : WF_vars(t \in expired /\ Complete(t))

FairSpec == Spec /\ Fairness

-----------------------------------------------------------------------------

Bucket == [level : Int, last : Nat]
Visit == [task : Task, hop : Nat, provider : Limited, at : Nat]

(* Every variable holds a value of its declared kind; no bucket holds more  *)
(* than a minute's worth.                                                   *)
TypeOK ==
  /\ routing \in Routings /\ size \in Sizes
  /\ now \in 0..MaxTime
  /\ \A b \in {reqs, toks} : b \in [Limited -> Bucket] /\ \A p \in Limited : b[p].level <= Burst
  /\ pc \in [Task -> {"idle", "route", "queued", "tokens", "held", "call",
                      "answered", "failed"}]
  /\ chain \in [Task -> Seq(Route)]
  /\ hop \in [Task -> Nat \ {0}]
  /\ act \in [Task -> Nat]
  /\ expired \subseteq Task
  /\ passed \subseteq Visit /\ sent \subseteq Visit

(* A call takes its routes in order, none twice; it goes on after a missing *)
(* provider, a refused limiter and a passing failure, stops at an answer or *)
(* a final error, and fails otherwise only when no route is left (39-80).   *)
FallbackInOrder ==
  \A t \in Task :
    LET done == trace[t]
        last == done[Len(done)].outcome
    IN  /\ \A i \in DOMAIN done : done[i].route = chain[t][i]
        /\ IsInjective([i \in DOMAIN done |-> done[i].route])
        /\ \A i \in 1..(Len(done) - 1) : done[i].outcome \in {"missing", "limited", "retryable"}
        /\ At(t, "answered") <=> done # <<>> /\ last = "ok"
        /\ At(t, "failed") => last = "final" \/ Len(done) = Len(chain[t])

(* The visits to a provider in a span of time; the spans that matter begin  *)
(* and end with a visit.                                                    *)
Span(visits, u, w) == {v \in visits : v.provider = u.provider /\ v.at \in u.at..w.at}

(* The calls that a provider's token bucket held, and that left.            *)
GaveUp(p) ==
  {v \in passed : /\ v.provider = p /\ v.hop < hop[v.task] /\ size[v.task] <= Burst
                  /\ ~\E s \in sent : s.task = v.task /\ s.hop = v.hop}

(* The tokens of visits, one by one.                                        *)
Tokens(visits) == {x \in visits \X (1..Burst) : x[2] <= size[x[1].task]}

(* Whoever waits and falls back: the requests let through to a provider in  *)
(* any span of time add up to no more tokens than its bucket holds plus     *)
(* what the span refills (rate_limiter.go 36-52).  That is so until two     *)
(* calls have given up: CancelAt may then give back more than was taken.    *)
TokenBudget ==
  \A u, w \in sent :
    u.provider = w.provider /\ u.at <= w.at /\ Cardinality(GaveUp(u.provider)) <= 1 =>
      Cardinality(Tokens(Span(sent, u, w))) <= Burst + (w.at - u.at)

(* The same of requests, where they pass their own bucket (33-35), and with *)
(* any number of calls that give up, as all of them weigh the same.         *)
RequestBudget ==
  \A u, w \in passed :
    u.provider = w.provider /\ u.at <= w.at =>
      Gap * Cardinality(Span(passed, u, w)) <= Burst + (w.at - u.at)

(* A call whose context has ended returns, wherever it waits.               *)
CompleteReturns ==
  \A t \in Task : t \in expired ~> pc[t] \in {"answered", "failed"}

=============================================================================
