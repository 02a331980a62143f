---------------------------- MODULE RouterProofs ----------------------------
(***************************************************************************)
(* Theorems about LLMRouter, for any calls, providers, routings, sizes and  *)
(* bounds.                                                                  *)
(***************************************************************************)
EXTENDS LLMRouter, BucketProofs, NaturalSets

-----------------------------------------------------------------------------
(* Chains.                                                                  *)

(* How the loop of resolveChain goes, n routes far.                         *)
Adds(order, out, n) ==
  out = [i \in 0..n |-> IF i = 0 THEN <<>> ELSE Add(out[i - 1], order[i])]

(* Routes, none twice.                                                      *)
Proper(routes) == routes \in Seq(Route) /\ IsInjective(routes)

(* The loop can be run on any order, one route after the other.             *)
LEMMA AddsExist ==
  ASSUME NEW order \in Seq(Route), NEW n \in 0..Len(order)
  PROVE  \E out : Adds(order, out, n)
<1> DEFINE Run == {k \in 0..n : \E out : Adds(order, out, k)}
<1>1. 0 \in Run
  <2>1. Adds(order, [i \in 0..0 |-> <<>>], 0)
    BY DEF Adds
  <2> QED
    BY <2>1
<1>2. ASSUME NEW k \in 0..n, k # n, k \in Run
      PROVE  k + 1 \in Run
  <2>1. PICK out : Adds(order, out, k)
    BY <1>2
  <2> DEFINE more == [i \in 0..(k + 1) |-> IF i = k + 1 THEN Add(out[k], order[k + 1]) ELSE out[i]]
  <2>2. ASSUME NEW i \in 0..(k + 1)
        PROVE  more[i] = IF i = 0 THEN <<>> ELSE Add(more[i - 1], order[i])
    BY <2>1 DEF Adds
  <2>3. Adds(order, more, k + 1)
    BY <2>2 DEF Adds
  <2>4. k + 1 \in 0..n
    BY <1>2
  <2> QED
    BY <2>3, <2>4
<1>3. \A k \in 0..n : k \in Run
  <2> HIDE DEF Run
  <2>1. n \in Nat
    OBVIOUS
  <2> QED
    BY <1>1, <1>2, <2>1, Upward
<1> QED
  BY <1>3

(* One turn of the loop.                                                    *)
LEMMA AddProper ==
  ASSUME NEW s, Proper(s), NEW route \in Route
  PROVE  Proper(Add(s, route))
<1>1. Slashed(route) \in Route
  <2>1. route.provider \in Provider \cup {""} /\ "" \in Model
    BY RouterAssumption DEF Route
  <2>2. [provider |-> route.provider, model |-> ""] \in Route
    BY <2>1 DEF Route
  <2> QED
    BY <2>2 DEF Slashed
<1> QED
  BY <1>1 DEF Proper, Add, ToSet, IsInjective

(* No chain repeats a route, as the empty one does not.                     *)
LEMMA AddsProper ==
  ASSUME NEW order \in Seq(Route), NEW n \in 0..Len(order), NEW out, Adds(order, out, n)
  PROVE  \A k \in 0..n : Proper(out[k])
<1> DEFINE Good == {k \in 0..n : Proper(out[k])}
<1>1. 0 \in Good
  BY DEF Adds, Proper, IsInjective
<1>2. ASSUME NEW k \in 0..n, k # n, k \in Good
      PROVE  k + 1 \in Good
  <2>1. out[k + 1] = Add(out[k], order[k + 1]) /\ order[k + 1] \in Route /\ k + 1 \in 0..n
    BY <1>2 DEF Adds
  <2> QED
    BY <1>2, <2>1, AddProper
<1>3. \A k \in 0..n : k \in Good
  <2> HIDE DEF Good
  <2>1. n \in Nat
    OBVIOUS
  <2> QED
    BY <1>1, <1>2, <2>1, Upward
<1> QED
  BY <1>3

(* resolveChain drops what is empty and what it has, and keeps the rest.    *)
LEMMA AddAllProper ==
  ASSUME NEW order \in Seq(Route)
  PROVE  Proper(AddAll(order))
<1> DEFINE n == Len(order)
<1>1. PICK g : Adds(order, g, n)
  BY AddsExist
<1> DEFINE f == CHOOSE out : Adds(order, out, n)
<1>2. Adds(order, f, n)
  BY <1>1
<1>3. AddAll(order) = f[n]
  BY DEF AddAll, Adds
<1> HIDE DEF f
<1>4. \A k \in 0..n : Proper(f[k])
  BY <1>2, AddsProper
<1> QED
  BY <1>3, <1>4

(* A route that may be empty is a chain of at most one.                     *)
LEMMA WrittenIsSeq ==
  ASSUME NEW route \in Route
  PROVE  Written(route) \in Seq(Route)
  BY DEF Written

(* A route is a chain, and so is the default provider.                      *)
LEMMA OneRoute ==
  ASSUME NEW route \in Route
  PROVE  <<route>> \in Seq(Route) /\ Proper(<<route>>)
<1>1. <<route>> \in Seq(Route) /\ DOMAIN <<route>> = {1}
  OBVIOUS
<1> QED
  BY <1>1 DEF Proper, IsInjective

(* The default provider is a route, with and without the slash.             *)
LEMMA DefaultRoutes ==
  /\ [provider |-> Default, model |-> "bare"] \in Route
  /\ [provider |-> Default, model |-> ""] \in Route
<1>1. Default \in Provider /\ "" \in Model /\ "bare" \in Model
  BY RouterAssumption
<1> QED
  BY <1>1 DEF Route

(* What resolveChain goes through is a sequence of routes.                  *)
LEMMA OrderIsSeq ==
  ASSUME NEW r \in Routings, NEW type \in TaskTypes
  PROVE  Order(r, type) \in Seq(Route)
<1>0. "default" \in TaskTypes
  BY DEF TaskTypes
<1>1. r.tasks[type] \in Route /\ r.byTask[type] \in Route /\ r.byTask["default"] \in Route
  <2>1. \A ty \in TaskTypes : {r.tasks[ty], r.byTask[ty]} \subseteq Route
    BY RouterAssumption
  <2> QED
    BY <1>0, <2>1
<1>2. r.chain \in Seq(Route)
  BY RouterAssumption
<1>3. /\ Written(r.tasks[type]) \in Seq(Route) /\ Written(r.byTask[type]) \in Seq(Route)
      /\ Written(r.byTask["default"]) \in Seq(Route)
  BY <1>1, WrittenIsSeq
<1> DEFINE order == Written(r.tasks[type]) \o Written(r.byTask[type])
                      \o Written(r.byTask["default"]) \o r.chain
           bare  == [provider |-> Default, model |-> "bare"]
<1>4. order \in Seq(Route)
  BY <1>2, <1>3
<1>5. <<bare>> \in Seq(Route)
  BY DefaultRoutes, OneRoute
<1>6. Order(r, type) = IF order = <<>> THEN <<bare>> ELSE order
  BY DEF Order
<1> HIDE DEF order, bare
<1> QED
  BY <1>4, <1>5, <1>6

(* What Begin sets out with.                                                *)
LEMMA ChainProper ==
  ASSUME NEW r \in Routings, NEW type \in TaskTypes
  PROVE  Proper(OrDefault(resolveChain(r, type)))
<1>1. Proper(resolveChain(r, type))
  BY OrderIsSeq, AddAllProper DEF resolveChain
<1>2. Proper(<<[provider |-> Default, model |-> ""]>>)
  BY DefaultRoutes, OneRoute
<1> QED
  BY <1>1, <1>2 DEF OrDefault

-----------------------------------------------------------------------------
(* Walks.                                                                   *)

Steps == {"idle", "route", "queued", "tokens", "held", "call", "answered", "failed"}
Ended == {"answered", "failed"}
Passing == {"missing", "limited", "retryable"}
Tried == [route : Route, outcome : Passing \cup {"ok", "final"}]

(* A call is done with the routes before the one it is at; all but its last *)
(* failed in passing, and where it ended its last says why.                 *)
Walking(step, routes, n, done) ==
  /\ IsInjective(routes)
  /\ Len(done) <= Len(routes)
  /\ \A i \in 1..Len(done) :
       /\ done[i].route = routes[i]
       /\ i < Len(done) \/ step \notin Ended => done[i].outcome \in Passing
  /\ step \notin Ended => Len(done) = n - 1
  /\ step = "idle" => n = 1
  /\ step \in {"queued", "tokens", "held", "call"} =>
       n <= Len(routes) /\ routes[n].provider \in Registered \cap Limited
  /\ step = "answered" => done # <<>> /\ done[Len(done)].outcome = "ok"
  /\ step = "failed" =>
       \/ done # <<>> /\ done[Len(done)].outcome = "final"
       \/ Len(done) = Len(routes) /\ \A i \in 1..Len(done) : done[i].outcome \in Passing

Walks ==
  /\ trace \in [Task -> Seq(Tried)]
  /\ \A t \in Task : Walking(pc[t], chain[t], hop[t], trace[t])

(* A call that set out is at the first route.                               *)
LEMMA WalkBegins ==
  ASSUME NEW old, NEW n, NEW done \in Seq(Tried), Walking("idle", old, n, done),
         NEW routes, Proper(routes)
  PROVE  Walking("route", routes, n, done)
<1>1. n = 1 /\ Len(done) = n - 1 /\ Len(routes) \in Nat /\ IsInjective(routes)
  BY DEF Walking, Ended, Proper
<1>2. Len(done) = 0
  BY <1>1
<1> QED
  BY <1>1, <1>2 DEF Walking, Ended

(* A call that is at a route of a provider that is there and limited gets   *)
(* on with it.                                                              *)
LEMMA WalkStays ==
  ASSUME NEW step \in Steps \ (Ended \cup {"idle"}), NEW routes, NEW n, NEW done,
         Walking(step, routes, n, done), n <= Len(routes),
         routes[n].provider \in Registered \cap Limited,
         NEW other \in {"queued", "tokens", "held", "call"}
  PROVE  Walking(other, routes, n, done)
  BY DEF Walking, Ended, Steps

(* A trace of the first n routes, all but the last of which failed in       *)
(* passing.                                                                 *)
Noted(done, routes, n, outcome) ==
  /\ done \in Seq(Tried) /\ done # <<>> /\ Len(done) = n
  /\ \A i \in 1..Len(done) : done[i].route = routes[i]
  /\ \A i \in 1..(Len(done) - 1) : done[i].outcome \in Passing
  /\ done[Len(done)].outcome = outcome

(* A route that is done with goes to the end of the trace.                  *)
LEMMA WalkNotes ==
  ASSUME NEW step \in Steps \ Ended, NEW routes \in Seq(Route), NEW n \in Nat \ {0},
         NEW done \in Seq(Tried),
         Walking(step, routes, n, done), n <= Len(routes),
         NEW outcome \in Passing \cup {"ok", "final"}, NEW more,
         more = Append(done, [route |-> routes[n], outcome |-> outcome])
  PROVE  Noted(more, routes, n, outcome)
<1> DEFINE e == [route |-> routes[n], outcome |-> outcome]
<1>1. e \in Tried /\ e.route = routes[n] /\ e.outcome = outcome
  BY DEF Tried
<1>2. /\ Len(done) = n - 1
      /\ \A i \in 1..Len(done) : done[i].route = routes[i] /\ done[i].outcome \in Passing
  BY DEF Walking
<1> HIDE DEF e
<1>3. more = Append(done, e)
  BY DEF e
<1>4. /\ Len(more) = n /\ more[n] = e /\ more \in Seq(Tried)
      /\ \A i \in 1..(n - 1) : more[i] = done[i]
  BY <1>1, <1>2, <1>3
<1>5. more # <<>>
  BY <1>4
<1> QED
  BY <1>1, <1>2, <1>4, <1>5 DEF Noted

(* After a failure that is passed over, the walk is at the next route.      *)
LEMMA WalkGoesOn ==
  ASSUME NEW step \in Steps \ Ended, NEW routes \in Seq(Route), NEW n \in Nat \ {0},
         NEW done \in Seq(Tried),
         Walking(step, routes, n, done), n <= Len(routes),
         NEW outcome \in Passing, NEW more,
         more = Append(done, [route |-> routes[n], outcome |-> outcome])
  PROVE  more \in Seq(Tried) /\ Walking("route", routes, n + 1, more)
<1>0. Noted(more, routes, n, outcome)
  BY WalkNotes
<1>1. /\ more \in Seq(Tried) /\ Len(more) = n
      /\ \A i \in 1..Len(more) : more[i].route = routes[i]
      /\ \A i \in 1..(Len(more) - 1) : more[i].outcome \in Passing
      /\ more[Len(more)].outcome = outcome
  BY <1>0 DEF Noted
<1>2. \A i \in 1..Len(more) : more[i].outcome \in Passing
  BY <1>1
<1>3. IsInjective(routes) /\ Len(more) <= Len(routes) /\ Len(more) = (n + 1) - 1
  BY <1>1 DEF Walking
<1> QED
  BY <1>1, <1>2, <1>3 DEF Walking

(* After an answer or a final error the walk is over.                       *)
LEMMA WalkEnds ==
  ASSUME NEW routes \in Seq(Route), IsInjective(routes), NEW n \in Nat \ {0}, n <= Len(routes),
         NEW outcome \in {"ok", "final"}, NEW done, Noted(done, routes, n, outcome),
         NEW end \in Ended, end = "answered" <=> outcome = "ok"
  PROVE  Walking(end, routes, n, done)
<1>1. /\ done \in Seq(Tried) /\ Len(done) = n /\ done # <<>>
      /\ \A i \in 1..Len(done) : done[i].route = routes[i]
      /\ \A i \in 1..(Len(done) - 1) : done[i].outcome \in Passing
      /\ done[Len(done)].outcome = outcome
  BY DEF Noted
<1>2. \A i \in 1..Len(done) : i < Len(done) => i \in 1..(Len(done) - 1)
  BY <1>1
<1> QED
  BY <1>1, <1>2 DEF Walking, Ended

(* A call that has no route left failed, in passing, with all of them.      *)
LEMMA WalkFails ==
  ASSUME NEW routes \in Seq(Route), NEW n \in Nat \ {0}, NEW done \in Seq(Tried),
         Walking("route", routes, n, done), n > Len(routes)
  PROVE  Walking("failed", routes, n, done)
<1>1. Len(done) = n - 1 /\ Len(done) <= Len(routes)
  BY DEF Walking, Ended
<1>2. Len(done) = Len(routes)
  BY <1>1
<1> QED
  BY <1>2 DEF Walking, Ended

-----------------------------------------------------------------------------
(* Types.                                                                   *)

(* The calls that wait for their turn at a bucket of requests, and those    *)
(* that had it.                                                             *)
Queue(p) == {t \in Task : pc[t] = "queued" /\ Prov(t) = p}
Passed(p) == {v \in passed : v.provider = p}

Budgets == \A p \in Limited : Sound(reqs[p], Gap, Queue(p), act, Passed(p), now)

IndInv == TypeOK /\ Walks /\ Budgets

(* What the constants are.                                                  *)
LEMMA Sizing ==
  /\ Burst \in Nat \ {0} /\ Gap \in 1..Burst /\ Gap \in Nat \ {0} /\ MaxTime \in Nat
  /\ \A s \in Sizes : \A t \in Task : s[t] \in Nat \ {0}
<1>1. \A s \in Sizes : s \in [Task -> Nat \ {0}]
  BY RouterAssumption
<1>2. Burst \in Nat \ {0} /\ Gap \in 1..Burst /\ MaxTime \in Nat
  BY RouterAssumption
<1>3. Gap \in Nat \ {0}
  BY <1>2
<1> QED
  BY <1>1, <1>2, <1>3

Sane(b) == b \in Bucket /\ b.level <= Burst

(* A reservation leaves a bucket, and a moment.                             *)
LEMMA SaneReserve ==
  ASSUME NEW b, Sane(b), NEW n \in Nat, NEW time \in Nat
  PROVE  Sane(Reserve(b, n, time)) /\ ActAt(b, n, time) \in Nat
  BY Sizing DEF Sane, Bucket, Reserve, ActAt, Delay

(* So does a cancellation.                                                  *)
LEMMA SaneCancel ==
  ASSUME NEW b, Sane(b), NEW n \in Nat, NEW moment \in Nat, NEW time \in Nat
  PROVE  Sane(Cancel(b, n, moment, time))
<1>1. Restored(b, n, moment, time) \in Int
  BY DEF Restored, Sane, Bucket
<1> QED
  BY <1>1, Sizing DEF Sane, Bucket, Cancel

(* A tick adds one, up to a full bucket.                                    *)
LEMMA SaneRefill ==
  ASSUME NEW b, Sane(b)
  PROVE  Sane(Refill(b))
  BY Sizing DEF Sane, Bucket, Refill

(* A limiter starts with full buckets.                                      *)
LEMMA SaneFull == Sane(Full)
  BY Sizing DEF Sane, Bucket, Full

(* What the types say of one call and one limiter.                          *)
LEMMA Typed ==
  ASSUME IndInv
  PROVE  /\ now \in Nat /\ now \in 0..MaxTime /\ routing \in Routings /\ size \in Sizes
         /\ \A p \in Limited : Sane(reqs[p]) /\ Sane(toks[p])
         /\ \A t \in Task : /\ pc[t] \in Steps /\ chain[t] \in Seq(Route) /\ hop[t] \in Nat \ {0}
                            /\ act[t] \in Nat /\ size[t] \in Nat /\ trace[t] \in Seq(Tried)
                            /\ Walking(pc[t], chain[t], hop[t], trace[t])
                            /\ TaskType[t] \in TaskTypes
<1>1. \A p \in Limited : Sane(reqs[p]) /\ Sane(toks[p])
  BY DEF IndInv, TypeOK, Sane
<1>2. \A t \in Task : size[t] \in Nat
  BY Sizing DEF IndInv, TypeOK
<1>3. \A t \in Task : TaskType[t] \in TaskTypes
  BY DEF TaskTypes
<1>4. now \in Nat
  BY Sizing DEF IndInv, TypeOK
<1> QED
  BY <1>1, <1>2, <1>3, <1>4 DEF IndInv, TypeOK, Walks, Steps

(* What a waiting or a served call stands at.                               *)
LEMMA AtLimited ==
  ASSUME IndInv, NEW t \in Task, pc[t] \in {"queued", "tokens", "held", "call"}
  PROVE  hop[t] <= Len(chain[t]) /\ Prov(t) \in Registered \cap Limited
<1>1. Walking(pc[t], chain[t], hop[t], trace[t])
  BY Typed
<1> QED
  BY <1>1 DEF Walking, Prov, Here

(* Every step keeps the types.                                              *)
LEMMA TypeStep == IndInv /\ [Next]_vars => TypeOK'
<1> SUFFICES ASSUME IndInv, [Next]_vars PROVE TypeOK'
  OBVIOUS
<1>0. TypeOK /\ now \in Nat /\ \A p \in Limited : Sane(reqs[p]) /\ Sane(toks[p])
  BY Typed DEF IndInv
<1>1. ASSUME NEW t \in Task, Begin(t) PROVE TypeOK'
  <2>1. OrDefault(resolveChain(routing, TaskType[t])) \in Seq(Route)
    BY Typed, ChainProper DEF Proper
  <2> QED
    BY <1>0, <1>1, <2>1 DEF Begin, TypeOK, Step, buckets, history
<1>2. ASSUME NEW t \in Task, Expire(t) PROVE TypeOK'
  BY <1>0, <1>2 DEF Expire, TypeOK, buckets, history
<1>3. ASSUME NEW t \in Task, Exhausted(t) PROVE TypeOK'
  BY <1>0, <1>3 DEF Exhausted, TypeOK, Step, buckets, history
<1>4. ASSUME NEW t \in Task, Missing(t) PROVE TypeOK'
  BY <1>0, <1>4 DEF Missing, MoveOn, TypeOK, Step, buckets, history
<1>5. ASSUME NEW t \in Task, RequestTurn(t) PROVE TypeOK'
  <2> DEFINE p == Prov(t)
  <2>1. p \in Limited
    BY <1>5 DEF RequestTurn
  <2>2. Sane(Reserve(reqs[p], Gap, now)) /\ ActAt(reqs[p], Gap, now) \in Nat
    BY <1>0, <2>1, Sizing, SaneReserve
  <2>3. CASE MoveOn(t, "limited") /\ UNCHANGED <<reqs, act, passed>>
    BY <1>0, <1>5, <2>3 DEF RequestTurn, MoveOn, Step, TypeOK
  <2>4. CASE /\ reqs' = [reqs EXCEPT ![p] = Reserve(@, Gap, now)]
             /\ act' = [act EXCEPT ![t] = ActAt(reqs[p], Gap, now)]
             /\ (Step(t, "queued") /\ UNCHANGED passed) \/ Pass(t)
             /\ UNCHANGED <<hop, trace>>
    <3>1. /\ reqs' \in [Limited -> Bucket] /\ \A q \in Limited : reqs'[q].level <= Burst
          /\ act' \in [Task -> Nat]
      BY <1>0, <2>1, <2>2, <2>4 DEF TypeOK, Sane
    <3>2. passed' \subseteq Visit
      <4>1. [task |-> t, hop |-> hop[t], provider |-> p, at |-> now] \in Visit
        BY <1>0, <2>1 DEF TypeOK, Visit
      <4> QED
        BY <1>0, <2>4, <4>1 DEF Pass, TypeOK
    <3>3. pc' \in [Task -> Steps]
      BY <1>0, <2>4 DEF Pass, Step, TypeOK, Steps
    <3> QED
      BY <1>0, <1>5, <2>4, <3>1, <3>2, <3>3 DEF RequestTurn, TypeOK, Steps
  <2> QED
    BY <1>5, <2>3, <2>4 DEF RequestTurn
<1>6. ASSUME NEW t \in Task, Queued(t) PROVE TypeOK'
  <2> DEFINE p == Prov(t)
  <2>1. p \in Limited /\ act[t] \in Nat
    BY <1>6, AtLimited, Typed DEF Queued, At
  <2>2. Sane(Cancel(reqs[p], Gap, act[t], now))
    BY <1>0, <2>1, Sizing, SaneCancel
  <2>3. CASE Pass(t) /\ UNCHANGED <<reqs, hop, trace>>
    <3>1. [task |-> t, hop |-> hop[t], provider |-> p, at |-> now] \in Visit
      BY <1>0, <2>1 DEF TypeOK, Visit
    <3> QED
      BY <1>0, <1>6, <2>3, <3>1 DEF Queued, Pass, Step, TypeOK
  <2>4. CASE /\ reqs' = [reqs EXCEPT ![p] = Cancel(@, Gap, act[t], now)]
             /\ MoveOn(t, "limited") /\ UNCHANGED passed
    <3>1. reqs' \in [Limited -> Bucket] /\ \A q \in Limited : reqs'[q].level <= Burst
      BY <1>0, <2>1, <2>2, <2>4 DEF TypeOK, Sane
    <3> QED
      BY <1>0, <1>6, <2>4, <3>1 DEF Queued, MoveOn, Step, TypeOK
  <2> QED
    BY <1>6, <2>3, <2>4 DEF Queued
<1>7. ASSUME NEW t \in Task, Denied(t) PROVE TypeOK'
  BY <1>0, <1>7 DEF Denied, MoveOn, TypeOK, Step, buckets, history
<1>8. ASSUME NEW t \in Task, TokenTurn(t) PROVE TypeOK'
  <2> DEFINE p == Prov(t)
  <2>1. p \in Limited /\ size[t] \in Nat
    BY <1>8, AtLimited, Typed DEF TokenTurn, At
  <2>2. Sane(Reserve(toks[p], size[t], now)) /\ ActAt(toks[p], size[t], now) \in Nat
    BY <1>0, <2>1, SaneReserve
  <2>3. /\ toks' = [toks EXCEPT ![p] = Reserve(@, size[t], now)]
        /\ act' = [act EXCEPT ![t] = ActAt(toks[p], size[t], now)]
        /\ (Step(t, "held") /\ UNCHANGED sent) \/ Send(t)
    BY <1>8 DEF TokenTurn
  <2>4. /\ toks' \in [Limited -> Bucket] /\ \A q \in Limited : toks'[q].level <= Burst
        /\ act' \in [Task -> Nat]
    BY <1>0, <2>1, <2>2, <2>3 DEF TypeOK, Sane
  <2>5. sent' \subseteq Visit
    <3>1. [task |-> t, hop |-> hop[t], provider |-> p, at |-> now] \in Visit
      BY <1>0, <2>1 DEF TypeOK, Visit
    <3> QED
      BY <1>0, <2>3, <3>1 DEF Send, TypeOK
  <2>6. pc' \in [Task -> Steps]
    BY <1>0, <2>3 DEF Send, Step, TypeOK, Steps
  <2> QED
    BY <1>0, <1>8, <2>4, <2>5, <2>6 DEF TokenTurn, TypeOK, Steps
<1>9. ASSUME NEW t \in Task, Held(t) PROVE TypeOK'
  <2> DEFINE p == Prov(t)
  <2>1. p \in Limited /\ act[t] \in Nat /\ size[t] \in Nat
    BY <1>9, AtLimited, Typed DEF Held, At
  <2>2. Sane(Cancel(toks[p], size[t], act[t], now))
    BY <1>0, <2>1, SaneCancel
  <2>3. CASE Send(t) /\ UNCHANGED <<toks, hop, trace>>
    <3>1. [task |-> t, hop |-> hop[t], provider |-> p, at |-> now] \in Visit
      BY <1>0, <2>1 DEF TypeOK, Visit
    <3> QED
      BY <1>0, <1>9, <2>3, <3>1 DEF Held, Send, Step, TypeOK
  <2>4. CASE /\ toks' = [toks EXCEPT ![p] = Cancel(@, size[t], act[t], now)]
             /\ MoveOn(t, "limited") /\ UNCHANGED sent
    <3>1. toks' \in [Limited -> Bucket] /\ \A q \in Limited : toks'[q].level <= Burst
      BY <1>0, <2>1, <2>2, <2>4 DEF TypeOK, Sane
    <3> QED
      BY <1>0, <1>9, <2>4, <3>1 DEF Held, MoveOn, Step, TypeOK
  <2> QED
    BY <1>9, <2>3, <2>4 DEF Held
<1>10. ASSUME NEW t \in Task, Call(t) PROVE TypeOK'
  <2>0. pc \in [Task -> Steps] /\ hop \in [Task -> Nat \ {0}]
    BY <1>0 DEF TypeOK, Steps
  <2>1. \/ Step(t, "answered") /\ UNCHANGED hop
        \/ Step(t, "failed") /\ UNCHANGED hop
        \/ MoveOn(t, "retryable")
    BY <1>10 DEF Call
  <2>2. pc' \in [Task -> Steps]
    BY <2>0, <2>1 DEF MoveOn, Step, Steps
  <2>3. hop' \in [Task -> Nat \ {0}]
    BY <2>0, <2>1 DEF MoveOn
  <2> QED
    BY <1>0, <1>10, <2>2, <2>3 DEF Call, TypeOK, Steps, buckets, history
<1>11. ASSUME Tick PROVE TypeOK'
  <2>1. \A p \in Limited : Sane(Refill(reqs[p])) /\ Sane(Refill(toks[p]))
    BY <1>0, SaneRefill
  <2>2. /\ reqs' \in [Limited -> Bucket] /\ \A p \in Limited : reqs'[p].level <= Burst
        /\ toks' \in [Limited -> Bucket] /\ \A p \in Limited : toks'[p].level <= Burst
    BY <1>11, <2>1 DEF Tick, Sane
  <2>3. now' \in 0..MaxTime
    <3>1. now \in Nat /\ now < MaxTime /\ now' = now + 1 /\ MaxTime \in Nat
      BY <1>0, <1>11, Sizing DEF Tick
    <3> QED
      BY <3>1
  <2>4. UNCHANGED <<routing, size, pc, chain, hop, act, expired, passed, sent>>
    BY <1>11 DEF Tick, history
  <2> QED
    BY <1>0, <2>2, <2>3, <2>4 DEF TypeOK
<1>12. CASE UNCHANGED vars
  BY <1>0, <1>12 DEF vars, TypeOK
<1> QED
  BY <1>1, <1>2, <1>3, <1>4, <1>5, <1>6, <1>7, <1>8, <1>9, <1>10, <1>11, <1>12 DEF Next, Complete

-----------------------------------------------------------------------------
(* Steps of the walks.                                                      *)

(* Only the call that takes a step moves.                                   *)
LEMMA OneWalks ==
  ASSUME IndInv, NEW t \in Task,
         \A u \in Task \ {t} : /\ pc'[u] = pc[u] /\ chain'[u] = chain[u]
                                /\ hop'[u] = hop[u] /\ trace'[u] = trace[u],
         trace' = [trace EXCEPT ![t] = trace'[t]], trace'[t] \in Seq(Tried),
         Walking(pc'[t], chain'[t], hop'[t], trace'[t])
  PROVE  Walks'
<1>1. \A u \in Task \ {t} : Walking(pc'[u], chain'[u], hop'[u], trace'[u])
  BY DEF IndInv, Walks
<1>2. trace' \in [Task -> Seq(Tried)]
  BY DEF IndInv, Walks
<1> QED
  BY <1>1, <1>2 DEF Walks

(* A call that goes on to the next route.                                   *)
LEMMA MoveOnWalks ==
  ASSUME IndInv, NEW t \in Task, pc[t] \in Steps \ Ended, hop[t] <= Len(chain[t]),
         NEW outcome \in Passing, MoveOn(t, outcome), UNCHANGED chain
  PROVE  Walks'
<1>1. /\ pc[t] \in Steps \ Ended /\ chain[t] \in Seq(Route) /\ hop[t] \in Nat \ {0}
      /\ trace[t] \in Seq(Tried) /\ Walking(pc[t], chain[t], hop[t], trace[t])
  BY Typed
<1> DEFINE more == Append(trace[t], [route |-> chain[t][hop[t]], outcome |-> outcome])
<1>2. more \in Seq(Tried) /\ Walking("route", chain[t], hop[t] + 1, more)
  BY <1>1, WalkGoesOn
<1> HIDE DEF more
<1>3. /\ pc' = [pc EXCEPT ![t] = "route"] /\ hop' = [hop EXCEPT ![t] = hop[t] + 1]
      /\ trace' = [trace EXCEPT ![t] = more] /\ chain' = chain
  BY DEF MoveOn, Note, Step, Here, more
<1>4. pc'[t] = "route" /\ hop'[t] = hop[t] + 1 /\ trace'[t] = more /\ chain'[t] = chain[t]
  BY <1>3 DEF IndInv, TypeOK, Walks
<1>5. \A u \in Task \ {t} : /\ pc'[u] = pc[u] /\ chain'[u] = chain[u]
                             /\ hop'[u] = hop[u] /\ trace'[u] = trace[u]
  BY <1>3 DEF IndInv, TypeOK, Walks
<1> QED
  BY <1>2, <1>3, <1>4, <1>5, OneWalks

(* A call that goes on with its route.                                      *)
LEMMA StepWalks ==
  ASSUME IndInv, NEW t \in Task, pc[t] \in Steps \ (Ended \cup {"idle"}),
         hop[t] <= Len(chain[t]), Prov(t) \in Registered \cap Limited,
         NEW step \in {"queued", "tokens", "held", "call"}, Step(t, step),
         UNCHANGED <<chain, hop, trace>>
  PROVE  Walks'
<1>1. Walking(pc[t], chain[t], hop[t], trace[t]) /\ trace[t] \in Seq(Tried)
  BY Typed
<1>2. Walking(step, chain[t], hop[t], trace[t])
  BY <1>1, WalkStays DEF Prov, Here
<1>3. pc'[t] = step /\ \A u \in Task \ {t} : pc'[u] = pc[u]
  BY DEF Step, IndInv, TypeOK
<1>4. trace' = [trace EXCEPT ![t] = trace'[t]]
  BY DEF IndInv, Walks
<1> QED
  BY <1>1, <1>2, <1>3, <1>4, OneWalks

(* A call that ends with an answer, or with a final error.                  *)
LEMMA EndWalks ==
  ASSUME IndInv, NEW t \in Task, pc[t] \in Steps \ Ended, hop[t] <= Len(chain[t]),
         NEW outcome \in {"ok", "final"}, Note(t, outcome),
         NEW end \in Ended, end = "answered" <=> outcome = "ok", Step(t, end),
         UNCHANGED <<chain, hop>>
  PROVE  Walks'
<1>1. /\ pc[t] \in Steps \ Ended /\ chain[t] \in Seq(Route) /\ hop[t] \in Nat \ {0}
      /\ trace[t] \in Seq(Tried) /\ Walking(pc[t], chain[t], hop[t], trace[t])
  BY Typed
<1> DEFINE more == Append(trace[t], [route |-> chain[t][hop[t]], outcome |-> outcome])
<1>2. more = Append(trace[t], [route |-> chain[t][hop[t]], outcome |-> outcome])
  OBVIOUS
<1> HIDE DEF more
<1>3. Noted(more, chain[t], hop[t], outcome)
  BY <1>1, <1>2, WalkNotes
<1>4. more \in Seq(Tried) /\ IsInjective(chain[t])
  BY <1>1, <1>3 DEF Noted, Walking
<1>5. Walking(end, chain[t], hop[t], more)
  BY <1>1, <1>3, <1>4, WalkEnds
<1>6. /\ pc' = [pc EXCEPT ![t] = end] /\ trace' = [trace EXCEPT ![t] = more]
  BY DEF Note, Step, Here, more
<1>7. pc'[t] = end /\ trace'[t] = more
  BY <1>6 DEF IndInv, TypeOK, Walks
<1>8. \A u \in Task \ {t} : pc'[u] = pc[u] /\ trace'[u] = trace[u]
  BY <1>6 DEF IndInv, TypeOK, Walks
<1> QED
  BY <1>5, <1>6, <1>7, <1>8, <1>4, OneWalks

(* Every step keeps the walks: a call moves along its own chain only.       *)
LEMMA WalkStep == IndInv /\ [Next]_vars => Walks'
<1> SUFFICES ASSUME IndInv, [Next]_vars PROVE Walks'
  OBVIOUS
<1>0. \A t \in Task : pc[t] \in {"queued", "tokens", "held", "call"} =>
        hop[t] <= Len(chain[t]) /\ Prov(t) \in Registered \cap Limited
  BY AtLimited
<1>1. ASSUME NEW t \in Task, Begin(t) PROVE Walks'
  <2> DEFINE routes == OrDefault(resolveChain(routing, TaskType[t]))
  <2>1. Proper(routes) /\ Walking("idle", chain[t], hop[t], trace[t]) /\ trace[t] \in Seq(Tried)
    BY <1>1, Typed, ChainProper DEF Begin, At
  <2> HIDE DEF routes
  <2>2. Walking("route", routes, hop[t], trace[t])
    BY <2>1, WalkBegins
  <2>3. /\ pc' = [pc EXCEPT ![t] = "route"] /\ chain' = [chain EXCEPT ![t] = routes]
        /\ hop' = hop /\ trace' = trace
    BY <1>1 DEF Begin, Step, routes
  <2>4. pc'[t] = "route" /\ chain'[t] = routes
    BY <2>3 DEF IndInv, TypeOK
  <2>5. \A u \in Task \ {t} : pc'[u] = pc[u] /\ chain'[u] = chain[u]
    BY <2>3 DEF IndInv, TypeOK
  <2>6. trace' = [trace EXCEPT ![t] = trace'[t]]
    BY <2>3 DEF IndInv, Walks
  <2> QED
    BY <2>1, <2>2, <2>3, <2>4, <2>5, <2>6, OneWalks
<1>2. ASSUME NEW t \in Task, Expire(t) PROVE Walks'
  BY <1>2 DEF Expire, IndInv, Walks
<1>3. ASSUME NEW t \in Task, Exhausted(t) PROVE Walks'
  <2>1. /\ Walking("route", chain[t], hop[t], trace[t]) /\ hop[t] > Len(chain[t])
        /\ chain[t] \in Seq(Route) /\ hop[t] \in Nat \ {0} /\ trace[t] \in Seq(Tried)
    BY <1>3, Typed DEF Exhausted, At
  <2>2. Walking("failed", chain[t], hop[t], trace[t])
    BY <2>1, WalkFails
  <2>3. /\ pc' = [pc EXCEPT ![t] = "failed"] /\ UNCHANGED <<chain, hop, trace>>
    BY <1>3 DEF Exhausted, Step
  <2>4. pc'[t] = "failed" /\ \A u \in Task \ {t} : pc'[u] = pc[u]
    BY <2>3 DEF IndInv, TypeOK
  <2>5. trace' = [trace EXCEPT ![t] = trace'[t]]
    BY <2>3 DEF IndInv, Walks
  <2> QED
    BY <2>1, <2>2, <2>3, <2>4, <2>5, OneWalks
<1>4. ASSUME NEW t \in Task, Missing(t) PROVE Walks'
  <2>1. pc[t] \in Steps \ Ended /\ hop[t] <= Len(chain[t]) /\ "missing" \in Passing
    BY <1>4 DEF Missing, OnRoute, At, Steps, Ended, Passing
  <2>2. MoveOn(t, "missing") /\ UNCHANGED chain
    BY <1>4 DEF Missing
  <2> QED
    BY <2>1, <2>2, MoveOnWalks
<1>5. ASSUME NEW t \in Task, RequestTurn(t) PROVE Walks'
  <2>1. /\ pc[t] = "route" /\ pc[t] \in Steps \ (Ended \cup {"idle"}) /\ pc[t] \in Steps \ Ended
        /\ hop[t] <= Len(chain[t])
        /\ Prov(t) \in Registered \cap Limited /\ UNCHANGED chain
    BY <1>5 DEF RequestTurn, OnRoute, At, Steps, Ended
  <2>2. CASE MoveOn(t, "limited")
    <3>1. "limited" \in Passing
      BY DEF Passing
    <3> QED
      BY <3>1, <2>1, <2>2, MoveOnWalks
  <2>3. CASE Step(t, "queued") /\ UNCHANGED <<hop, trace>>
    BY <2>1, <2>3, StepWalks
  <2>4. CASE Pass(t) /\ UNCHANGED <<hop, trace>>
    BY <2>1, <2>4, StepWalks DEF Pass
  <2> QED
    BY <1>5, <2>2, <2>3, <2>4 DEF RequestTurn
<1>6. ASSUME NEW t \in Task, Queued(t) PROVE Walks'
  <2>1. /\ pc[t] = "queued" /\ pc[t] \in Steps \ (Ended \cup {"idle"}) /\ pc[t] \in Steps \ Ended
        /\ hop[t] <= Len(chain[t])
        /\ Prov(t) \in Registered \cap Limited /\ UNCHANGED chain
    BY <1>0, <1>6 DEF Queued, At, Steps, Ended
  <2>2. CASE MoveOn(t, "limited")
    <3>1. "limited" \in Passing
      BY DEF Passing
    <3> QED
      BY <3>1, <2>1, <2>2, MoveOnWalks
  <2>3. CASE Pass(t) /\ UNCHANGED <<hop, trace>>
    BY <2>1, <2>3, StepWalks DEF Pass
  <2> QED
    BY <1>6, <2>2, <2>3 DEF Queued
<1>7. ASSUME NEW t \in Task, Denied(t) PROVE Walks'
  <2>1. pc[t] \in Steps \ Ended /\ hop[t] <= Len(chain[t]) /\ "limited" \in Passing
    BY <1>0, <1>7 DEF Denied, At, Steps, Ended, Passing
  <2>2. MoveOn(t, "limited") /\ UNCHANGED chain
    BY <1>7 DEF Denied
  <2> QED
    BY <2>1, <2>2, MoveOnWalks
<1>8. ASSUME NEW t \in Task, TokenTurn(t) PROVE Walks'
  <2>1. /\ pc[t] \in Steps \ (Ended \cup {"idle"}) /\ hop[t] <= Len(chain[t])
        /\ Prov(t) \in Registered \cap Limited /\ UNCHANGED <<chain, hop, trace>>
    BY <1>0, <1>8 DEF TokenTurn, At, Steps, Ended
  <2>2. Step(t, "held") \/ Step(t, "call")
    BY <1>8 DEF TokenTurn, Send
  <2> QED
    BY <2>1, <2>2, StepWalks
<1>9. ASSUME NEW t \in Task, Held(t) PROVE Walks'
  <2>1. /\ pc[t] = "held" /\ pc[t] \in Steps \ (Ended \cup {"idle"}) /\ pc[t] \in Steps \ Ended
        /\ hop[t] <= Len(chain[t])
        /\ Prov(t) \in Registered \cap Limited /\ UNCHANGED chain
    BY <1>0, <1>9 DEF Held, At, Steps, Ended
  <2>2. CASE MoveOn(t, "limited")
    <3>1. "limited" \in Passing
      BY DEF Passing
    <3> QED
      BY <3>1, <2>1, <2>2, MoveOnWalks
  <2>3. CASE Send(t) /\ UNCHANGED <<hop, trace>>
    BY <2>1, <2>3, StepWalks DEF Send
  <2> QED
    BY <1>9, <2>2, <2>3 DEF Held
<1>10. ASSUME NEW t \in Task, Call(t) PROVE Walks'
  <2>1. pc[t] \in Steps \ Ended /\ hop[t] <= Len(chain[t]) /\ UNCHANGED chain
    BY <1>0, <1>10 DEF Call, OnRoute, At, Steps, Ended
  <2>2. CASE Note(t, "ok") /\ Step(t, "answered") /\ UNCHANGED hop
    BY <2>1, <2>2, EndWalks DEF Ended
  <2>3. CASE Note(t, "final") /\ Step(t, "failed") /\ UNCHANGED hop
    BY <2>1, <2>3, EndWalks DEF Ended
  <2>4. CASE MoveOn(t, "retryable")
    <3>1. "retryable" \in Passing
      BY DEF Passing
    <3> QED
      BY <3>1, <2>1, <2>4, MoveOnWalks
  <2> QED
    BY <1>10, <2>2, <2>3, <2>4 DEF Call
<1>11. ASSUME Tick PROVE Walks'
  <2>1. UNCHANGED <<pc, chain, hop, trace>>
    BY <1>11 DEF Tick
  <2> QED
    BY <2>1 DEF IndInv, Walks
<1>12. CASE UNCHANGED vars
  BY <1>12 DEF vars, IndInv, Walks
<1> QED
  BY <1>1, <1>2, <1>3, <1>4, <1>5, <1>6, <1>7, <1>8, <1>9, <1>10, <1>11, <1>12 DEF Next, Complete

-----------------------------------------------------------------------------
(* Steps of the budgets.                                                    *)

(* A request costs something, and no more than a bucket holds.              *)
LEMMA GapFits == Burst \in Nat /\ Gap \in 1..Burst
  BY Sizing

(* A limiter that nobody comes to or leaves.                                *)
LEMMA Aside ==
  ASSUME IndInv, NEW p \in Limited, reqs'[p] = reqs[p], now' = now,
         Queue(p)' = Queue(p), Passed(p)' = Passed(p),
         \A t \in Queue(p) : act'[t] = act[t]
  PROVE  Sound(reqs[p], Gap, Queue(p), act, Passed(p), now)'
<1>1. Sound(reqs[p], Gap, Queue(p), act, Passed(p), now)
  BY DEF IndInv, Budgets
<1>2. Sound(reqs[p], Gap, Queue(p), act', Passed(p), now)
  BY <1>1, SameMoments
<1> QED
  BY <1>2, Zenon

(* Who does not wait before and after a step leaves all queues alone.       *)
LEMMA SameQueue ==
  ASSUME IndInv, NEW t \in Task, pc[t] # "queued", pc'[t] # "queued",
         \A u \in Task \ {t} : /\ pc'[u] = pc[u] /\ chain'[u] = chain[u]
                                /\ hop'[u] = hop[u]
  PROVE  \A p : Queue(p)' = Queue(p) /\ t \notin Queue(p)
  BY DEF Queue, Prov, Here

(* Steps that no bucket of requests takes part in.                          *)
LEMMA Elsewhere ==
  ASSUME IndInv, NEW t \in Task, pc[t] # "queued", pc'[t] # "queued",
         \A u \in Task \ {t} : /\ pc'[u] = pc[u] /\ chain'[u] = chain[u]
                                /\ hop'[u] = hop[u] /\ act'[u] = act[u],
         UNCHANGED <<reqs, now, passed>>
  PROVE  Budgets'
<1>1. \A p : Queue(p)' = Queue(p) /\ t \notin Queue(p)
  BY SameQueue
<1>2. \A p : Passed(p)' = Passed(p)
  BY DEF Passed
<1>3. \A p : \A u \in Queue(p) : act'[u] = act[u]
  BY <1>1 DEF Queue
<1>4. \A p \in Limited : Sound(reqs[p], Gap, Queue(p), act, Passed(p), now)'
  BY <1>1, <1>2, <1>3, Aside
<1> QED
  BY <1>4 DEF Budgets

(* Queues of the other limiters, when a call is done with one of them or    *)
(* goes to wait there.                                                      *)
LEMMA OtherQueues ==
  ASSUME IndInv, NEW t \in Task, pc'[t] = "queued" => Prov(t)' = Prov(t),
         \A u \in Task \ {t} : /\ pc'[u] = pc[u] /\ chain'[u] = chain[u]
                                /\ hop'[u] = hop[u]
  PROVE  /\ \A p : p # Prov(t) => Queue(p)' = Queue(p)
         /\ \A p : p # Prov(t) => t \notin Queue(p)
         /\ \A p : p = Prov(t) /\ pc'[t] # "queued" => Queue(p)' = Queue(p) \ {t}
         /\ \A p : p = Prov(t) /\ pc'[t] = "queued" => Queue(p)' = Queue(p) \cup {t}
<1>1. \A u \in Task \ {t} : Prov(u)' = Prov(u)
  BY DEF Prov, Here
<1>2. \A p : \A u \in Task \ {t} : u \in Queue(p)' <=> u \in Queue(p)
  BY <1>1 DEF Queue
<1>3. ASSUME NEW p, p # Prov(t) PROVE t \notin Queue(p) /\ t \notin Queue(p)'
  BY <1>3 DEF Queue
<1>4. ASSUME NEW p, p # Prov(t) PROVE Queue(p)' = Queue(p)
  <2>1. Queue(p) \subseteq Task /\ Queue(p)' \subseteq Task
    BY DEF Queue
  <2> QED
    BY <1>2, <1>3, <1>4, <2>1
<1>5. ASSUME NEW p, p = Prov(t)
      PROVE  /\ pc'[t] # "queued" => Queue(p)' = Queue(p) \ {t}
             /\ pc'[t] = "queued" => Queue(p)' = Queue(p) \cup {t}
  <2>1. Queue(p) \subseteq Task /\ Queue(p)' \subseteq Task
    BY DEF Queue
  <2>2. t \in Queue(p)' <=> pc'[t] = "queued"
    BY <1>5 DEF Queue
  <2> QED
    BY <1>2, <2>1, <2>2
<1> QED
  BY <1>3, <1>4, <1>5

(* The limiter a call comes to.                                             *)
LEMMA RequestTurnKeeps ==
  ASSUME IndInv, NEW t \in Task, RequestTurn(t)
  PROVE  Budgets'
<1>1. PICK p \in Limited : p = Prov(t)
  BY DEF RequestTurn
<1>2. PICK v : v = [task |-> t, hop |-> hop[t], provider |-> p, at |-> now]
  OBVIOUS
<1>3. /\ pc[t] = "route" /\ p \in Limited /\ UNCHANGED <<now, chain>>
  BY DEF RequestTurn, OnRoute, At
<1>4. /\ now \in Nat /\ Sane(reqs[p]) /\ reqs[p].level \in Int
  BY <1>3, Typed DEF Sane, Bucket
<1>5. /\ pc \in [Task -> Steps] /\ hop \in [Task -> Nat \ {0}] /\ act \in [Task -> Nat]
      /\ DOMAIN reqs = Limited
  BY DEF IndInv, TypeOK, Steps
<1>6. CASE MoveOn(t, "limited") /\ UNCHANGED <<reqs, act, passed>>
  <2>1. /\ pc'[t] # "queued"
        /\ \A u \in Task \ {t} : pc'[u] = pc[u] /\ hop'[u] = hop[u]
    BY <1>5, <1>6 DEF MoveOn, Step
  <2> QED
    BY <1>3, <1>6, <2>1, Elsewhere
<1>7. CASE /\ reqs' = [reqs EXCEPT ![p] = Reserve(@, Gap, now)]
           /\ act' = [act EXCEPT ![t] = ActAt(reqs[p], Gap, now)]
           /\ IF Delay(reqs[p].level - Gap) > 0 THEN Step(t, "queued") /\ UNCHANGED passed
                                                ELSE Pass(t)
           /\ UNCHANGED <<hop, trace>>
  <2>1. /\ reqs'[p] = Reserve(reqs[p], Gap, now)
        /\ \A q \in Limited \ {p} : reqs'[q] = reqs[q]
        /\ act'[t] = ActAt(reqs[p], Gap, now) /\ \A u \in Task \ {t} : act'[u] = act[u]
    BY <1>3, <1>5, <1>7
  <2>2. \A u \in Task \ {t} : pc'[u] = pc[u] /\ chain'[u] = chain[u] /\ hop'[u] = hop[u]
    BY <1>3, <1>5, <1>7 DEF Step, Pass
  <2>3. Prov(t)' = Prov(t)
    BY <1>3, <1>7 DEF Prov, Here
  <2>4. /\ \A q : q # p => Queue(q)' = Queue(q)
        /\ \A q : q # p => t \notin Queue(q)
        /\ pc'[t] # "queued" => Queue(p)' = Queue(p) \ {t}
        /\ pc'[t] = "queued" => Queue(p)' = Queue(p) \cup {t}
    BY <1>1, <2>2, <2>3, OtherQueues
  <2>5. /\ t \notin Queue(p) /\ Queue(p) \subseteq Task
    BY <1>1, <1>3 DEF Queue
  <2>6. \A q : q # p => Passed(q)' = Passed(q)
    BY <1>1, <1>7 DEF Pass, Passed
  <2>7. ASSUME NEW q \in Limited, q # p
        PROVE  Sound(reqs[q], Gap, Queue(q), act, Passed(q), now)'
    <3>1. \A u \in Queue(q) : act'[u] = act[u]
      BY <2>1, <2>4, <2>7 DEF Queue
    <3> QED
      BY <1>3, <2>1, <2>4, <2>6, <2>7, <3>1, Aside
  <2>8. Sound(reqs[p], Gap, Queue(p), act, Passed(p), now)
    BY <1>3 DEF IndInv, Budgets
  <2>9. Sound(reqs[p], Gap, Queue(p), act, Passed(p), now)'
    <3>1. CASE Delay(reqs[p].level - Gap) > 0
      <4>1. reqs[p].level - Gap < 0
        BY <1>4, <3>1, GapFits DEF Delay
      <4>2. pc'[t] = "queued" /\ passed' = passed
        BY <1>5, <1>7, <3>1 DEF Step
      <4>3. Queue(p)' = Queue(p) \cup {t} /\ Passed(p)' = Passed(p)
        BY <2>4, <4>2 DEF Passed
      <4>4. \A u \in Queue(p) : act'[u] = act[u]
        BY <2>1, <2>5
      <4>5. Sound(Reserve(reqs[p], Gap, now), Gap, Queue(p) \cup {t}, act', Passed(p), now)
        BY <1>4, <2>1, <2>5, <2>8, <4>1, <4>4, GapFits, TakeLater
      <4>6. Sound(reqs'[p], Gap, Queue(p)', act', Passed(p)', now')
        BY <1>3, <2>1, <4>3, <4>5, Zenon
      <4> QED
        BY <4>6, Zenon
    <3>2. CASE ~(Delay(reqs[p].level - Gap) > 0)
      <4>1. reqs[p].level - Gap >= 0
        BY <1>4, <3>2, GapFits DEF Delay
      <4>2. Pass(t)
        BY <1>7, <3>2
      <4>3. Queue(p)' = Queue(p)
        BY <1>5, <2>4, <2>5, <4>2 DEF Pass, Step
      <4>4. Passed(p)' = Passed(p) \cup {v} /\ v.at = now
        BY <1>1, <1>2, <4>2 DEF Pass, Passed
      <4>5. Sound(Reserve(reqs[p], Gap, now), Gap, Queue(p), act, Passed(p) \cup {v}, now)
        BY <1>4, <2>8, <4>1, <4>4, GapFits, TakeNow
      <4>6. \A u \in Queue(p) : act'[u] = act[u]
        BY <2>1, <2>5
      <4>7. Sound(Reserve(reqs[p], Gap, now), Gap, Queue(p), act', Passed(p) \cup {v}, now)
        BY <4>5, <4>6, SameMoments
      <4>8. Sound(reqs'[p], Gap, Queue(p)', act', Passed(p)', now')
        BY <1>3, <2>1, <4>3, <4>4, <4>7, Zenon
      <4> QED
        BY <4>8, Zenon
    <3> QED
      BY <3>1, <3>2
  <2> QED
    BY <2>7, <2>9 DEF Budgets
<1> QED
  BY <1>1, <1>6, <1>7 DEF RequestTurn

(* The limiter a call waited for.                                           *)
LEMMA QueuedKeeps ==
  ASSUME IndInv, NEW t \in Task, Queued(t)
  PROVE  Budgets'
<1>1. PICK p \in Limited : p = Prov(t)
  BY AtLimited DEF Queued, At
<1>2. PICK v : v = [task |-> t, hop |-> hop[t], provider |-> p, at |-> now]
  OBVIOUS
<1>3. pc[t] = "queued" /\ UNCHANGED <<now, chain, act>>
  BY DEF Queued, At
<1>4. now \in Nat /\ t \in Queue(p)
  BY <1>1, <1>3, Typed DEF Queue
<1>5. /\ pc \in [Task -> Steps] /\ hop \in [Task -> Nat \ {0}]
      /\ DOMAIN reqs = Limited
  BY DEF IndInv, TypeOK, Steps
<1>6. /\ \/ act[t] <= now /\ Pass(t) /\ UNCHANGED <<reqs, hop, trace>>
         \/ /\ reqs' = [reqs EXCEPT ![p] = Cancel(@, Gap, act[t], now)]
            /\ MoveOn(t, "limited") /\ UNCHANGED passed
      /\ pc'[t] # "queued"
      /\ \A u \in Task \ {t} : pc'[u] = pc[u] /\ chain'[u] = chain[u] /\ hop'[u] = hop[u]
  BY <1>1, <1>3, <1>5 DEF Queued, Pass, MoveOn, Step
<1>7. /\ \A q : q # p => Queue(q)' = Queue(q)
      /\ pc'[t] # "queued" => Queue(p)' = Queue(p) \ {t}
  BY <1>1, <1>6, OtherQueues
<1>8. Queue(p)' = Queue(p) \ {t}
  BY <1>6, <1>7
<1>9. Sound(reqs[p], Gap, Queue(p), act, Passed(p), now)
  BY DEF IndInv, Budgets
<1>10. CASE act[t] <= now /\ Pass(t) /\ UNCHANGED <<reqs, hop, trace>>
  <2>1. Passed(p)' = Passed(p) \cup {v} /\ v.at = now
    BY <1>1, <1>2, <1>10 DEF Pass, Passed
  <2>2. \A q : q # p => Passed(q)' = Passed(q)
    BY <1>1, <1>10 DEF Pass, Passed
  <2>3. Sound(reqs[p], Gap, Queue(p) \ {t}, act, Passed(p) \cup {v}, now)
    BY <1>4, <1>9, <1>10, <2>1, GapFits, TakeTurn
  <2>4. Sound(reqs'[p], Gap, Queue(p)', act', Passed(p)', now')
    BY <1>3, <1>8, <1>10, <2>1, <2>3, Zenon
  <2>5. ASSUME NEW q \in Limited, q # p
        PROVE  Sound(reqs[q], Gap, Queue(q), act, Passed(q), now)'
    BY <1>3, <1>7, <1>10, <2>2, <2>5, Aside
  <2> QED
    BY <2>4, <2>5 DEF Budgets
<1>11. CASE /\ reqs' = [reqs EXCEPT ![p] = Cancel(@, Gap, act[t], now)]
            /\ MoveOn(t, "limited") /\ UNCHANGED passed
  <2>1. /\ reqs'[p] = Cancel(reqs[p], Gap, act[t], now)
        /\ \A q \in Limited \ {p} : reqs'[q] = reqs[q]
    BY <1>5, <1>11
  <2>2. \A q : Passed(q)' = Passed(q)
    BY <1>11 DEF Passed
  <2>3. Sound(Cancel(reqs[p], Gap, act[t], now), Gap, Queue(p) \ {t}, act, Passed(p), now)
    BY <1>4, <1>9, GapFits, Leave
  <2>4. Sound(reqs'[p], Gap, Queue(p)', act', Passed(p)', now')
    BY <1>3, <1>8, <2>1, <2>2, <2>3, Zenon
  <2>5. ASSUME NEW q \in Limited, q # p
        PROVE  Sound(reqs[q], Gap, Queue(q), act, Passed(q), now)'
    BY <1>3, <1>7, <2>1, <2>2, <2>5, Aside
  <2> QED
    BY <2>4, <2>5 DEF Budgets
<1> QED
  BY <1>6, <1>10, <1>11

(* Time refills every request bucket and passes nobody who is due.          *)
LEMMA TickKeeps ==
  ASSUME IndInv, Tick
  PROVE  Budgets'
<1>1. /\ now' = now + 1 /\ UNCHANGED <<pc, chain, hop, act, passed>>
      /\ \A p \in Limited : reqs'[p] = Refill(reqs[p])
      /\ \A t \in Task : pc[t] \in {"queued", "held"} => act[t] > now
  BY DEF Tick, history
<1>2. now \in Nat
  BY Typed
<1>3. ASSUME NEW p \in Limited
      PROVE  Sound(reqs[p], Gap, Queue(p), act, Passed(p), now)'
  <2>1. Queue(p)' = Queue(p) /\ Passed(p)' = Passed(p)
    BY <1>1 DEF Queue, Passed, Prov, Here
  <2>2. \A t \in Queue(p) : act[t] > now
    BY <1>1 DEF Queue
  <2>3. Sound(reqs[p], Gap, Queue(p), act, Passed(p), now)
    BY DEF IndInv, Budgets
  <2>4. Sound(Refill(reqs[p]), Gap, Queue(p), act, Passed(p), now + 1)
    BY <1>2, <2>2, <2>3, GapFits, OneTick
  <2> QED
    BY <1>1, <2>1, <2>4, Zenon
<1> QED
  BY <1>3 DEF Budgets

(* Every step keeps the request buckets in order.                           *)
LEMMA BudgetStep == IndInv /\ [Next]_vars => Budgets'
<1> SUFFICES ASSUME IndInv, [Next]_vars PROVE Budgets'
  OBVIOUS
<1>0. /\ pc \in [Task -> Steps] /\ hop \in [Task -> Nat \ {0}] /\ act \in [Task -> Nat]
      /\ chain \in [Task -> Seq(Route)]
  BY DEF IndInv, TypeOK, Steps
<1>1. ASSUME NEW t \in Task, Begin(t) PROVE Budgets'
  <2>1. /\ pc[t] # "queued" /\ pc'[t] # "queued" /\ UNCHANGED <<reqs, now, passed>>
        /\ \A u \in Task \ {t} : /\ pc'[u] = pc[u] /\ chain'[u] = chain[u]
                                 /\ hop'[u] = hop[u] /\ act'[u] = act[u]
    BY <1>0, <1>1 DEF Begin, At, Step, buckets, history
  <2> QED
    BY <2>1, Elsewhere
<1>2. ASSUME NEW t \in Task, Expire(t) PROVE Budgets'
  BY <1>2 DEF Expire, buckets, history, IndInv, Budgets, Queue, Passed, Prov, Here
<1>3. ASSUME NEW t \in Task,
             \/ Exhausted(t) \/ Missing(t) \/ Denied(t) \/ TokenTurn(t) \/ Held(t) \/ Call(t)
      PROVE  Budgets'
  <2>1. UNCHANGED <<reqs, now, passed, chain>> /\ pc[t] # "queued"
    BY <1>3 DEF Exhausted, Missing, Denied, TokenTurn, Held, Call, OnRoute, At, buckets, history
  <2>2. /\ pc'[t] # "queued"
        /\ \A u \in Task \ {t} : pc'[u] = pc[u]
    BY <1>0, <1>3 DEF Exhausted, Missing, Denied, TokenTurn, Held, Call, MoveOn, Step, Send
  <2>3. \A u \in Task \ {t} : hop'[u] = hop[u]
    BY <1>0, <1>3 DEF Exhausted, Missing, Denied, TokenTurn, Held, Call, MoveOn
  <2>4. \A u \in Task \ {t} : act'[u] = act[u]
    BY <1>0, <1>3 DEF Exhausted, Missing, Denied, TokenTurn, Held, Call
  <2> QED
    BY <2>1, <2>2, <2>3, <2>4, Elsewhere
<1>4. CASE UNCHANGED vars
  BY <1>4 DEF vars, IndInv, Budgets, Queue, Passed, Prov, Here
<1> QED
  BY <1>1, <1>2, <1>3, <1>4, RequestTurnKeeps, QueuedKeeps, TickKeeps DEF Next, Complete

-----------------------------------------------------------------------------
(* Budgets of tokens.                                                       *)

(* What a call that is held has booked, and when it may go on; all that is  *)
(* booked with a provider, sent or held.                                    *)
Booking(t) == [task |-> t, hop |-> hop[t], provider |-> Prov(t), at |-> act[t]]
Late(p) == {Booking(t) : t \in {u \in Task : pc[u] = "held" /\ Prov(u) = p}}
Plan(p) == {v \in sent : v.provider = p} \cup Late(p)

(* A call is sent at most once from a hop, and held after it passed.        *)
Marked(t) ==
  /\ pc[t] \notin {"call", "answered", "failed"} =>
       \A v \in sent : ~(v.task = t /\ v.hop = hop[t])
  /\ pc[t] \in {"tokens", "held"} =>
       \E v \in passed : v.task = t /\ v.hop = hop[t] /\ v.provider = Prov(t)
  /\ pc[t] = "held" => now <= act[t] /\ size[t] <= Burst

Marks ==
  /\ IsFiniteSet(passed)
  /\ \A v \in passed : v.hop <= hop[v.task]
  /\ \A v \in sent : v.hop <= hop[v.task] /\ v.at <= now
  /\ \A t \in Task : Marked(t)

(* The bucket of tokens is within what it was given until the second call   *)
(* gives up, and those who wait stand in order until the first one does.    *)
Planned(p) ==
  /\ Cardinality(GaveUp(p)) <= 1 => Booked(toks[p], size, Plan(p), now)
  /\ GaveUp(p) = {} => Orderly(toks[p], size, Plan(p), Late(p), now)

TokenInv == Marks /\ \A p \in Limited : Planned(p)

(* Steps of one call, that adds to the history at most where it is.         *)
Others(t) ==
  \A u \in Task \ {t} : pc'[u] = pc[u] /\ chain'[u] = chain[u] /\ hop'[u] = hop[u] /\ act'[u] = act[u]

Grows(visits, t) ==
  \/ visits' = visits
  \/ hop'[t] = hop[t] /\ visits' = visits \cup {[task |-> t, hop |-> hop[t], provider |-> Prov(t), at |-> now]}

Moves(t) ==
  /\ Others(t) /\ UNCHANGED <<now, size>>
  /\ hop'[t] \in {hop[t], hop[t] + 1}
  /\ Grows(passed, t) /\ Grows(sent, t)

(* Such a step leaves the other calls as they were marked.                  *)
LEMMA MarksMove ==
  ASSUME IndInv, Marks, NEW t \in Task, Moves(t), Marked(t)'
  PROVE  Marks'
<1>1. /\ hop \in [Task -> Nat \ {0}] /\ passed \subseteq Visit /\ sent \subseteq Visit
      /\ now \in Nat
  BY Typed DEF IndInv, TypeOK
<1>2. \A u \in Task : hop[u] \in Nat /\ hop'[u] \in Nat /\ hop[u] <= hop'[u]
  BY <1>1 DEF Moves, Others
<1>3. PICK w : w = [task |-> t, hop |-> hop[t], provider |-> Prov(t), at |-> now]
  OBVIOUS
<1>4. /\ passed' = passed \/ (hop'[t] = hop[t] /\ passed' = passed \cup {w})
      /\ sent' = sent \/ (hop'[t] = hop[t] /\ sent' = sent \cup {w})
      /\ w.task = t /\ w.hop = hop[t] /\ w.at = now
      /\ now' = now /\ size' = size
  BY <1>3 DEF Moves, Grows
<1>5. IsFiniteSet(passed')
  BY <1>4, FS_AddElement DEF Marks
<1>6. \A v \in passed \cup sent : v.task \in Task /\ v.hop \in Nat /\ v.hop <= hop[v.task]
  BY <1>1 DEF Marks, Visit
<1>7. \A v \in passed' \cup sent' : v.hop <= hop'[v.task]
  BY <1>1, <1>2, <1>4, <1>6
<1>8. \A v \in sent' : v.at <= now'
  BY <1>1, <1>4 DEF Marks
<1>9. ASSUME NEW u \in Task \ {t}
      PROVE  Marked(u)'
  <2>1. Marked(u) /\ pc'[u] = pc[u] /\ chain'[u] = chain[u] /\ hop'[u] = hop[u] /\ act'[u] = act[u]
    BY DEF Marks, Moves, Others
  <2>2. Prov(u)' = Prov(u)
    BY <2>1 DEF Prov, Here
  <2>3. passed \subseteq passed' /\ \A v \in sent' : v \in sent \/ v.task # u
    BY <1>4
  <2> QED
    BY <1>4, <2>1, <2>2, <2>3 DEF Marked
<1> QED
  BY <1>5, <1>7, <1>8, <1>9 DEF Marks

(* A call that passes is on record.                                         *)
LEMMA PassMarks ==
  ASSUME NEW t, Pass(t)
  PROVE  \E v \in passed' : v.task = t /\ v.hop = hop[t] /\ v.provider = Prov(t)
<1>1. PICK w : w = [task |-> t, hop |-> hop[t], provider |-> Prov(t), at |-> now]
  OBVIOUS
<1>2. w \in passed' /\ w.task = t /\ w.hop = hop[t] /\ w.provider = Prov(t)
  BY <1>1 DEF Pass
<1> QED
  BY <1>2

(* Every step of a call moves it alone, and marks it.                       *)
LEMMA CallMoves ==
  ASSUME IndInv, Marks, NEW t \in Task, Begin(t) \/ Complete(t)
  PROVE  Moves(t) /\ Marked(t)'
<1>0. /\ pc \in [Task -> Steps] /\ hop \in [Task -> Nat \ {0}] /\ act \in [Task -> Nat]
      /\ chain \in [Task -> Seq(Route)] /\ Marked(t) /\ now \in Nat
      /\ passed \subseteq Visit /\ sent \subseteq Visit
      /\ hop[t] \in Nat
  BY Typed DEF IndInv, TypeOK, Steps, Marks
<1>1. \A v \in sent : v.hop \in Nat /\ (v.task = t => v.hop <= hop[t])
  BY <1>0 DEF Marks, Visit
<1>2. ASSUME NEW outcome, MoveOn(t, outcome), UNCHANGED <<now, size, chain, act, passed, sent>>
      PROVE  Moves(t) /\ Marked(t)'
  <2>1. /\ pc'[t] = "route" /\ hop'[t] = hop[t] + 1 /\ Others(t)
    BY <1>0, <1>2 DEF MoveOn, Step, Others
  <2>2. \A v \in sent : ~(v.task = t /\ v.hop = hop[t] + 1)
    BY <1>0, <1>1
  <2> QED
    BY <1>2, <2>1, <2>2 DEF Moves, Grows, Marked
<1>3. CASE Begin(t)
  BY <1>0, <1>3 DEF Begin, At, Step, Moves, Others, Grows, Marked, buckets, history
<1>4. CASE Exhausted(t)
  BY <1>0, <1>4 DEF Exhausted, At, Step, Moves, Others, Grows, Marked, buckets, history
<1>5. CASE Missing(t)
  BY <1>2, <1>5 DEF Missing, buckets, history
<1>6. CASE RequestTurn(t)
  <2>1. CASE MoveOn(t, "limited") /\ UNCHANGED <<reqs, act, passed>>
    BY <1>2, <1>6, <2>1 DEF RequestTurn
  <2>2. CASE /\ act' = [act EXCEPT ![t] = ActAt(reqs[Prov(t)], Gap, now)]
             /\ (Step(t, "queued") /\ UNCHANGED passed) \/ Pass(t)
             /\ UNCHANGED <<hop, trace>>
    <3>1. pc[t] = "route" /\ UNCHANGED <<now, size, chain, sent>> /\ hop'[t] = hop[t]
      BY <1>6, <2>2 DEF RequestTurn, OnRoute, At
    <3>2. Others(t) /\ pc'[t] \in {"queued", "tokens"}
      BY <1>0, <2>2, <3>1 DEF Others, Step, Pass
    <3>3. Grows(passed, t) /\ Grows(sent, t)
      BY <2>2, <3>1 DEF Grows, Pass
    <3>4. Prov(t)' = Prov(t)
      BY <2>2, <3>1 DEF Prov, Here
    <3>5. pc'[t] = "tokens" => \E v \in passed' : v.task = t /\ v.hop = hop[t] /\ v.provider = Prov(t)
      BY <1>0, <2>2, PassMarks DEF Step
    <3> QED
      BY <3>1, <3>2, <3>3, <3>4, <3>5, <1>0 DEF Moves, Marked
  <2> QED
    BY <1>6, <2>1, <2>2 DEF RequestTurn
<1>7. CASE Queued(t)
  <2>1. CASE MoveOn(t, "limited") /\ UNCHANGED passed
    BY <1>2, <1>7, <2>1 DEF Queued
  <2>2. CASE Pass(t) /\ UNCHANGED <<hop, trace>>
    <3>1. pc[t] = "queued" /\ UNCHANGED <<now, size, chain, act, sent>> /\ hop'[t] = hop[t]
      BY <1>7, <2>2 DEF Queued, At
    <3>2. Others(t) /\ pc'[t] = "tokens"
      BY <1>0, <2>2, <3>1 DEF Others, Step, Pass
    <3>3. Grows(passed, t) /\ Grows(sent, t)
      BY <2>2, <3>1 DEF Grows, Pass
    <3>4. Prov(t)' = Prov(t)
      BY <2>2, <3>1 DEF Prov, Here
    <3>5. \E v \in passed' : v.task = t /\ v.hop = hop[t] /\ v.provider = Prov(t)
      BY <2>2, PassMarks
    <3> QED
      BY <3>1, <3>2, <3>3, <3>4, <3>5, <1>0 DEF Moves, Marked
  <2> QED
    BY <1>7, <2>1, <2>2 DEF Queued
<1>8. CASE Denied(t)
  BY <1>2, <1>8 DEF Denied, buckets, history
<1>9. CASE TokenTurn(t)
  <2>1. /\ pc[t] = "tokens" /\ UNCHANGED <<now, size, chain, hop, passed>> /\ size[t] <= Burst
        /\ act' = [act EXCEPT ![t] = ActAt(toks[Prov(t)], size[t], now)]
        /\ (Step(t, "held") /\ UNCHANGED sent) \/ Send(t)
    BY <1>9 DEF TokenTurn, At
  <2>2. Others(t) /\ pc'[t] \in {"held", "call"} /\ (pc'[t] = "held" => sent' = sent)
    BY <1>0, <2>1 DEF Others, Step, Send
  <2>3. Grows(passed, t) /\ Grows(sent, t)
    BY <2>1 DEF Grows, Send
  <2>4. Prov(t)' = Prov(t)
    BY <2>1 DEF Prov, Here
  <2>5. now <= act'[t]
    <3>1. Prov(t) \in Limited /\ size[t] \in Nat
      BY <2>1, AtLimited, Typed
    <3>2. Sane(toks[Prov(t)]) /\ act'[t] = ActAt(toks[Prov(t)], size[t], now)
      BY <1>0, <2>1, <3>1, Typed
    <3> QED
      BY <1>0, <3>1, <3>2 DEF Sane, Bucket, ActAt, Delay
  <2> QED
    BY <1>0, <2>1, <2>2, <2>3, <2>4, <2>5 DEF Moves, Marked
<1>10. CASE Held(t)
  <2>1. CASE MoveOn(t, "limited") /\ UNCHANGED sent
    BY <1>2, <1>10, <2>1 DEF Held
  <2>2. CASE Send(t) /\ UNCHANGED <<toks, hop, trace>>
    <3>1. UNCHANGED <<now, size, chain, act, passed>> /\ hop' = hop
      BY <1>10, <2>2 DEF Held
    <3>2. Others(t) /\ pc'[t] = "call"
      BY <1>0, <2>2, <3>1 DEF Others, Step, Send
    <3>3. Grows(passed, t) /\ Grows(sent, t)
      BY <2>2, <3>1 DEF Grows, Send
    <3> QED
      BY <3>1, <3>2, <3>3 DEF Moves, Marked
  <2> QED
    BY <1>10, <2>1, <2>2 DEF Held
<1>11. CASE Call(t)
  <2>1. CASE MoveOn(t, "retryable")
    BY <1>2, <1>11, <2>1 DEF Call, buckets, history
  <2>2. CASE (Step(t, "answered") \/ Step(t, "failed")) /\ UNCHANGED hop
    <3>1. UNCHANGED <<now, size, chain, act, passed, sent, hop>>
      BY <1>11, <2>2 DEF Call, history
    <3>2. Others(t) /\ pc'[t] \in {"answered", "failed"}
      BY <1>0, <2>2, <3>1 DEF Others, Step
    <3> QED
      BY <3>1, <3>2 DEF Moves, Grows, Marked
  <2> QED
    BY <1>11, <2>1, <2>2 DEF Call
<1> QED
  BY <1>3, <1>4, <1>5, <1>6, <1>7, <1>8, <1>9, <1>10, <1>11 DEF Complete

(* Every step keeps the marks.                                              *)
LEMMA MarkStep == IndInv /\ Marks /\ [Next]_vars => Marks'
<1> SUFFICES ASSUME IndInv, Marks, [Next]_vars PROVE Marks'
  OBVIOUS
<1>1. ASSUME NEW t \in Task, Expire(t) PROVE Marks'
  BY <1>1 DEF Expire, buckets, history, Marks, Marked, Prov, Here
<1>2. ASSUME Tick PROVE Marks'
  <2>1. /\ now' = now + 1 /\ now \in Nat /\ UNCHANGED <<size, pc, chain, hop, act, passed, sent>>
        /\ \A t \in Task : pc[t] = "held" => act[t] > now
    BY <1>2, Typed DEF Tick, history
  <2>2. \A v \in sent : v.at \in Nat
    BY DEF IndInv, TypeOK, Visit
  <2>3. \A t \in Task : act[t] \in Nat
    BY Typed
  <2>4. \A v \in sent' : v.hop <= hop'[v.task] /\ v.at <= now'
    BY <2>1, <2>2 DEF Marks
  <2>5. \A t \in Task : Marked(t)'
    BY <2>1, <2>3 DEF Marks, Marked, Prov, Here
  <2> QED
    BY <2>1, <2>4, <2>5 DEF Marks
<1>3. CASE UNCHANGED vars
  BY <1>3 DEF vars, Marks, Marked, Prov, Here
<1>4. ASSUME NEW t \in Task, Begin(t) \/ Complete(t) PROVE Marks'
  BY <1>4, CallMoves, MarksMove
<1> QED
  BY <1>1, <1>2, <1>3, <1>4 DEF Next

(* Who gave up stays so.                                                    *)
LEMMA GaveUpStays ==
  ASSUME IndInv, Marks, NEW t \in Task, Moves(t), Marked(t)'
  PROVE  \A p : /\ GaveUp(p) \subseteq GaveUp(p)' /\ IsFiniteSet(GaveUp(p)')
                /\ Cardinality(GaveUp(p)') <= 1 => Cardinality(GaveUp(p)) <= 1
                /\ GaveUp(p)' = {} => GaveUp(p) = {}
<1> TAKE p
<1>1. /\ hop \in [Task -> Nat \ {0}] /\ passed \subseteq Visit
  BY DEF IndInv, TypeOK
<1>2. \A u \in Task : hop[u] \in Nat /\ hop'[u] \in Nat /\ hop[u] <= hop'[u]
  BY <1>1 DEF Moves, Others
<1>3. /\ passed \subseteq passed' /\ size' = size
      /\ \A v \in sent' : v \in sent \/ (v.task = t /\ v.hop = hop[t])
  BY DEF Moves, Grows
<1>4. GaveUp(p) \subseteq GaveUp(p)'
  <2> SUFFICES ASSUME NEW v \in GaveUp(p) PROVE v \in GaveUp(p)'
    OBVIOUS
  <2>1. /\ v \in passed /\ v.provider = p /\ v.hop < hop[v.task] /\ size[v.task] <= Burst
        /\ ~\E s \in sent : s.task = v.task /\ s.hop = v.hop
    BY DEF GaveUp
  <2>2. v.task \in Task /\ v.hop \in Nat
    BY <1>1, <2>1 DEF Visit
  <2>3. v.hop < hop'[v.task]
    BY <1>2, <2>1, <2>2
  <2>4. \A s \in sent' : ~(s.task = v.task /\ s.hop = v.hop)
    BY <1>1, <1>3, <2>1, <2>2
  <2> QED
    BY <1>3, <2>1, <2>3, <2>4 DEF GaveUp
<1>5. IsFiniteSet(GaveUp(p)')
  <2>1. IsFiniteSet(passed')
    BY MarksMove DEF Marks
  <2>2. GaveUp(p)' \in SUBSET passed'
    BY DEF GaveUp
  <2> QED
    BY <2>1, <2>2, FS_Subset
<1>6. /\ Cardinality(GaveUp(p)) <= Cardinality(GaveUp(p)')
      /\ Cardinality(GaveUp(p)) \in Nat /\ Cardinality(GaveUp(p)') \in Nat
  BY <1>4, <1>5, FS_Subset, FS_CardinalityType
<1> QED
  BY <1>4, <1>5, <1>6

(* What is booked by the calls that a step leaves alone.                    *)
LEMMA LateMoves ==
  ASSUME NEW t \in Task, Others(t)
  PROVE  \A p : \E rest :
           /\ \A v \in rest : v.task # t
           /\ Late(p) = IF pc[t] = "held" /\ Prov(t) = p THEN rest \cup {Booking(t)} ELSE rest
           /\ Late(p)' = IF pc'[t] = "held" /\ Prov(t)' = p THEN rest \cup {Booking(t)'} ELSE rest
<1> TAKE p
<1> DEFINE rest == {Booking(u) : u \in {w \in Task \ {t} : pc[w] = "held" /\ Prov(w) = p}}
<1>1. \A v \in rest : v.task # t
  BY DEF Booking
<1>2. Late(p) = IF pc[t] = "held" /\ Prov(t) = p THEN rest \cup {Booking(t)} ELSE rest
  BY DEF Late
<1>3. \A u \in Task \ {t} : pc'[u] = pc[u] /\ Prov(u)' = Prov(u) /\ Booking(u)' = Booking(u)
  BY DEF Others, Prov, Here, Booking
<1>4. Late(p)' = IF pc'[t] = "held" /\ Prov(t)' = p THEN rest \cup {Booking(t)'} ELSE rest
  BY <1>3 DEF Late
<1> QED
  BY <1>1, <1>2, <1>4

(* A limiter where nothing is booked or given back.                         *)
LEMMA PlannedAside ==
  ASSUME NEW p \in Limited, Planned(p), toks'[p] = toks[p], UNCHANGED <<size, now>>,
         Plan(p)' = Plan(p), Late(p)' = Late(p),
         Cardinality(GaveUp(p)') <= 1 => Cardinality(GaveUp(p)) <= 1,
         GaveUp(p)' = {} => GaveUp(p) = {}
  PROVE  Planned(p)'
<1>1. Cardinality(GaveUp(p)') <= 1 => Booked(toks'[p], size', Plan(p)', now')
  BY DEF Planned
<1>2. GaveUp(p)' = {} => Orderly(toks'[p], size', Plan(p)', Late(p)', now')
  BY DEF Planned
<1> QED
  BY <1>1, <1>2 DEF Planned

(* Steps that touch nothing the budgets are about.                          *)
LEMMA PlannedStays ==
  ASSUME NEW p \in Limited, Planned(p),
         UNCHANGED <<size, now, toks, pc, chain, hop, act, passed, sent>>
  PROVE  Planned(p)'
<1>1. Late(p)' = Late(p) /\ GaveUp(p)' = GaveUp(p)
  BY DEF Late, Booking, GaveUp, Prov, Here
<1>2. Plan(p)' = Plan(p)
  BY <1>1 DEF Plan
<1> QED
  BY <1>1, <1>2, PlannedAside

(* Steps that no bucket of tokens takes part in.                            *)
LEMMA TokensElsewhere ==
  ASSUME IndInv, TokenInv, NEW t \in Task, Moves(t), Marked(t)',
         pc[t] # "held", pc'[t] # "held", UNCHANGED <<toks, sent>>
  PROVE  \A p \in Limited : Planned(p)'
<1> TAKE p \in Limited
<1>1. Late(p)' = Late(p)
  BY LateMoves DEF Moves
<1>2. Plan(p)' = Plan(p)
  BY <1>1 DEF Plan
<1>3. /\ Cardinality(GaveUp(p)') <= 1 => Cardinality(GaveUp(p)) <= 1
      /\ GaveUp(p)' = {} => GaveUp(p) = {}
  BY GaveUpStays DEF TokenInv
<1> QED
  BY <1>1, <1>2, <1>3, PlannedAside DEF TokenInv, Moves

(* The provider a call books with.                                          *)
LEMMA TokenTurnPlans ==
  ASSUME IndInv, TokenInv, NEW t \in Task, TokenTurn(t), Moves(t), Marked(t)'
  PROVE  \A p \in Limited : Planned(p)'
<1>1. PICK p : p = Prov(t)
  OBVIOUS
<1>2. PICK k : k = size[t]
  OBVIOUS
<1>3. /\ pc[t] = "tokens" /\ UNCHANGED <<now, size, chain, hop>> /\ k <= Burst
      /\ toks' = [toks EXCEPT ![p] = Reserve(@, k, now)]
      /\ act' = [act EXCEPT ![t] = ActAt(toks[p], k, now)]
      /\ IF Delay(toks[p].level - k) > 0 THEN Step(t, "held") /\ UNCHANGED sent ELSE Send(t)
  BY <1>1, <1>2 DEF TokenTurn, At
<1>4. /\ p \in Limited /\ now \in Nat /\ Sane(toks[p]) /\ k \in 1..Burst
      /\ pc \in [Task -> Steps] /\ act \in [Task -> Nat] /\ toks \in [Limited -> Bucket]
  <2>1. p \in Limited
    BY <1>1, <1>3, AtLimited
  <2>2. k \in Nat \ {0}
    BY <1>2, Sizing DEF IndInv, TypeOK
  <2> QED
    BY <1>3, <2>1, <2>2, Typed, Sizing DEF IndInv, TypeOK, Steps
<1>5. toks[p].level \in Int
  BY <1>4 DEF Sane, Bucket
<1>6. PICK v : v = [task |-> t, hop |-> hop[t], provider |-> p, at |-> ActAt(toks[p], k, now)]
  OBVIOUS
<1>7. v = Booking(t)' /\ Prov(t)' = p /\ v.task = t /\ v.hop = hop[t] /\ v.provider = p
      /\ v.at = ActAt(toks[p], k, now) /\ size[v.task] = k
  BY <1>1, <1>2, <1>3, <1>4, <1>6 DEF Booking, Prov, Here
<1>8. \A s \in sent : ~(s.task = t /\ s.hop = hop[t])
  BY <1>3 DEF TokenInv, Marks, Marked
<1>9. /\ \A q : Cardinality(GaveUp(q)') <= 1 => Cardinality(GaveUp(q)) <= 1
      /\ \A q : GaveUp(q)' = {} => GaveUp(q) = {}
  BY GaveUpStays DEF TokenInv
<1>10. v \notin Plan(p)
  <2>1. PICK rest : (\A w \in rest : w.task # t) /\ Late(p) = rest
    BY <1>3, LateMoves DEF Moves
  <2> QED
    BY <1>7, <1>8, <2>1 DEF Plan
<1>11. \A s \in sent' \ sent : s.provider = p
  BY <1>1, <1>3 DEF Send
<1>12. ASSUME NEW q \in Limited, q # p
       PROVE  Planned(q)'
  <2>1. Late(q)' = Late(q)
    BY <1>3, <1>7, <1>12, LateMoves DEF Moves
  <2>2. {s \in sent' : s.provider = q} = {s \in sent : s.provider = q}
    BY <1>3, <1>11, <1>12 DEF Send
  <2>3. Plan(q)' = Plan(q)
    BY <2>1, <2>2 DEF Plan
  <2>4. toks'[q] = toks[q]
    BY <1>3, <1>4, <1>12
  <2> QED
    BY <1>3, <1>9, <2>1, <2>3, <2>4, PlannedAside DEF TokenInv
<1>13. toks'[p] = Reserve(toks[p], k, now)
  BY <1>3, <1>4
<1>14. Burst \in Nat
  BY Sizing
<1>15. CASE Delay(toks[p].level - k) > 0
  <2>1. sent' = sent /\ pc'[t] = "held" /\ toks[p].level - k < 0
    BY <1>3, <1>4, <1>5, <1>15 DEF Step, Delay
  <2>2. Late(p)' = Late(p) \cup {v}
    BY <1>3, <1>7, <2>1, LateMoves DEF Moves
  <2>3. Plan(p)' = Plan(p) \cup {v}
    BY <2>1, <2>2 DEF Plan
  <2>4. ASSUME Cardinality(GaveUp(p)') <= 1
        PROVE  Booked(toks'[p], size', Plan(p)', now')
    <3>1. Booked(toks[p], size, Plan(p), now)
      BY <1>4, <1>9, <2>4 DEF TokenInv, Planned
    <3>2. Booked(Reserve(toks[p], size[v.task], now), size, Plan(p) \cup {v}, now)
      BY <1>4, <1>7, <1>10, <1>14, <3>1, Book
    <3> QED
      BY <1>3, <1>7, <1>13, <2>3, <3>2
  <2>5. ASSUME GaveUp(p)' = {}
        PROVE  Orderly(toks'[p], size', Plan(p)', Late(p)', now')
    <3>1. Booked(toks[p], size, Plan(p), now) /\ Orderly(toks[p], size, Plan(p), Late(p), now)
      BY <1>4, <1>9, <2>5, FS_EmptySet DEF TokenInv, Planned
    <3>2. Orderly(Reserve(toks[p], size[v.task], now), size, Plan(p) \cup {v}, Late(p) \cup {v}, now)
      BY <1>4, <1>7, <1>10, <1>14, <2>1, <3>1, BookLater
    <3> QED
      BY <1>3, <1>7, <1>13, <2>2, <2>3, <3>2
  <2> QED
    BY <1>12, <2>4, <2>5 DEF Planned
<1>16. CASE ~(Delay(toks[p].level - k) > 0)
  <2>1. /\ toks[p].level - k >= 0 /\ v.at = now /\ pc'[t] = "call"
        /\ sent' = sent \cup {v}
    BY <1>1, <1>3, <1>4, <1>5, <1>6, <1>16 DEF Step, Delay, ActAt, Send
  <2>2. Late(p)' = Late(p)
    BY <1>3, <2>1, LateMoves DEF Moves
  <2>3. Plan(p)' = Plan(p) \cup {v}
    BY <1>7, <2>1, <2>2 DEF Plan
  <2>4. ASSUME Cardinality(GaveUp(p)') <= 1
        PROVE  Booked(toks'[p], size', Plan(p)', now')
    <3>1. Booked(toks[p], size, Plan(p), now)
      BY <1>4, <1>9, <2>4 DEF TokenInv, Planned
    <3>2. Booked(Reserve(toks[p], size[v.task], now), size, Plan(p) \cup {v}, now)
      BY <1>4, <1>7, <1>10, <1>14, <3>1, Book
    <3> QED
      BY <1>3, <1>7, <1>13, <2>3, <3>2
  <2>5. ASSUME GaveUp(p)' = {}
        PROVE  Orderly(toks'[p], size', Plan(p)', Late(p)', now')
    <3>1. Booked(toks[p], size, Plan(p), now) /\ Orderly(toks[p], size, Plan(p), Late(p), now)
      BY <1>4, <1>9, <2>5, FS_EmptySet DEF TokenInv, Planned
    <3>2. Orderly(Reserve(toks[p], size[v.task], now), size, Plan(p) \cup {v}, Late(p), now)
      BY <1>4, <1>7, <1>14, <2>1, <3>1, BookNow
    <3> QED
      BY <1>3, <1>7, <1>13, <2>2, <2>3, <3>2
  <2> QED
    BY <1>12, <2>4, <2>5 DEF Planned
<1> QED
  BY <1>15, <1>16

(* A call that is held is sent when it said, or is the next to give up.     *)
LEMMA HeldPlans ==
  ASSUME IndInv, TokenInv, NEW t \in Task, Held(t), Moves(t), Marked(t)'
  PROVE  \A p \in Limited : Planned(p)'
<1>1. PICK p : p = Prov(t)
  OBVIOUS
<1>2. /\ pc[t] = "held" /\ UNCHANGED <<now, size, chain, act, passed>>
      /\ \/ act[t] <= now /\ Send(t) /\ UNCHANGED <<toks, hop, trace>>
         \/ /\ toks' = [toks EXCEPT ![p] = Cancel(@, size[t], act[t], now)]
            /\ MoveOn(t, "limited") /\ UNCHANGED sent
  BY <1>1 DEF Held, At
<1>3. /\ p \in Limited /\ now \in Nat /\ act[t] \in Nat /\ hop[t] \in Nat
      /\ pc \in [Task -> Steps] /\ toks \in [Limited -> Bucket] /\ hop \in [Task -> Nat \ {0}]
      /\ Burst \in Nat
  BY <1>1, <1>2, AtLimited, Typed, Sizing DEF IndInv, TypeOK, Steps
<1>4. /\ now <= act[t] /\ size[t] <= Burst
      /\ \A s \in sent : ~(s.task = t /\ s.hop = hop[t])
      /\ \E w \in passed : w.task = t /\ w.hop = hop[t] /\ w.provider = p
  BY <1>1, <1>2 DEF TokenInv, Marks, Marked
<1>5. PICK v : v = Booking(t)
  OBVIOUS
<1>6. v.task = t /\ v.hop = hop[t] /\ v.provider = p /\ v.at = act[t]
  BY <1>1, <1>5 DEF Booking
<1>7. pc'[t] # "held"
  BY <1>2, <1>3 DEF MoveOn, Send, Step
<1>8. v \in Late(p) /\ Late(p)' = Late(p) \ {v}
  <2>1. PICK rest : /\ \A w \in rest : w.task # t
                    /\ Late(p) = IF pc[t] = "held" /\ Prov(t) = p THEN rest \cup {Booking(t)} ELSE rest
                    /\ Late(p)' = IF pc'[t] = "held" /\ Prov(t)' = p THEN rest \cup {Booking(t)'} ELSE rest
    BY LateMoves DEF Moves
  <2>2. Late(p) = rest \cup {v} /\ Late(p)' = rest /\ v \notin rest
    BY <1>1, <1>2, <1>5, <1>6, <1>7, <2>1
  <2> QED
    BY <2>2
<1>9. \A q : q # p => Late(q)' = Late(q)
  BY <1>1, <1>7, LateMoves DEF Moves
<1>10. /\ \A q : Cardinality(GaveUp(q)') <= 1 => Cardinality(GaveUp(q)) <= 1
       /\ \A q : GaveUp(q)' = {} => GaveUp(q) = {}
  BY GaveUpStays DEF TokenInv
<1>11. CASE act[t] <= now /\ Send(t) /\ UNCHANGED <<toks, hop, trace>>
  <2>1. v.at = now /\ sent' = sent \cup {v}
    BY <1>1, <1>3, <1>4, <1>5, <1>6, <1>11 DEF Send, Booking
  <2>2. ASSUME NEW q \in Limited, q # p PROVE Planned(q)'
    <3>1. Plan(q)' = Plan(q)
      BY <1>6, <1>9, <2>1, <2>2 DEF Plan
    <3> QED
      BY <1>2, <1>9, <1>10, <1>11, <2>2, <3>1, PlannedAside DEF TokenInv
  <2>3. Plan(p)' = Plan(p)
    BY <1>6, <1>8, <2>1 DEF Plan
  <2>4. Cardinality(GaveUp(p)') <= 1 => Booked(toks'[p], size', Plan(p)', now')
    BY <1>2, <1>3, <1>10, <1>11, <2>3 DEF TokenInv, Planned
  <2>5. ASSUME GaveUp(p)' = {}
        PROVE  Orderly(toks'[p], size', Plan(p)', Late(p)', now')
    <3>1. Orderly(toks[p], size, Plan(p), Late(p), now)
      BY <1>3, <1>10, <2>5 DEF TokenInv, Planned
    <3>2. Orderly(toks[p], size, Plan(p), Late(p) \ {v}, now)
      BY <1>3, <1>8, <2>1, <3>1, BookedTurn
    <3> QED
      BY <1>2, <1>8, <1>11, <2>3, <3>2
  <2> QED
    BY <2>2, <2>4, <2>5 DEF Planned
<1>12. CASE /\ toks' = [toks EXCEPT ![p] = Cancel(@, size[t], act[t], now)]
            /\ MoveOn(t, "limited") /\ UNCHANGED sent
  <2>1. ASSUME NEW q \in Limited, q # p PROVE Planned(q)'
    <3>1. Plan(q)' = Plan(q) /\ toks'[q] = toks[q]
      BY <1>3, <1>9, <1>12, <2>1 DEF Plan
    <3> QED
      BY <1>2, <1>9, <1>10, <2>1, <3>1, PlannedAside DEF TokenInv
  <2>2. PICK w \in GaveUp(p)' : w \notin GaveUp(p)
    <3>1. PICK w \in passed : w.task = t /\ w.hop = hop[t] /\ w.provider = p
      BY <1>4
    <3>2. hop'[t] = hop[t] + 1
      BY <1>3, <1>12 DEF MoveOn
    <3>3. w.hop < hop'[w.task]
      BY <1>3, <3>1, <3>2
    <3>4. w \in GaveUp(p)'
      BY <1>2, <1>4, <1>12, <3>1, <3>3 DEF GaveUp
    <3>5. w \notin GaveUp(p)
      BY <1>3, <3>1 DEF GaveUp
    <3> QED
      BY <3>4, <3>5
  <2>3. ASSUME Cardinality(GaveUp(p)') <= 1
        PROVE  GaveUp(p) = {}
    <3>1. GaveUp(p) \subseteq GaveUp(p)' \ {w} /\ IsFiniteSet(GaveUp(p)')
      BY <2>2, GaveUpStays DEF TokenInv
    <3>2. /\ IsFiniteSet(GaveUp(p)' \ {w})
          /\ Cardinality(GaveUp(p)' \ {w}) = Cardinality(GaveUp(p)') - 1
      BY <2>2, <3>1, FS_RemoveElement
    <3>3. Cardinality(GaveUp(p)' \ {w}) \in Nat /\ Cardinality(GaveUp(p)') \in Nat
      BY <3>1, <3>2, FS_CardinalityType
    <3>4. Cardinality(GaveUp(p)' \ {w}) = 0
      BY <2>3, <3>2, <3>3
    <3>5. GaveUp(p)' \ {w} = {}
      BY <3>2, <3>4, FS_EmptySet
    <3> QED
      BY <3>1, <3>5
  <2>4. Plan(p)' = Plan(p) \ {v}
    <3>1. v \notin sent
      BY <1>4, <1>6
    <3> QED
      BY <1>8, <1>12, <3>1 DEF Plan
  <2>5. toks'[p] = Cancel(toks[p], size[v.task], v.at, now)
    BY <1>3, <1>6, <1>12
  <2>6. ASSUME Cardinality(GaveUp(p)') <= 1
        PROVE  Booked(toks'[p], size', Plan(p)', now')
    <3>1. Booked(toks[p], size, Plan(p), now) /\ Orderly(toks[p], size, Plan(p), Late(p), now)
      BY <1>3, <1>10, <2>3, <2>6 DEF TokenInv, Planned
    <3>2. Booked(Cancel(toks[p], size[v.task], v.at, now), size, Plan(p) \ {v}, now)
      BY <1>3, <1>8, <3>1, Unbook
    <3> QED
      BY <1>2, <2>4, <2>5, <3>2
  <2>7. GaveUp(p)' # {}
    BY <2>2
  <2> QED
    BY <2>1, <2>6, <2>7 DEF Planned
<1> QED
  BY <1>2, <1>11, <1>12

(* Time refills every token bucket and sends nobody who is due.             *)
LEMMA TickPlans ==
  ASSUME IndInv, TokenInv, Tick
  PROVE  \A p \in Limited : Planned(p)'
<1> TAKE p \in Limited
<1>1. /\ now' = now + 1 /\ UNCHANGED <<size, pc, chain, hop, act, passed, sent>>
      /\ toks'[p] = Refill(toks[p])
      /\ \A t \in Task : pc[t] \in {"queued", "held"} => act[t] > now
  BY DEF Tick, history
<1>2. now \in Nat /\ Burst \in Nat \ {0} /\ Burst \in Nat
  BY Typed, Sizing
<1>3. Late(p)' = Late(p) /\ Plan(p)' = Plan(p) /\ GaveUp(p)' = GaveUp(p)
  BY <1>1 DEF Late, Plan, Booking, GaveUp, Prov, Here
<1>4. \A v \in Late(p) : v.at > now
  BY <1>1 DEF Late, Booking
<1>5. ASSUME Cardinality(GaveUp(p)') <= 1
      PROVE  Booked(toks'[p], size', Plan(p)', now')
  <2>1. Booked(toks[p], size, Plan(p), now)
    BY <1>3, <1>5 DEF TokenInv, Planned
  <2>2. Booked(Refill(toks[p]), size, Plan(p), now + 1)
    BY <1>2, <2>1, BookedTick
  <2> QED
    BY <1>1, <1>3, <2>2
<1>6. ASSUME GaveUp(p)' = {}
      PROVE  Orderly(toks'[p], size', Plan(p)', Late(p)', now')
  <2>1. Booked(toks[p], size, Plan(p), now) /\ Orderly(toks[p], size, Plan(p), Late(p), now)
    <3>1. GaveUp(p) = {} /\ Cardinality(GaveUp(p)) <= 1
      BY <1>3, <1>6, FS_EmptySet
    <3> QED
      BY <3>1 DEF TokenInv, Planned
  <2>2. Orderly(Refill(toks[p]), size, Plan(p), Late(p), now + 1)
    BY <1>2, <1>4, <2>1, OrderlyTick
  <2> QED
    BY <1>1, <1>3, <2>2
<1> QED
  BY <1>5, <1>6 DEF Planned

(* Every step keeps the token buckets in order.                             *)
LEMMA TokenStep == IndInv /\ TokenInv /\ [Next]_vars => TokenInv'
<1> SUFFICES ASSUME IndInv, TokenInv, [Next]_vars PROVE TokenInv'
  OBVIOUS
<1>0. Marks'
  BY MarkStep DEF TokenInv
<1>1. ASSUME NEW t \in Task, Expire(t) PROVE \A p \in Limited : Planned(p)'
  <2>1. UNCHANGED <<size, now, toks, pc, chain, hop, act, passed, sent>>
    BY <1>1 DEF Expire, buckets, history
  <2> QED
    BY <2>1, PlannedStays DEF TokenInv
<1>2. CASE UNCHANGED vars
  <2>1. UNCHANGED <<size, now, toks, pc, chain, hop, act, passed, sent>>
    BY <1>2 DEF vars
  <2>2. \A p \in Limited : Planned(p)'
    BY <2>1, PlannedStays DEF TokenInv
  <2> QED
    BY <1>0, <2>2 DEF TokenInv
<1>3. ASSUME NEW t \in Task, Begin(t) \/ Complete(t) PROVE \A p \in Limited : Planned(p)'
  <2>1. Moves(t) /\ Marked(t)'
    BY <1>3, CallMoves DEF TokenInv
  <2>2. CASE TokenTurn(t)
    BY <2>1, <2>2, TokenTurnPlans
  <2>3. CASE Held(t)
    BY <2>1, <2>3, HeldPlans
  <2>4. CASE \/ Begin(t) \/ Exhausted(t) \/ Missing(t) \/ RequestTurn(t) \/ Queued(t)
             \/ Denied(t) \/ Call(t)
    <3>1. UNCHANGED <<toks, sent>> /\ pc[t] # "held"
      BY <2>4 DEF Begin, Exhausted, Missing, RequestTurn, Queued, Denied, Call, OnRoute, At,
                  buckets, history
    <3>2. pc'[t] # "held"
      BY <2>4 DEF Begin, Exhausted, Missing, RequestTurn, Queued, Denied, Call, MoveOn, Step, Pass,
                  IndInv, TypeOK
    <3> QED
      BY <2>1, <3>1, <3>2, TokensElsewhere
  <2> QED
    BY <1>3, <2>2, <2>3, <2>4 DEF Complete
<1> QED
  BY <1>0, <1>1, <1>2, <1>3, TickPlans DEF Next, TokenInv

(* At first nothing is booked with anyone.                                  *)
LEMMA TokenInit == Init => TokenInv
<1> SUFFICES ASSUME Init PROVE TokenInv
  OBVIOUS
<1>1. Marks
  BY FS_EmptySet DEF Init, Marks, Marked
<1>2. ASSUME NEW p \in Limited PROVE Planned(p)
  <2>1. toks[p] = Full /\ now = 0 /\ Plan(p) = {} /\ Late(p) = {}
    BY DEF Init, Plan, Late
  <2>2. Booked(Full, size, {}, 0) /\ Orderly(Full, size, {}, {}, 0)
    BY Sizing, Unbooked
  <2> QED
    BY <2>1, <2>2 DEF Planned
<1> QED
  BY <1>1, <1>2 DEF TokenInv

-----------------------------------------------------------------------------
(* Theorems.                                                                *)

(* At first the buckets are full and no call has begun.                     *)
LEMMA RouterInit == Init => IndInv
<1> SUFFICES ASSUME Init PROVE IndInv
  OBVIOUS
<1>1. Full \in Bucket /\ Full.level <= Burst /\ 0 \in 0..MaxTime
  BY SaneFull, Sizing DEF Sane
<1>2. TypeOK
  <2>1. reqs \in [Limited -> Bucket] /\ toks \in [Limited -> Bucket]
    BY <1>1 DEF Init
  <2>2. \A p \in Limited : reqs[p].level <= Burst /\ toks[p].level <= Burst
    BY <1>1 DEF Init
  <2>3. chain \in [Task -> Seq(Route)]
    BY DEF Init
  <2> QED
    BY <1>1, <2>1, <2>2, <2>3 DEF Init, TypeOK
<1>3. Walks
  <2>1. trace \in [Task -> Seq(Tried)]
    BY DEF Init
  <2>2. Walking("idle", <<>>, 1, <<>>)
    BY DEF Walking, IsInjective, Ended
  <2>3. \A t \in Task : pc[t] = "idle" /\ chain[t] = <<>> /\ hop[t] = 1 /\ trace[t] = <<>>
    BY DEF Init
  <2> QED
    BY <2>1, <2>2, <2>3 DEF Walks
<1>4. ASSUME NEW p \in Limited
      PROVE  Sound(reqs[p], Gap, Queue(p), act, Passed(p), now)
  <2>1. Queue(p) = {} /\ Passed(p) = {} /\ reqs[p] = Full /\ now = 0
    BY DEF Init, Queue, Passed
  <2>2. Sound(Full, Gap, {}, act, {}, 0)
    BY GapFits, Unused
  <2> QED
    BY <2>1, <2>2, Zenon
<1> QED
  BY <1>2, <1>3, <1>4 DEF IndInv, Budgets

(* In every reachable state the types hold, calls are on their way through  *)
(* their chains, and the request buckets are within what they were given.   *)
THEOREM RouterInductive == Spec => []IndInv
<1>1. IndInv /\ [Next]_vars => IndInv'
  BY TypeStep, WalkStep, BudgetStep DEF IndInv
<1> QED
  BY RouterInit, <1>1, PTL DEF Spec

(* Every variable keeps to its kind of value, and no bucket ever holds more *)
(* than a minute's worth (rate_limiter.go).                                 *)
THEOREM RouterTypes == Spec => []TypeOK
<1>1. IndInv => TypeOK
  BY DEF IndInv
<1> QED
  BY RouterInductive, <1>1, PTL

(* Whatever the routing, the calls and the outcomes, Complete takes the     *)
(* routes of its chain in order and none twice, and ends only for a reason  *)
(* (router.go 39-80).                                                       *)
THEOREM Fallback == Spec => []FallbackInOrder
<1>1. IndInv => FallbackInOrder
  <2> SUFFICES ASSUME IndInv, NEW t \in Task
               PROVE  LET done == trace[t]
                          last == done[Len(done)].outcome
                      IN  /\ \A i \in DOMAIN done : done[i].route = chain[t][i]
                          /\ IsInjective([i \in DOMAIN done |-> done[i].route])
                          /\ \A i \in 1..(Len(done) - 1) : done[i].outcome \in {"missing", "limited", "retryable"}
                          /\ At(t, "answered") <=> done # <<>> /\ last = "ok"
                          /\ At(t, "failed") => last = "final" \/ Len(done) = Len(chain[t])
    BY DEF FallbackInOrder
  <2> DEFINE done == trace[t]
             last == done[Len(done)].outcome
  <2>1. /\ done \in Seq(Tried) /\ chain[t] \in Seq(Route) /\ Walking(pc[t], chain[t], hop[t], done)
        /\ pc[t] \in Steps
    BY Typed
  <2> HIDE DEF done
  <2>2. \A i \in DOMAIN done : done[i].route = chain[t][i]
    BY <2>1 DEF Walking
  <2>3. IsInjective([i \in DOMAIN done |-> done[i].route])
    BY <2>1, <2>2 DEF Walking, IsInjective
  <2>4. \A i \in 1..(Len(done) - 1) : done[i].outcome \in {"missing", "limited", "retryable"}
    BY <2>1 DEF Walking, Passing
  <2>5. At(t, "answered") => done # <<>> /\ last = "ok"
    BY <2>1 DEF Walking, At
  <2>6. At(t, "failed") => last = "final" \/ Len(done) = Len(chain[t])
    BY <2>1 DEF Walking, At
  <2>7. ASSUME done # <<>>, last = "ok" PROVE At(t, "answered")
    <3>1. Len(done) \in 1..Len(done)
      BY <2>1, <2>7
    <3>2. last \notin Passing /\ last # "final"
      BY <2>7 DEF Passing
    <3> QED
      BY <2>1, <2>7, <3>1, <3>2 DEF Walking, At, Ended
  <2> QED
    BY <2>2, <2>3, <2>4, <2>5, <2>6, <2>7 DEF done
<1> QED
  BY RouterInductive, <1>1, PTL

(* For any number of calls, however many give up waiting: the requests that *)
(* pass the bucket of a provider in any span of time are no more than a     *)
(* minute's worth and what the span refills (rate_limiter.go 33-35).        *)
THEOREM Requests == Spec => []RequestBudget
<1>1. IndInv => RequestBudget
  <2> SUFFICES ASSUME IndInv, NEW u \in passed, NEW w \in passed,
                      u.provider = w.provider, u.at <= w.at
               PROVE  Gap * Cardinality(Span(passed, u, w)) <= Burst + (w.at - u.at)
    BY DEF RequestBudget
  <2>1. /\ passed \subseteq Visit /\ u \in Visit /\ w \in Visit
    BY DEF IndInv, TypeOK
  <2>2. PICK p \in Limited : p = u.provider
    BY <2>1 DEF Visit
  <2>3. Sound(reqs[p], Gap, Queue(p), act, Passed(p), now) /\ now \in Nat
    BY Typed DEF IndInv, Budgets
  <2>4. u \in Passed(p) /\ w \in Passed(p)
    BY <2>2 DEF Passed
  <2>5. u.at \in 0..now /\ w.at \in 0..now
    BY <2>3, <2>4 DEF Sound, Kept
  <2>6. Weight(Gap, Seen(Passed(p), u.at, w.at)) <= Burst + w.at - u.at
    BY <2>3, <2>5 DEF Sound, Kept
  <2>7. \A v \in passed : v.at \in u.at..w.at <=> u.at <= v.at /\ v.at <= w.at
    BY <2>1, <2>5 DEF Visit
  <2>8. Span(passed, u, w) = Seen(Passed(p), u.at, w.at)
    BY <2>2, <2>7 DEF Span, Seen, Passed
  <2>9. Gap * Cardinality(Span(passed, u, w)) = Weight(Gap, Seen(Passed(p), u.at, w.at))
    BY <2>8, Zenon DEF Weight
  <2>10. Burst + w.at - u.at = Burst + (w.at - u.at)
    BY <2>5, Sizing
  <2> QED
    BY <2>6, <2>9, <2>10
<1> QED
  BY RouterInductive, <1>1, PTL

(* In every reachable state what was sent and what is held is within what   *)
(* the token buckets were given, until two calls have given up.             *)
THEOREM TokensInductive == Spec => []TokenInv
<1>1. IndInv /\ TokenInv /\ [Next]_vars => TokenInv'
  BY TokenStep
<1> QED
  BY RouterInductive, TokenInit, <1>1, PTL DEF Spec

(* For any number of calls of any sizes: the requests let through to a      *)
(* provider in any span of time add up to no more tokens than its bucket    *)
(* holds plus what the span refills, as long as at most one call has given  *)
(* up waiting there (rate_limiter.go 36-52).                                *)
THEOREM TokensKept == Spec => []TokenBudget
<1>1. IndInv /\ TokenInv => TokenBudget
  <2> SUFFICES ASSUME IndInv, TokenInv, NEW u \in sent, NEW w \in sent,
                      u.provider = w.provider, u.at <= w.at,
                      Cardinality(GaveUp(u.provider)) <= 1
               PROVE  Cardinality(Tokens(Span(sent, u, w))) <= Burst + (w.at - u.at)
    BY DEF TokenBudget
  <2>1. sent \subseteq Visit /\ u \in Visit /\ w \in Visit
    BY DEF IndInv, TypeOK
  <2>2. PICK p \in Limited : p = u.provider
    BY <2>1 DEF Visit
  <2>3. Booked(toks[p], size, Plan(p), now) /\ Burst \in Nat
    BY <2>2, Sizing DEF TokenInv, Planned
  <2>4. u.at \in Nat /\ w.at \in Nat
    BY <2>1 DEF Visit
  <2>5. Taken(size, Seen(Plan(p), u.at, w.at)) <= Burst + w.at - u.at
    BY <2>3, <2>4 DEF Booked
  <2>6. Span(sent, u, w) \in SUBSET Seen(Plan(p), u.at, w.at)
    BY <2>1, <2>2, <2>4 DEF Span, Seen, Plan, Visit
  <2>7. IsFiniteSet(Seen(Plan(p), u.at, w.at))
    BY <2>3, PlanWeighs DEF Booked, Bookable
  <2>8. /\ Taken(size, Span(sent, u, w)) <= Taken(size, Seen(Plan(p), u.at, w.at))
        /\ Taken(size, Span(sent, u, w)) \in Nat
        /\ Taken(size, Seen(Plan(p), u.at, w.at)) \in Nat
    BY <2>3, <2>6, <2>7, TakenByPart
  <2>9. Cardinality(Tokens(Span(sent, u, w))) = Taken(size, Span(sent, u, w))
    BY DEF Tokens, Taken, Units
  <2> QED
    BY <2>3, <2>4, <2>5, <2>8, <2>9
<1> QED
  BY RouterInductive, TokensInductive, <1>1, PTL

=============================================================================
