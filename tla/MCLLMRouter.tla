---------------------------- MODULE MCLLMRouter ----------------------------
(* Instances of LLMRouter for TLC.                                          *)
EXTENDS LLMRouter

CONSTANTS t1, t2

MCTaskType == [t \in Task |-> IF t = t1 THEN "analysis" ELSE "default"]

(* Two calls the token bucket can serve one after the other, or one beside  *)
(* a call that is larger than the bucket.                                   *)
MCSizes == {t1 :> 3 @@ t2 :> 2, t1 :> 3 @@ t2 :> 5}

R(p, m) == [provider |-> p, model |-> m]

Routing(task, analysis, default, rest) ==
  [tasks  |-> "analysis" :> task @@ "default" :> NoRoute,
   byTask |-> "analysis" :> analysis @@ "default" :> default,
   chain  |-> rest]

(* Nothing configured; every source of routes at once, with a route written *)
(* twice; and chains with an empty, a slashless and an unknown route.       *)
MCRoutings ==
  {Routing(NoRoute, NoRoute, NoRoute, <<>>),
   Routing(R("b", "x"), R("a", "x"), R("a", ""), <<R("a", "bare")>>),
   Routing(NoRoute, NoRoute, R("a", "x"), <<R("a", "bare"), R("a", "")>>),
   Routing(NoRoute, R("z", "x"), NoRoute, <<NoRoute, R("a", "x"), R("b", "bare"), R("a", "x")>>)}

=============================================================================
