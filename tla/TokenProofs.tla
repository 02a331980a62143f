---------------------------- MODULE TokenProofs ----------------------------
(***************************************************************************)
(* Theorems about TokenCache, for any clients, calls, lifetimes and bounds. *)
(***************************************************************************)
EXTENDS TokenCache, NaturalSets, SequenceTheorems, FiniteSetTheorems, TLAPS

-----------------------------------------------------------------------------
(* What every state keeps to.                                               *)

Places == {"idle", "sdk", "token", "fetch", "send", "peeked", "sent", "backoff",
           "refused", "retoken", "refetch"} \cup Ended

(* Where a call has a token at hand, or at "graph" had one.                 *)
Using == {"send", "peeked", "sent", "backoff", "refused", "retoken", "refetch"}

(* Where that token has not been refused.                                   *)
Armed == {"send", "sent", "backoff"}

Operation == UNION {OpsOf(k) : k \in {"azure", "graph", "custom", "codex"}}

Handed == 1..Len(exp)

Local == [op : Operation, step : Nat, attempt : Nat, body : {"whole", "sent", "spent"},
          token : Nat \cup {None, Junk}, at : Nat, refused : Nat \cup {None, Junk}]

History == [refused : Nat, expiries : Seq(Nat), unstated : SUBSET Nat,
            denied : BOOLEAN, lost : BOOLEAN, restarted : BOOLEAN]

Shape ==
  /\ kind \in Kinds
  /\ now \in 0..Bound[kind].time
  /\ exp \in Seq(Nat) /\ late \in Seq(Nat)
  /\ file \in [token : Nat \cup {None}, until : Nat]
  /\ cache \in [token : Nat \cup {None}, until : Nat]
  /\ mu \in Call \cup {None}
  /\ rt \in [server : Nat \ {0}, client : Nat \ {0}]
  /\ pc \in [Call -> Places]
  /\ loc \in [Call -> Local]
  /\ up \in BOOLEAN
  /\ hist \in History

(* The refresh token: the client's and the server's part only when an       *)
(* answer is lost or the file's is read again.                              *)
RefreshInv ==
  /\ {rt.server, rt.client} \subseteq 1..(Bound[kind].tokens + 1)
  /\ rt.client = rt.server => rt.server <= Len(exp) + 1 \/ kind # "codex"
  /\ rt.client # rt.server \/ hist.denied => hist.lost \/ hist.restarted

(* A token that comes through an HTTP client with a timeout is no later     *)
(* than that, and the one of the file is the first there is.                *)
LateInv ==
  /\ Len(late) = Len(exp)
  /\ kind # "azure" => \A i \in Handed : late[i] <= Patience
  /\ file.token # None => file.token = 1 /\ exp # <<>> /\ file.until <= exp[1] + late[1]

(* The cached token is the last one got, with the expiry got with it.  None *)
(* is asked for while it is fresh, and a torn read needs a refusal.         *)
CacheInv ==
  /\ Len(exp) <= Bound[kind].tokens /\ revoked \subseteq Handed
  /\ cache.token \in {None} \cup Handed
  /\ cache.token # None =>
       /\ hist.expiries # <<>> /\ cache.until = hist.expiries[Len(hist.expiries)]
       /\ \/ kind = "graph"
          \/ cache.until <= exp[cache.token] + late[cache.token]
          \/ cache.token \in hist.unstated
  /\ mu # None => ~Fresh
  /\ ~up => kind = "graph" /\ hist.refused > 0

(* One call's place in the protocol.                                        *)
CallInv(c) ==
  /\ loc[c].token \in {None, Junk} \cup Handed
  /\ loc[c].refused \in {None, Junk} \cup Handed
  /\ loc[c].attempt <= Attempts
  /\ pc[c] \in {"token", "fetch", "send", "peeked"} => loc[c].attempt < Attempts
  /\ pc[c] \in {"fetch", "refetch"} <=> mu = c
  /\ pc[c] = "refused" => hist.refused > 0
  /\ kind # "graph" /\ pc[c] \in Using => loc[c].token \in Handed
  /\ kind # "graph" /\ pc[c] \in Armed =>
       \/ loc[c].at + Skew < exp[loc[c].token] + late[loc[c].token]
       \/ loc[c].token \in hist.unstated
  /\ kind = "graph" =>
       /\ pc[c] \in Using => cache.token # None \/ hist.refused > 0
       /\ pc[c] \in {"peeked", "sent"} => loc[c].token # None \/ hist.refused > 0
       /\ pc[c] = "peeked" => loc[c].token # Junk
       /\ pc[c] # "refused" /\ loc[c].refused \in Handed => cache.token # loc[c].refused
       /\ pc[c] = "peeked" /\ loc[c].refused \in Handed => loc[c].token # loc[c].refused

(* The expiries still to come, and the calls about to throw a token away.   *)
Ahead == {i \in DOMAIN hist.expiries : now + Skew < hist.expiries[i]}
Refusing == {c \in Call : pc[c] = "refused"}

(* Every token that is still good for a while is the cached one, or was     *)
(* thrown away for a refusal of its own.                                    *)
CountInv ==
  /\ IsFiniteSet(Refusing)
  /\ Cardinality(Ahead) + Cardinality(Refusing) <= hist.refused + (IF Fresh THEN 1 ELSE 0)

TokenInv ==
  /\ Shape /\ RefreshInv /\ LateInv /\ CacheInv /\ CountInv
  /\ \A c \in Call : CallInv(c)

-----------------------------------------------------------------------------
(* Constants.                                                               *)

(* Attempts and spans of time are numbers, and a lifetime is longer than    *)
(* the skew.                                                                *)
LEMMA Amounts ==
  /\ Attempts \in Nat \ {0} /\ Skew \in Nat \ {0} /\ Fallback \in Nat /\ Patience \in Nat
  /\ \A s \in Saved : s.left \in Nat /\ s.late \in Nat /\ s.late <= Patience
  /\ \A life \in Lives : life \in Nat /\ life > Skew
  BY TokenAssumption

(* What stands for no token, a torn one or the end of the process is no     *)
(* token.                                                                   *)
LEMMA Strangers ==
  /\ None \notin Nat /\ None \notin Call /\ Junk \notin Nat /\ Junk # None
  /\ Crash \notin Nat /\ Crash # None /\ Crash # Junk
  BY TokenAssumption

(* The bounds of a client are numbers.                                      *)
LEMMA Bounded ==
  ASSUME NEW k \in Kinds
  PROVE  /\ k \in {"azure", "graph", "custom", "codex"}
         /\ Bound[k].time \in Nat /\ Bound[k].tokens \in Nat \ {0}
<1>1. k \in {"azure", "graph", "custom", "codex"}
  BY TokenAssumption
<1>2. Bound[k] \in [time : Nat, tokens : Nat \ {0}, gone : Nat]
  BY <1>1, TokenAssumption
<1> QED
  BY <1>1, <1>2

(* What an operation asks for is a sequence of requests.                    *)
LEMMA Asked ==
  ASSUME NEW k \in Kinds
  PROVE  OpsOf(k) \subseteq Operation
<1>1. k \in {"azure", "graph", "custom", "codex"}
  BY Bounded
<1> QED
  BY <1>1 DEF Operation

(* The completion of the Codex client is an operation.                      *)
LEMMA CompleteAsked == Complete \in Operation
<1>1. Complete \in OpsOf("codex")
  BY DEF OpsOf
<1> QED
  BY <1>1 DEF Operation

(* What a call has before it begins.                                        *)
LEMMA LocalsFit ==
  /\ Locals \in Local /\ Locals.token = None /\ Locals.refused = None
  /\ Locals.attempt = 0
  BY CompleteAsked DEF Locals, Local

-----------------------------------------------------------------------------
(* Moves of one call.                                                       *)

Moves(c) ==
  /\ pc' \in [Call -> Places] /\ loc' \in [Call -> Local]
  /\ \A d \in Call \ {c} : pc'[d] = pc[d] /\ loc'[d] = loc[d]

(* A call that ended, or is at the start of a request.                      *)
Settled(c) ==
  /\ Moves(c)
  /\ pc'[c] \in {"sdk", "token"} \cup Ended
  /\ loc'[c].token = None /\ loc'[c].refused = None /\ loc'[c].attempt = 0

(* Goto moves one call.                                                     *)
LEMMA GotoMoves ==
  ASSUME Shape, NEW c \in Call, NEW p \in Places, Goto(c, p)
  PROVE  /\ pc' \in [Call -> Places] /\ pc'[c] = p
         /\ \A d \in Call \ {c} : pc'[d] = pc[d]
  BY DEF Shape, Goto

(* A call that returns keeps nothing.                                       *)
LEMMA ReturnSettles ==
  ASSUME Shape, NEW c \in Call, NEW how \in Ended, Return(c, how)
  PROVE  Settled(c) /\ pc'[c] = how
<1>1. /\ pc' \in [Call -> Places] /\ pc'[c] = how
      /\ \A d \in Call \ {c} : pc'[d] = pc[d]
  BY GotoMoves DEF Return, Places
<1>2. loc' = [loc EXCEPT ![c] = Locals]
  BY DEF Return
<1>3. loc' \in [Call -> Local] /\ loc'[c] = Locals /\ \A d \in Call \ {c} : loc'[d] = loc[d]
  BY <1>2, LocalsFit DEF Shape
<1> QED
  BY <1>1, <1>3, LocalsFit DEF Settled, Moves

(* A request that is about to begin has no token yet.                       *)
LEMMA EnterSettles ==
  ASSUME Shape, NEW c \in Call, NEW o \in Operation, NEW s \in Nat, Enter(c, o, s)
  PROVE  Settled(c) /\ pc'[c] \in {"sdk", "token", "done"}
<1>1. CASE Return(c, "done")
  BY <1>1, ReturnSettles DEF Ended
<1>2. CASE /\ Goto(c, IF o.requests[s] = "sdk" THEN "sdk" ELSE "token")
           /\ loc' = [loc EXCEPT ![c] = [Locals EXCEPT !.op = o, !.step = s]]
  <2> DEFINE l == [Locals EXCEPT !.op = o, !.step = s]
  <2>1. l \in Local /\ l.token = None /\ l.refused = None /\ l.attempt = 0
    BY LocalsFit DEF Local
  <2> HIDE DEF l
  <2>2. loc' = [loc EXCEPT ![c] = l]
    BY <1>2 DEF l
  <2>3. loc' \in [Call -> Local] /\ loc'[c] = l /\ \A d \in Call \ {c} : loc'[d] = loc[d]
    BY <2>1, <2>2 DEF Shape
  <2>4. /\ pc' \in [Call -> Places] /\ pc'[c] \in {"sdk", "token"}
        /\ \A d \in Call \ {c} : pc'[d] = pc[d]
    BY <1>2, GotoMoves DEF Places
  <2> QED
    BY <2>1, <2>3, <2>4 DEF Settled, Moves
<1> QED
  BY <1>1, <1>2 DEF Enter

(* Nor has the one after it.                                                *)
LEMMA EnterNextSettles ==
  ASSUME Shape, NEW c \in Call, EnterNext(c)
  PROVE  Settled(c) /\ pc'[c] \in {"sdk", "token", "done"}
<1>1. loc[c].op \in Operation /\ loc[c].step + 1 \in Nat
  BY DEF Shape, Local
<1> QED
  BY <1>1, EnterSettles DEF EnterNext

(* A call of which only the time it notes changes.                          *)
Dated(c, time) == loc' = [loc EXCEPT ![c].at = time]

(* It keeps its token, its refusal and its attempts.                        *)
LEMMA DatedKeeps ==
  ASSUME Shape, NEW c \in Call, NEW time \in Nat, Dated(c, time)
  PROVE  /\ loc' \in [Call -> Local] /\ \A d \in Call \ {c} : loc'[d] = loc[d]
         /\ loc'[c].token = loc[c].token /\ loc'[c].refused = loc[c].refused
         /\ loc'[c].attempt = loc[c].attempt
<1> DEFINE l == [loc[c] EXCEPT !.at = time]
<1>1. loc \in [Call -> Local] /\ loc[c] \in Local
  BY DEF Shape
<1>2. /\ l \in Local /\ l.token = loc[c].token /\ l.refused = loc[c].refused
      /\ l.attempt = loc[c].attempt
  BY <1>1 DEF Local
<1>3. loc' = [loc EXCEPT ![c] = l]
  BY DEF Dated
<1> HIDE DEF l
<1>4. loc' \in [Call -> Local] /\ loc'[c] = l /\ \A d \in Call \ {c} : loc'[d] = loc[d]
  BY <1>1, <1>2, <1>3
<1> QED
  BY <1>2, <1>4

(* A call that got a token.                                                 *)
Holds(c, token) ==
  /\ Moves(c)
  /\ pc'[c] = IF pc[c] \in {"token", "fetch"} THEN "send" ELSE "backoff"
  /\ loc'[c].attempt = loc[c].attempt /\ loc'[c].refused = loc[c].refused
  /\ IF kind = "graph" THEN loc'[c].token = loc[c].token
                       ELSE loc'[c].token = token /\ loc'[c].at = now

(* A call that got a token goes on with it, or to a request of its own.     *)
LEMMA HasTokenHolds ==
  ASSUME Shape, NEW c \in Call, NEW token \in Nat, HasToken(c, token)
  PROVE  Settled(c) \/ Holds(c, token)
<1>1. CASE EnterNext(c)
  BY <1>1, EnterNextSettles
<1>2. CASE /\ Goto(c, IF pc[c] \in {"token", "fetch"} THEN "send" ELSE "backoff")
           /\ loc' = IF kind = "graph" THEN [loc EXCEPT ![c].at = 0]
                     ELSE [loc EXCEPT ![c].token = token, ![c].at = now]
  <2>1. /\ pc' \in [Call -> Places]
        /\ pc'[c] = IF pc[c] \in {"token", "fetch"} THEN "send" ELSE "backoff"
        /\ \A d \in Call \ {c} : pc'[d] = pc[d]
    BY <1>2, GotoMoves DEF Places
  <2>2. CASE kind = "graph"
    <3>1. Dated(c, 0)
      BY <1>2, <2>2 DEF Dated
    <3> QED
      BY <2>1, <2>2, <3>1, DatedKeeps DEF Holds, Moves
  <2>3. CASE kind # "graph"
    <3>1. loc' = [loc EXCEPT ![c].token = token, ![c].at = now]
      BY <1>2, <2>3
    <3>2. now \in Nat
      BY Bounded DEF Shape
    <3> DEFINE l == [loc[c] EXCEPT !.token = token, !.at = now]
    <3>3. loc \in [Call -> Local]
      BY DEF Shape
    <3>4. /\ l \in Local /\ l.attempt = loc[c].attempt /\ l.refused = loc[c].refused
          /\ l.token = token /\ l.at = now
      <4>1. loc[c] \in Local
        BY <3>3
      <4> QED
        BY <4>1, <3>2 DEF Local
    <3>5. loc' = [loc EXCEPT ![c] = l]
      BY <3>1
    <3> HIDE DEF l
    <3>6. loc' \in [Call -> Local] /\ loc'[c] = l /\ \A d \in Call \ {c} : loc'[d] = loc[d]
      BY <3>3, <3>4, <3>5
    <3> QED
      BY <2>1, <2>3, <3>4, <3>6 DEF Holds, Moves
  <2> QED
    BY <2>2, <2>3
<1> QED
  BY <1>1, <1>2 DEF HasToken

-----------------------------------------------------------------------------
(* What a move leaves true of the calls.                                    *)

(* Nothing a call does takes back a token, a refusal or an unstated         *)
(* lifetime, hands out a token again at "graph", or touches another's hold  *)
(* of the mutex.                                                            *)
Extends(c) ==
  /\ kind' = kind /\ exp' \in Seq(Nat)
  /\ Len(exp) <= Len(exp') /\ \A i \in Handed : exp'[i] = exp[i] /\ late'[i] = late[i]
  /\ hist.unstated \subseteq hist'.unstated
  /\ hist.refused <= hist'.refused /\ hist'.refused \in Nat
  /\ \A d \in Call \ {c} : mu' = d <=> mu = d
  /\ \/ cache'.token = cache.token
     \/ cache'.token = None /\ hist.refused > 0
     \/ cache'.token # None /\ (kind # "graph" \/ cache'.token \notin Handed)

(* Tokens are numbered from one.                                            *)
LEMMA HandedNumbers ==
  ASSUME Shape
  PROVE  /\ Handed \subseteq Nat \ {0} /\ None \notin Handed /\ Junk \notin Handed
         /\ Crash \notin Handed /\ Len(exp) \in Nat
  BY Strangers DEF Shape, Handed

(* Each has its expiry, and the time its answer took.                       *)
LEMMA Dates ==
  ASSUME TokenInv
  PROVE  \A token \in Handed : exp[token] \in Nat /\ late[token] \in Nat
<1>1. exp \in Seq(Nat) /\ late \in Seq(Nat) /\ Len(late) = Len(exp)
  BY DEF TokenInv, Shape, LateInv
<1> QED
  BY <1>1 DEF Handed

(* What is true of a call stays true while another one moves.               *)
LEMMA OthersKeep ==
  ASSUME TokenInv, NEW c \in Call, Moves(c), Extends(c), NEW d \in Call \ {c}
  PROVE  CallInv(d)'
<1>1. CallInv(d) /\ Shape
  BY DEF TokenInv
<1>2. pc'[d] = pc[d] /\ loc'[d] = loc[d]
  BY DEF Moves
<1>3. Handed \subseteq Handed' /\ \A i \in Handed' : i \in Nat
  BY <1>1 DEF Extends, Handed, Shape
<1>4. None \notin Handed' /\ Junk \notin Handed'
  BY <1>3, Strangers
<1>5. /\ loc'[d].token \in {None, Junk} \cup Handed'
      /\ loc'[d].refused \in {None, Junk} \cup Handed'
      /\ loc'[d].refused \in Handed' => loc'[d].refused \in Handed
  BY <1>1, <1>2, <1>3, <1>4 DEF CallInv
<1>6. /\ loc'[d].attempt <= Attempts
      /\ pc'[d] \in {"token", "fetch", "send", "peeked"} => loc'[d].attempt < Attempts
      /\ pc'[d] \in {"fetch", "refetch"} <=> mu' = d
  BY <1>1, <1>2 DEF CallInv, Extends
<1>7. hist.refused > 0 => hist'.refused > 0
  BY <1>1 DEF Extends, Shape, History
<1>8. pc'[d] = "refused" => hist'.refused > 0
  BY <1>1, <1>2, <1>7 DEF CallInv
<1>9. /\ kind' # "graph" /\ pc'[d] \in Using => loc'[d].token \in Handed'
      /\ kind' # "graph" /\ pc'[d] \in Armed =>
           \/ loc'[d].at + Skew < exp'[loc'[d].token] + late'[loc'[d].token]
           \/ loc'[d].token \in hist'.unstated
  BY <1>1, <1>2, <1>3 DEF CallInv, Extends, Armed, Using
<1>10. ASSUME kind' = "graph"
       PROVE  /\ pc'[d] \in Using => cache'.token # None \/ hist'.refused > 0
              /\ pc'[d] \in {"peeked", "sent"} => loc'[d].token # None \/ hist'.refused > 0
              /\ pc'[d] = "peeked" => loc'[d].token # Junk
              /\ pc'[d] # "refused" /\ loc'[d].refused \in Handed' => cache'.token # loc'[d].refused
              /\ pc'[d] = "peeked" /\ loc'[d].refused \in Handed' => loc'[d].token # loc'[d].refused
  <2>1. kind = "graph"
    BY <1>10 DEF Extends
  <2>2. /\ pc[d] \in Using => cache.token # None \/ hist.refused > 0
        /\ pc[d] \in {"peeked", "sent"} => loc[d].token # None \/ hist.refused > 0
        /\ pc[d] = "peeked" => loc[d].token # Junk
        /\ pc[d] # "refused" /\ loc[d].refused \in Handed => cache.token # loc[d].refused
        /\ pc[d] = "peeked" /\ loc[d].refused \in Handed => loc[d].token # loc[d].refused
    BY <1>1, <2>1 DEF CallInv
  <2>3. None \notin Handed
    BY <1>3, <1>4
  <2> QED
    BY <1>2, <1>5, <1>7, <2>1, <2>2, <2>3 DEF Extends
<1> QED
  BY <1>5, <1>6, <1>8, <1>9, <1>10 DEF CallInv

(* Of a call without a token there is nothing to say.                       *)
LEMMA SettledCall ==
  ASSUME NEW c \in Call, Settled(c), mu' # c
  PROVE  CallInv(c)'
<1>1. pc'[c] \notin Using \cup Armed \cup {"fetch", "refetch", "send", "peeked", "sent", "refused"}
  BY DEF Settled, Ended, Using, Armed
<1>2. loc'[c].token = None /\ loc'[c].refused = None /\ loc'[c].attempt = 0
  BY DEF Settled
<1>3. None \notin Handed'
  BY Strangers DEF Handed
<1> QED
  BY <1>1, <1>2, <1>3, Amounts DEF CallInv

(* Steps of a call that touch nothing that is shared.                       *)
Quiet == UNCHANGED <<kind, now, exp, late, revoked, rt, file, cache, mu, up, hist>>

(* A quiet step of a call that keeps what is said of it keeps everything.   *)
LEMMA QuietKeeps ==
  ASSUME TokenInv, NEW c \in Call, Moves(c), Quiet, pc[c] # "refused", pc'[c] # "refused",
         CallInv(c)'
  PROVE  TokenInv'
<1>1. Extends(c)
  BY DEF Quiet, Extends, TokenInv, Shape, History
<1>2. \A d \in Call : CallInv(d)'
  BY <1>1, OthersKeep
<1>3. Shape'
  BY DEF Quiet, Moves, TokenInv, Shape
<1>4. RefreshInv' /\ LateInv' /\ CacheInv'
  BY DEF Quiet, TokenInv, RefreshInv, LateInv, CacheInv, Handed, Fresh
<1>5. CountInv'
  <2>1. Refusing' = Refusing
    BY DEF Moves, Refusing
  <2>2. Ahead' = Ahead /\ Fresh' = Fresh /\ hist' = hist
    BY DEF Quiet, Ahead, Fresh
  <2> QED
    BY <2>1, <2>2 DEF TokenInv, CountInv
<1> QED
  BY <1>2, <1>3, <1>4, <1>5 DEF TokenInv

(* A quiet step to a place without a token.                                 *)
LEMMA QuietSettles ==
  ASSUME TokenInv, NEW c \in Call, Settled(c), Quiet, pc[c] # "refused", mu # c
  PROVE  TokenInv'
<1>1. CallInv(c)'
  BY SettledCall DEF Quiet
<1> QED
  BY <1>1, QuietKeeps DEF Settled, Ended

(* The mutex is held by who fetches.                                        *)
LEMMA Holder ==
  ASSUME TokenInv, NEW c \in Call
  PROVE  pc[c] \in {"fetch", "refetch"} <=> mu = c
  BY DEF TokenInv, CallInv

-----------------------------------------------------------------------------
(* Quiet steps.                                                             *)

(* The checks of the arguments.                                             *)
LEMMA BeginKeeps ==
  ASSUME TokenInv, NEW c \in Call, Begin(c)
  PROVE  TokenInv'
<1>1. Shape /\ pc[c] = "idle" /\ Quiet
  BY DEF TokenInv, Begin, At, Quiet, auth
<1>2. pc[c] # "refused" /\ mu # c
  BY <1>1, Holder
<1>3. PICK o \in OpsOf(kind) : Enter(c, o, 1) \/ Return(c, "failed")
  BY DEF Begin
<1>4. o \in Operation
  BY <1>1, Asked DEF Shape
<1>5. Settled(c)
  BY <1>1, <1>3, <1>4, EnterSettles, ReturnSettles DEF Ended
<1> QED
  BY <1>1, <1>2, <1>5, QuietSettles

(* A listing by the Azure library.                                          *)
LEMMA SdkKeeps ==
  ASSUME TokenInv, NEW c \in Call, Sdk(c)
  PROVE  TokenInv'
<1>1. Shape /\ pc[c] = "sdk" /\ Quiet
  BY DEF TokenInv, Sdk, At, Quiet, auth
<1>2. pc[c] # "refused" /\ mu # c
  BY <1>1, Holder
<1>3. Settled(c)
  BY <1>1, EnterNextSettles, ReturnSettles DEF Sdk, Ended
<1> QED
  BY <1>1, <1>2, <1>3, QuietSettles

(* An answer, or an error that is not retried.                              *)
LEMMA AcceptKeeps ==
  ASSUME TokenInv, NEW c \in Call, Accept(c) \/ Reject(c)
  PROVE  TokenInv'
<1>1. Shape /\ pc[c] = "sent" /\ Quiet
  BY DEF TokenInv, Accept, Reject, Answered, At, Quiet, auth
<1>2. pc[c] # "refused" /\ mu # c
  BY <1>1, Holder
<1>3. EnterNext(c) \/ Return(c, "failed") \/ Return(c, "void")
  BY DEF Accept, Reject
<1>4. Settled(c)
  BY <1>1, <1>3, EnterNextSettles, ReturnSettles DEF Ended
<1> QED
  BY <1>1, <1>2, <1>4, QuietSettles

(* The cached token, while it is fresh.                                     *)
LEMMA ServeKeeps ==
  ASSUME TokenInv, NEW c \in Call, Serve(c)
  PROVE  TokenInv'
<1>1. /\ Shape /\ pc[c] \in {"token", "retoken"} /\ Quiet /\ mu = None
      /\ cache.token # None /\ now + Skew < cache.until
  BY DEF TokenInv, Serve, Fresh, Quiet, auth
<1>2. pc[c] # "refused" /\ mu # c /\ CallInv(c)
  BY <1>1, Holder DEF TokenInv
<1>3. cache.token \in Nat /\ cache.token \in Handed
  BY <1>1, HandedNumbers DEF Shape, TokenInv, CacheInv
<1>4. Settled(c) \/ Holds(c, cache.token)
  BY <1>1, <1>3, HasTokenHolds DEF Serve
<1>5. ASSUME Holds(c, cache.token) PROVE TokenInv'
  <2>1. /\ Moves(c) /\ pc'[c] \in {"send", "backoff"}
        /\ pc'[c] = "send" => pc[c] = "token"
        /\ loc'[c].attempt = loc[c].attempt /\ loc'[c].refused = loc[c].refused
        /\ kind = "graph" => loc'[c].token = loc[c].token
        /\ kind # "graph" => loc'[c].token = cache.token /\ loc'[c].at = now
    BY <1>1, <1>5 DEF Holds
  <2>2. kind # "graph" =>
          \/ now + Skew < exp[cache.token] + late[cache.token]
          \/ cache.token \in hist.unstated
    <3>1. kind # "graph" =>
            \/ cache.until <= exp[cache.token] + late[cache.token]
            \/ cache.token \in hist.unstated
      BY <1>1 DEF TokenInv, CacheInv
    <3>2. /\ now \in Nat /\ Skew \in Nat /\ cache.until \in Nat
          /\ exp[cache.token] \in Nat /\ late[cache.token] \in Nat
      BY <1>1, <1>3, Bounded, Amounts, Dates DEF Shape
    <3> QED
      BY <1>1, <3>1, <3>2
  <2>3. CallInv(c)'
    BY <1>1, <1>2, <1>3, <2>1, <2>2 DEF CallInv, Quiet, Handed, Using, Armed
  <2> QED
    BY <1>1, <1>2, <2>1, <2>3, QuietKeeps
<1> QED
  BY <1>1, <1>2, <1>4, <1>5, QuietSettles

(* The wait before an attempt, or its end by the context.                   *)
LEMMA BackoffKeeps ==
  ASSUME TokenInv, NEW c \in Call, Backoff(c)
  PROVE  TokenInv'
<1>1. Shape /\ pc[c] = "backoff" /\ Quiet
  BY DEF TokenInv, Backoff, At, Quiet, auth
<1>2. pc[c] # "refused" /\ mu # c /\ CallInv(c)
  BY <1>1, Holder DEF TokenInv
<1>3. CASE Return(c, "failed")
  <2>1. Settled(c)
    BY <1>1, <1>3, ReturnSettles DEF Ended
  <2> QED
    BY <1>1, <1>2, <2>1, QuietSettles
<1>4. CASE loc[c].attempt < Attempts /\ Goto(c, "send") /\ UNCHANGED loc
  <2>1. /\ pc' \in [Call -> Places] /\ pc'[c] = "send"
        /\ \A d \in Call \ {c} : pc'[d] = pc[d]
    BY <1>1, <1>4, GotoMoves DEF Places
  <2>2. Moves(c)
    BY <1>1, <1>4, <2>1 DEF Moves, Shape
  <2>3. CallInv(c)'
    BY <1>1, <1>2, <1>4, <2>1 DEF CallInv, Quiet, Handed, Using, Armed
  <2> QED
    BY <1>1, <1>2, <2>1, <2>2, <2>3, QuietKeeps
<1> QED
  BY <1>3, <1>4 DEF Backoff

(* "graph" reads the cache without the mutex.                               *)
LEMMA PeekKeeps ==
  ASSUME TokenInv, NEW c \in Call, Peek(c)
  PROVE  TokenInv'
<1>1. Shape /\ pc[c] = "send" /\ Quiet /\ kind = "graph"
  BY DEF TokenInv, Peek, At, Quiet, auth
<1>2. pc[c] # "refused" /\ mu # c /\ CallInv(c)
  BY <1>1, Holder DEF TokenInv
<1>3. /\ pc' \in [Call -> Places] /\ pc'[c] = "peeked"
      /\ \A d \in Call \ {c} : pc'[d] = pc[d]
  BY <1>1, GotoMoves DEF Peek, Places
<1>4. loc' = [loc EXCEPT ![c].token = cache.token] /\ cache.token \in {None} \cup Handed
  BY DEF Peek, TokenInv, CacheInv
<1>5. cache.token \in Nat \cup {None, Junk}
  BY <1>1, <1>4, HandedNumbers
<1>6. /\ loc' \in [Call -> Local] /\ \A d \in Call \ {c} : loc'[d] = loc[d]
      /\ loc'[c].token = cache.token /\ loc'[c].attempt = loc[c].attempt
      /\ loc'[c].refused = loc[c].refused
  <2> DEFINE l == [loc[c] EXCEPT !.token = cache.token]
  <2>1. loc \in [Call -> Local] /\ loc[c] \in Local
    BY <1>1 DEF Shape
  <2>2. l \in Local /\ l.token = cache.token /\ l.attempt = loc[c].attempt /\ l.refused = loc[c].refused
    BY <1>5, <2>1 DEF Local
  <2>3. loc' = [loc EXCEPT ![c] = l]
    BY <1>4
  <2> HIDE DEF l
  <2>4. loc' \in [Call -> Local] /\ loc'[c] = l /\ \A d \in Call \ {c} : loc'[d] = loc[d]
    BY <2>1, <2>2, <2>3
  <2> QED
    BY <2>2, <2>4
<1>7. Moves(c)
  BY <1>3, <1>6 DEF Moves
<1>8. CallInv(c)'
  <2>1. /\ Handed' = Handed /\ kind' = "graph" /\ mu' = mu /\ hist' = hist /\ cache' = cache
        /\ kind = "graph" /\ Junk \notin Handed /\ Junk # None
    BY <1>1, HandedNumbers, Strangers DEF Quiet, Handed
  <2>2. /\ loc[c].refused \in {None, Junk} \cup Handed /\ loc[c].attempt < Attempts
        /\ loc[c].attempt <= Attempts
        /\ cache.token # None \/ hist.refused > 0
        /\ loc[c].refused \in Handed => cache.token # loc[c].refused
    BY <1>1, <1>2, <2>1 DEF CallInv, Using
  <2>3. loc'[c].token \in {None} \cup Handed
    BY <1>4, <1>6
  <2> QED
    BY <1>2, <1>3, <1>6, <2>1, <2>2, <2>3 DEF CallInv
<1> QED
  BY <1>1, <1>2, <1>3, <1>7, <1>8, QuietKeeps

(* A torn read makes nothing of a token that was refused.                   *)
LEMMA TornTokens ==
  ASSUME Shape, NEW a \in {None} \cup Handed, NEW b \in {None} \cup Handed
  PROVE  /\ Torn(a, b) \subseteq {a, b, None, Junk, Crash}
         /\ a # None /\ b # None => Torn(a, b) \subseteq {a, b, Junk}
  BY DEF Torn

(* The request leaves with what was read, torn or not.                      *)
LEMMA SendKeeps ==
  ASSUME TokenInv, NEW c \in Call, Send(c)
  PROVE  TokenInv'
<1>1. /\ Shape /\ UNCHANGED <<kind, now, exp, late, revoked, rt, file, cache, mu, hist>> /\ up
      /\ pc[c] = IF kind = "graph" THEN "peeked" ELSE "send"
  BY DEF TokenInv, Send, At, auth
<1>2. pc[c] # "refused" /\ mu # c /\ CallInv(c)
  BY <1>1, Holder DEF TokenInv
<1>3. PICK token \in IF kind = "graph" THEN Torn(loc[c].token, cache.token) ELSE {loc[c].token} :
        \/ /\ token # Crash
           /\ Goto(c, "sent")
           /\ loc' = [loc EXCEPT ![c].token = token, ![c].attempt = @ + 1,
                                 ![c].body = Drain(Request(c), @)]
           /\ UNCHANGED up
        \/ /\ token = Crash
           /\ up' = FALSE
           /\ Return(c, "killed")
  BY DEF Send
<1>4. /\ cache.token \in {None} \cup Handed /\ loc[c].attempt < Attempts
      /\ kind = "graph" =>
           /\ loc[c].token \in {None} \cup Handed
           /\ cache.token # None \/ hist.refused > 0
           /\ loc[c].token # None \/ hist.refused > 0
      /\ kind # "graph" => loc[c].token \in Handed
  BY <1>1, <1>2 DEF TokenInv, CacheInv, CallInv, Using
<1>5. kind = "graph" =>
        /\ token \in {loc[c].token, cache.token, None, Junk, Crash}
        /\ token \in {None, Crash} => hist.refused > 0
  BY <1>3, <1>4, TornTokens, HandedNumbers, Strangers, <1>1
<1>6. CASE token # Crash /\ Goto(c, "sent") /\ UNCHANGED up
           /\ loc' = [loc EXCEPT ![c].token = token, ![c].attempt = @ + 1,
                                 ![c].body = Drain(Request(c), @)]
  <2>1. Quiet
    BY <1>1, <1>6 DEF Quiet
  <2>2. /\ pc' \in [Call -> Places] /\ pc'[c] = "sent"
        /\ \A d \in Call \ {c} : pc'[d] = pc[d]
    BY <1>1, <1>6, GotoMoves DEF Places
  <2>3. token \in {None, Junk} \cup Handed
    BY <1>3, <1>4, <1>5, <1>6
  <2>4. token \in Nat \cup {None, Junk}
    BY <1>1, <2>3, HandedNumbers
  <2>5. Drain(Request(c), loc[c].body) \in {"whole", "sent", "spent"}
    BY <1>1 DEF Drain, Shape, Local
  <2>6. /\ loc' \in [Call -> Local] /\ \A d \in Call \ {c} : loc'[d] = loc[d]
        /\ loc'[c].token = token /\ loc'[c].attempt = loc[c].attempt + 1
        /\ loc'[c].refused = loc[c].refused /\ loc'[c].at = loc[c].at
    <3> DEFINE body == Drain(Request(c), loc[c].body)
    <3>1. loc' = [loc EXCEPT ![c].token = token, ![c].attempt = loc[c].attempt + 1,
                             ![c].body = body]
      BY <1>6
    <3>2. body \in {"whole", "sent", "spent"}
      BY <2>5
    <3> HIDE DEF body
    <3>3. loc[c].attempt + 1 \in Nat /\ loc \in [Call -> Local]
      BY <1>1 DEF Shape, Local
    <3>4. loc' \in [Call -> Local]
      BY <2>4, <3>1, <3>2, <3>3 DEF Local
    <3>5. \A d \in Call \ {c} : loc'[d] = loc[d]
      BY <3>1, <3>3
    <3>6. loc'[c].token = token /\ loc'[c].attempt = loc[c].attempt + 1
      BY <3>1, <3>3 DEF Local
    <3>7. loc'[c].refused = loc[c].refused /\ loc'[c].at = loc[c].at
      BY <3>1, <3>3 DEF Local
    <3> QED
      BY <3>4, <3>5, <3>6, <3>7
  <2>7. loc[c].attempt \in Nat /\ Attempts \in Nat
    BY <1>1, Amounts DEF Shape, Local
  <2>8. Moves(c)
    BY <2>2, <2>6 DEF Moves
  <2>9. CallInv(c)'
    BY <1>1, <1>2, <1>3, <1>4, <1>5, <1>6, <2>1, <2>2, <2>3, <2>6, <2>7 DEF CallInv, Quiet, Handed, Using, Armed
  <2> QED
    BY <1>2, <2>1, <2>2, <2>8, <2>9, QuietKeeps
<1>7. CASE token = Crash /\ up' = FALSE /\ Return(c, "killed")
  <2>1. kind = "graph" /\ hist.refused > 0
    BY <1>1, <1>3, <1>4, <1>5, <1>7, HandedNumbers
  <2>2. Settled(c) /\ pc'[c] = "killed"
    BY <1>1, <1>7, ReturnSettles DEF Ended
  <2>3. CallInv(c)'
    BY <1>1, <1>2, <2>2, SettledCall
  <2>4. Extends(c)
    BY <1>1 DEF Extends, Shape, History
  <2>5. \A d \in Call : CallInv(d)'
    BY <2>2, <2>3, <2>4, OthersKeep DEF Settled
  <2>6. Shape'
    BY <1>1, <1>7, <2>2 DEF Settled, Moves, Shape
  <2>7. RefreshInv' /\ LateInv' /\ CacheInv'
    BY <1>1, <1>7, <2>1 DEF TokenInv, RefreshInv, LateInv, CacheInv, Handed, Fresh
  <2>8. CountInv'
    <3>1. Refusing' = Refusing
      BY <1>2, <2>2 DEF Settled, Moves, Refusing
    <3>2. Ahead' = Ahead /\ Fresh' = Fresh
      BY <1>1 DEF Ahead, Fresh
    <3> QED
      BY <1>1, <3>1, <3>2 DEF TokenInv, CountInv
  <2> QED
    BY <2>5, <2>6, <2>7, <2>8 DEF TokenInv
<1> QED
  BY <1>3, <1>6, <1>7

(* On to another attempt, or out with the error.                            *)
Tries(c, p, refused) ==
  /\ Moves(c) /\ Connector /\ pc'[c] = p
  /\ loc'[c].attempt = loc[c].attempt /\ loc'[c].at = loc[c].at
  /\ loc'[c].refused = refused
  /\ IF kind = "graph" THEN loc'[c].token = None ELSE loc'[c].token = loc[c].token

(* What an attempt that failed leaves of the call.                          *)
LEMMA AgainTries ==
  ASSUME Shape, NEW c \in Call, NEW p \in {"backoff", "refused"},
         NEW refused \in Nat \cup {None, Junk}, NEW body \in {"whole", "sent", "spent"},
         Again(c, p, refused, body)
  PROVE  Settled(c) \/ Tries(c, p, refused)
<1>1. CASE Return(c, "failed")
  BY <1>1, ReturnSettles DEF Ended
<1>2. CASE /\ Connector /\ Goto(c, p)
           /\ loc' = [loc EXCEPT ![c].token = IF kind = "graph" THEN None ELSE @,
                                 ![c].refused = refused, ![c].body = body]
  <2>1. /\ pc' \in [Call -> Places] /\ pc'[c] = p
        /\ \A d \in Call \ {c} : pc'[d] = pc[d]
    BY <1>2, GotoMoves DEF Places
  <2> DEFINE token == IF kind = "graph" THEN None ELSE loc[c].token
  <2>2. loc' = [loc EXCEPT ![c].token = token, ![c].refused = refused, ![c].body = body]
    BY <1>2
  <2>3. token \in Nat \cup {None, Junk}
    BY DEF Shape, Local
  <2> HIDE DEF token
  <2>4. loc \in [Call -> Local]
    BY DEF Shape
  <2>5. loc' \in [Call -> Local]
    <3> DEFINE l == [loc[c] EXCEPT !.token = token, !.refused = refused, !.body = body]
    <3>1. loc[c] \in Local
      BY <2>4
    <3>2. l \in Local
      BY <2>3, <3>1 DEF Local
    <3>3. loc' = [loc EXCEPT ![c] = l]
      BY <2>2, Zenon
    <3> HIDE DEF l
    <3> QED
      BY <2>4, <3>2, <3>3
  <2>6. \A d \in Call \ {c} : loc'[d] = loc[d]
    BY <2>2, <2>4
  <2>7. loc'[c].token = token /\ loc'[c].attempt = loc[c].attempt
    BY <2>2, <2>4 DEF Local
  <2>8. loc'[c].refused = refused /\ loc'[c].at = loc[c].at
    BY <2>2, <2>4 DEF Local
  <2> QED
    BY <1>2, <2>1, <2>5, <2>6, <2>7, <2>8 DEF Tries, Moves, token
<1> QED
  BY <1>1, <1>2 DEF Again

(* An error that is retried.                                                *)
LEMMA TroubleKeeps ==
  ASSUME TokenInv, NEW c \in Call, Trouble(c)
  PROVE  TokenInv'
<1>1. Shape /\ pc[c] = "sent" /\ Quiet
  BY DEF TokenInv, Trouble, At, Quiet, auth
<1>2. pc[c] # "refused" /\ mu # c /\ CallInv(c)
  BY <1>1, Holder DEF TokenInv
<1>3. PICK body \in {loc[c].body, "whole"} : Again(c, "backoff", loc[c].refused, body)
  BY DEF Trouble
<1>4. body \in {"whole", "sent", "spent"} /\ loc[c].refused \in Nat \cup {None, Junk}
  BY <1>1 DEF Shape, Local
<1>5. Settled(c) \/ Tries(c, "backoff", loc[c].refused)
  BY <1>1, <1>3, <1>4, AgainTries
<1>6. ASSUME Tries(c, "backoff", loc[c].refused) PROVE TokenInv'
  <2>1. CallInv(c)'
    BY <1>1, <1>2, <1>6 DEF CallInv, Quiet, Handed, Using, Armed, Tries
  <2> QED
    BY <1>1, <1>2, <1>6, <2>1, QuietKeeps DEF Tries
<1> QED
  BY <1>1, <1>2, <1>5, <1>6, QuietSettles

-----------------------------------------------------------------------------
(* Counting.                                                                *)

(* The fetches whose token is still ahead of its skew are some of those     *)
(* there were.                                                              *)
LEMMA AheadFinite ==
  ASSUME Shape
  PROVE  IsFiniteSet(Ahead) /\ Cardinality(Ahead) \in Nat
<1>1. hist.expiries \in Seq(Nat)
  BY DEF Shape, History
<1>2. Ahead \subseteq 1..Len(hist.expiries) /\ Len(hist.expiries) \in Nat
  BY <1>1 DEF Ahead
<1>3. IsFiniteSet(1..Len(hist.expiries))
  BY <1>2, FS_Interval
<1> QED
  BY <1>2, <1>3, FS_Subset, FS_CardinalityType

(* What is counted are numbers.                                             *)
LEMMA CountNumbers ==
  ASSUME TokenInv
  PROVE  /\ IsFiniteSet(Ahead) /\ Cardinality(Ahead) \in Nat
         /\ IsFiniteSet(Refusing) /\ Cardinality(Refusing) \in Nat
         /\ hist.refused \in Nat /\ hist.expiries \in Seq(Nat) /\ now \in Nat
         /\ Cardinality(Ahead) + Cardinality(Refusing) <= hist.refused + (IF Fresh THEN 1 ELSE 0)
<1>1. Shape /\ CountInv
  BY DEF TokenInv
<1>2. IsFiniteSet(Refusing) /\ Cardinality(Refusing) \in Nat
  BY <1>1, FS_CardinalityType DEF CountInv
<1>3. hist.refused \in Nat /\ hist.expiries \in Seq(Nat) /\ now \in Nat
  BY <1>1, Bounded DEF Shape, History
<1> QED
  BY <1>1, <1>2, <1>3, AheadFinite DEF CountInv

(* One element more or less.                                                *)
LEMMA OneOf ==
  ASSUME NEW S, IsFiniteSet(S), NEW x
  PROVE  /\ IsFiniteSet(S \cup {x}) /\ Cardinality(S \cup {x}) \in Nat
         /\ Cardinality(S \cup {x}) <= Cardinality(S) + 1
         /\ IsFiniteSet(S \ {x}) /\ Cardinality(S \ {x}) \in Nat
         /\ x \in S => Cardinality(S \ {x}) <= Cardinality(S) - 1
         /\ Cardinality(S) \in Nat
<1>1. /\ IsFiniteSet(S \cup {x})
      /\ Cardinality(S \cup {x}) = IF x \in S THEN Cardinality(S) ELSE Cardinality(S) + 1
  BY FS_AddElement
<1>2. /\ IsFiniteSet(S \ {x})
      /\ Cardinality(S \ {x}) = IF x \in S THEN Cardinality(S) - 1 ELSE Cardinality(S)
  BY FS_RemoveElement
<1>3. Cardinality(S) \in Nat /\ Cardinality(S \cup {x}) \in Nat /\ Cardinality(S \ {x}) \in Nat
  BY <1>1, <1>2, FS_CardinalityType
<1> DEFINE a == Cardinality(S \cup {x})
           b == Cardinality(S \ {x})
           m == Cardinality(S)
<1>4. a <= m + 1 /\ (x \in S => b <= m - 1)
  <2>1. a = (IF x \in S THEN m ELSE m + 1) /\ b = (IF x \in S THEN m - 1 ELSE m)
    BY <1>1, <1>2, Zenon
  <2>2. a \in Nat /\ b \in Nat /\ m \in Nat
    BY <1>3
  <2> HIDE DEF a, b, m
  <2> QED
    BY <2>1, <2>2
<1> QED
  BY <1>1, <1>2, <1>3, <1>4

(* Steps between two times, or by a call that refuses nothing.              *)
LEMMA SameCount ==
  ASSUME TokenInv, Refusing' = Refusing, UNCHANGED now,
         hist'.expiries = hist.expiries, hist'.refused = hist.refused,
         Fresh => Fresh'
  PROVE  CountInv'
<1>1. Ahead' = Ahead
  BY DEF Ahead
<1>2. Cardinality(Ahead') = Cardinality(Ahead) /\ Cardinality(Refusing') = Cardinality(Refusing)
  BY <1>1, Zenon
<1>3. IsFiniteSet(Refusing')
  BY CountNumbers
<1> QED
  BY <1>2, <1>3, CountNumbers DEF CountInv

(* A token that is got when there is no fresh one.                          *)
LEMMA CountKept ==
  ASSUME TokenInv, ~Fresh, UNCHANGED now, Refusing' = Refusing,
         NEW until \in Nat, hist'.expiries = Append(hist.expiries, until),
         hist'.refused = hist.refused, cache'.until = until, cache'.token # None
  PROVE  CountInv'
<1> DEFINE n == Len(hist.expiries) + 1
<1>1. /\ hist.expiries \in Seq(Nat) /\ now \in Nat /\ hist.refused \in Nat
      /\ IsFiniteSet(Ahead) /\ Cardinality(Ahead) \in Nat
      /\ IsFiniteSet(Refusing) /\ Cardinality(Refusing) \in Nat
      /\ Cardinality(Ahead) + Cardinality(Refusing) <= hist.refused
  BY CountNumbers
<1>2. Cardinality(Refusing') = Cardinality(Refusing) /\ IsFiniteSet(Refusing')
  BY <1>1, Zenon
<1>3. /\ DOMAIN hist.expiries = 1..(n - 1) /\ DOMAIN hist'.expiries = 1..n /\ n \in Nat \ {0}
      /\ \A i \in 1..(n - 1) : hist'.expiries[i] = hist.expiries[i]
      /\ hist'.expiries[n] = until
  BY <1>1
<1> HIDE DEF n
<1>4. 1..n = 1..(n - 1) \cup {n}
  BY <1>3
<1>5. CASE now + Skew < until
  <2>1. Ahead' = Ahead \cup {n}
    BY <1>1, <1>3, <1>4, <1>5 DEF Ahead
  <2>2. Cardinality(Ahead \cup {n}) <= Cardinality(Ahead) + 1 /\ Cardinality(Ahead \cup {n}) \in Nat
    BY <1>1, OneOf
  <2>3. Cardinality(Ahead') = Cardinality(Ahead \cup {n})
    BY <2>1, Zenon
  <2>4. Fresh'
    BY <1>5 DEF Fresh
  <2> QED
    BY <1>1, <1>2, <2>2, <2>3, <2>4 DEF CountInv
<1>6. CASE ~(now + Skew < until)
  <2>1. Ahead' = Ahead
    BY <1>1, <1>3, <1>4, <1>6 DEF Ahead
  <2>2. Cardinality(Ahead') = Cardinality(Ahead)
    BY <2>1, Zenon
  <2>3. ~Fresh'
    BY <1>6 DEF Fresh
  <2> QED
    BY <1>1, <1>2, <2>2, <2>3 DEF CountInv
<1> QED
  BY <1>5, <1>6

-----------------------------------------------------------------------------
(* Steps that touch the cache, the mutex or the history.                    *)

(* A 401 is one refusal more, and one call more that may throw a token      *)
(* away.                                                                    *)
LEMMA UnauthorizedKeeps ==
  ASSUME TokenInv, NEW c \in Call, Unauthorized(c)
  PROVE  TokenInv'
<1>1. /\ Shape /\ pc[c] = "sent" /\ UNCHANGED <<kind, now, exp, late, revoked, rt, file, cache, mu, up>>
      /\ hist' = [hist EXCEPT !.refused = @ + 1] /\ hist \in History
  BY DEF TokenInv, Shape, Unauthorized, Answered, At, auth
<1>2. /\ hist' \in History /\ hist'.refused = hist.refused + 1 /\ hist'.expiries = hist.expiries
      /\ hist'.unstated = hist.unstated /\ hist'.denied = hist.denied /\ hist'.lost = hist.lost
      /\ hist'.restarted = hist.restarted /\ hist.refused \in Nat
  <2>1. hist.refused \in Nat
    BY <1>1 DEF History
  <2>2. PICK n \in Nat : n = hist.refused + 1
    BY <2>1
  <2>3. hist' = [hist EXCEPT !.refused = n]
    BY <1>1, <2>2
  <2>4. /\ hist' \in History /\ hist'.refused = n /\ hist'.expiries = hist.expiries
        /\ hist'.unstated = hist.unstated /\ hist'.denied = hist.denied /\ hist'.lost = hist.lost
        /\ hist'.restarted = hist.restarted
    BY <1>1, <2>3 DEF History
  <2> QED
    BY <2>1, <2>2, <2>4
<1>3. mu # c /\ CallInv(c)
  BY <1>1, Holder DEF TokenInv
<1>4. loc[c].body \in {"whole", "sent", "spent"} /\ loc[c].token \in Nat \cup {None, Junk}
  BY <1>1 DEF Shape, Local
<1>5. Settled(c) \/ Tries(c, "refused", loc[c].token)
  BY <1>1, <1>4, AgainTries DEF Unauthorized
<1>6. CallInv(c)'
  <2>1. CASE Settled(c)
    BY <1>1, <1>3, <2>1, SettledCall
  <2>2. CASE Tries(c, "refused", loc[c].token)
    BY <1>1, <1>2, <1>3, <2>2 DEF CallInv, Handed, Using, Armed, Tries
  <2> QED
    BY <1>5, <2>1, <2>2
<1>7. Moves(c) /\ Extends(c)
  BY <1>1, <1>2, <1>5 DEF Settled, Tries, Extends, Shape
<1>8. \A d \in Call : CallInv(d)'
  BY <1>6, <1>7, OthersKeep
<1>9. Shape'
  BY <1>1, <1>2, <1>7 DEF Moves, Shape
<1>10. RefreshInv' /\ LateInv' /\ CacheInv'
  BY <1>1, <1>2 DEF TokenInv, RefreshInv, LateInv, CacheInv, Handed, Fresh
<1>11. CountInv'
  <2>1. Refusing' = Refusing \/ Refusing' = Refusing \cup {c}
    BY <1>1, <1>7 DEF Moves, Refusing
  <2>2. /\ IsFiniteSet(Refusing') /\ Cardinality(Refusing') \in Nat
        /\ Cardinality(Refusing') <= Cardinality(Refusing) + 1
    <3>1. IsFiniteSet(Refusing) /\ Cardinality(Refusing) \in Nat
      BY CountNumbers
    <3>2. /\ IsFiniteSet(Refusing \cup {c}) /\ Cardinality(Refusing \cup {c}) \in Nat
          /\ Cardinality(Refusing \cup {c}) <= Cardinality(Refusing) + 1
      BY <3>1, OneOf
    <3>3. CASE Refusing' = Refusing
      BY <3>1, <3>3
    <3>4. CASE Refusing' = Refusing \cup {c}
      BY <3>2, <3>4
    <3> QED
      BY <2>1, <3>3, <3>4
  <2>3. Ahead' = Ahead /\ (Fresh' <=> Fresh)
    BY <1>1, <1>2 DEF Ahead, Fresh
  <2>4. Cardinality(Ahead') = Cardinality(Ahead)
    BY <2>3, Zenon
  <2> QED
    BY <1>2, <2>2, <2>3, <2>4, CountNumbers DEF CountInv
<1> QED
  BY <1>8, <1>9, <1>10, <1>11 DEF TokenInv

(* The call that throws a token away, and the refusal that lets it.         *)
LEMMA InvalidateKeeps ==
  ASSUME TokenInv, NEW c \in Call, Invalidate(c)
  PROVE  TokenInv'
<1>1. /\ Shape /\ pc[c] = "refused" /\ mu = None
      /\ UNCHANGED <<kind, now, exp, late, revoked, rt, file, mu, up, hist, loc>>
      /\ cache'.token = None /\ cache' \in [token : Nat \cup {None}, until : Nat]
  BY DEF TokenInv, Invalidate, At, auth, Nothing
<1>2. /\ pc' \in [Call -> Places] /\ pc'[c] = "retoken"
      /\ \A d \in Call \ {c} : pc'[d] = pc[d]
  BY <1>1, GotoMoves DEF Invalidate, Places
<1>3. Moves(c)
  BY <1>1, <1>2 DEF Moves, Shape
<1>4. CallInv(c) /\ mu # c /\ hist.refused > 0 /\ hist.refused \in Nat
  BY <1>1, Holder, CountNumbers DEF TokenInv, CallInv
<1>5. Extends(c)
  BY <1>1, <1>4 DEF Extends, Shape
<1>6. CallInv(c)'
  BY <1>1, <1>2, <1>4, HandedNumbers DEF CallInv, Handed, Using, Armed
<1>7. \A d \in Call : CallInv(d)'
  BY <1>3, <1>5, <1>6, OthersKeep
<1>8. Shape'
  BY <1>1, <1>3 DEF Moves, Shape
<1>9. RefreshInv' /\ LateInv' /\ CacheInv'
  BY <1>1 DEF TokenInv, RefreshInv, LateInv, CacheInv, Handed, Fresh
<1>10. CountInv'
  <2>1. Refusing' = Refusing \ {c} /\ c \in Refusing
    BY <1>1, <1>2 DEF Refusing
  <2>2. /\ IsFiniteSet(Refusing \ {c}) /\ Cardinality(Refusing \ {c}) \in Nat
        /\ Cardinality(Refusing \ {c}) <= Cardinality(Refusing) - 1
    BY <2>1, CountNumbers, OneOf
  <2>3. IsFiniteSet(Refusing') /\ Cardinality(Refusing') = Cardinality(Refusing \ {c})
    BY <2>1, <2>2, Zenon
  <2>4. Ahead' = Ahead /\ ~Fresh'
    BY <1>1 DEF Ahead, Fresh
  <2>5. Cardinality(Ahead') = Cardinality(Ahead)
    BY <2>4, Zenon
  <2> QED
    BY <1>1, <2>2, <2>3, <2>4, <2>5, CountNumbers DEF CountInv
<1> QED
  BY <1>7, <1>8, <1>9, <1>10 DEF TokenInv

(* The mutex is taken by one call, when there is no fresh token.            *)
LEMMA AcquireKeeps ==
  ASSUME TokenInv, NEW c \in Call, Acquire(c)
  PROVE  TokenInv'
<1>1. /\ Shape /\ pc[c] \in {"token", "retoken"} /\ mu = None /\ mu' = c /\ ~Fresh
      /\ UNCHANGED <<kind, now, exp, late, revoked, rt, file, cache, up, hist>>
      /\ now \in Nat /\ Dated(c, now)
  BY Bounded DEF TokenInv, Shape, Acquire, Ask, Dated, auth
<1>2. /\ pc' \in [Call -> Places] /\ pc'[c] = IF pc[c] = "token" THEN "fetch" ELSE "refetch"
      /\ \A d \in Call \ {c} : pc'[d] = pc[d]
  BY <1>1, GotoMoves DEF Acquire, Ask, Places
<1>21. /\ loc' \in [Call -> Local] /\ \A d \in Call \ {c} : loc'[d] = loc[d]
       /\ loc'[c].token = loc[c].token /\ loc'[c].refused = loc[c].refused
       /\ loc'[c].attempt = loc[c].attempt
  BY <1>1, DatedKeeps
<1>3. Moves(c)
  BY <1>2, <1>21 DEF Moves
<1>4. CallInv(c)
  BY DEF TokenInv
<1>5. Extends(c)
  BY <1>1, Strangers DEF Extends, Shape, History
<1>6. CallInv(c)'
  BY <1>1, <1>2, <1>21, <1>4 DEF CallInv, Handed, Using, Armed
<1>7. \A d \in Call : CallInv(d)'
  BY <1>3, <1>5, <1>6, OthersKeep
<1>8. Shape'
  BY <1>1, <1>3 DEF Moves, Shape
<1>9. RefreshInv' /\ LateInv' /\ CacheInv'
  BY <1>1 DEF TokenInv, RefreshInv, LateInv, CacheInv, Handed, Fresh
<1>10. CountInv'
  <2>1. Refusing' = Refusing
    BY <1>1, <1>2 DEF Refusing
  <2> QED
    BY <1>1, <2>1, SameCount
<1> QED
  BY <1>7, <1>8, <1>9, <1>10 DEF TokenInv

(* A token that has come, new or from the credential's own cache.           *)
Got(c, token, until) ==
  /\ kind' = kind /\ now' = now /\ revoked' = revoked /\ up' = up
  /\ exp' \in Seq(Nat) /\ Len(exp) <= Len(exp') /\ Len(exp') <= Bound[kind].tokens
  /\ late' \in Seq(Nat) /\ file' = file
  /\ \A i \in Handed : exp'[i] = exp[i] /\ late'[i] = late[i]
  /\ token \in Handed' /\ until \in Nat
  /\ hist' \in History /\ hist'.refused = hist.refused
  /\ hist'.expiries = Append(hist.expiries, until)
  /\ hist.unstated \subseteq hist'.unstated
  /\ rt' \in [server : Nat \ {0}, client : Nat \ {0}]
  /\ kind = "graph" => token \notin Handed
  /\ kind # "graph" => token \in hist'.unstated \/ until <= exp'[token] + late'[token]
  /\ kind # "graph" => token \in hist'.unstated \/ now + Skew < exp'[token] + late'[token]

(* Whatever the client, the one that fetches puts the token it got in the   *)
(* cache.                                                                   *)
LEMMA GotKeeps ==
  ASSUME TokenInv, NEW c \in Call, Fetching(c), NEW token, NEW until,
         Got(c, token, until), Keep(c, token, until), RefreshInv', LateInv'
  PROVE  TokenInv'
<1>1. /\ Shape /\ pc[c] \in {"fetch", "refetch"} /\ mu = c /\ CallInv(c) /\ CacheInv
      /\ up /\ ~Fresh
  BY Holder, Strangers DEF TokenInv, Fetching, CacheInv
<1>2. cache' = [token |-> token, until |-> until] /\ mu' = None
  BY DEF Keep
<1>3. /\ kind' = kind /\ now' = now /\ revoked' = revoked /\ up' = up
      /\ exp' \in Seq(Nat) /\ Len(exp) <= Len(exp') /\ Len(exp') <= Bound[kind].tokens
      /\ late' \in Seq(Nat) /\ file' = file
      /\ token \in Handed' /\ until \in Nat /\ hist' \in History
      /\ rt' \in [server : Nat \ {0}, client : Nat \ {0}]
  BY DEF Got
<1>4. token \in Nat /\ token # None
  BY <1>3, Strangers DEF Handed
<1>5. Settled(c) \/ Holds(c, token)
  BY <1>1, <1>4, HasTokenHolds DEF Keep
<1>6. Moves(c) /\ pc'[c] \notin {"refused", "fetch", "refetch"}
  BY <1>1, <1>5 DEF Settled, Holds, Ended
<1>7. Extends(c)
  <2>1. \A d \in Call \ {c} : mu' = d <=> mu = d
    BY <1>1, <1>2, Strangers
  <2>2. hist'.refused \in Nat /\ hist.refused <= hist'.refused
    BY <1>1 DEF Got, Shape, History
  <2>3. cache'.token # None /\ (kind # "graph" \/ cache'.token \notin Handed)
    BY <1>2, <1>4 DEF Got
  <2> QED
    BY <2>1, <2>2, <2>3 DEF Extends, Got
<1>8. CallInv(c)'
  <2>1. mu' # c
    BY <1>2, Strangers
  <2>2. CASE Settled(c)
    BY <2>1, <2>2, SettledCall
  <2>3. CASE Holds(c, token)
    <3>1. /\ pc'[c] \in {"send", "backoff"} /\ (pc'[c] = "send" => pc[c] = "fetch")
          /\ loc'[c].attempt = loc[c].attempt /\ loc'[c].refused = loc[c].refused
          /\ kind = "graph" => loc'[c].token = loc[c].token
          /\ kind # "graph" => loc'[c].token = token /\ loc'[c].at = now
      BY <1>1, <2>3 DEF Holds
    <3>2. Handed \subseteq Handed' /\ token \in Handed' /\ cache'.token = token
      BY <1>1, <1>2, <1>3 DEF Handed, Shape
    <3>3. /\ loc[c].token \in {None, Junk} \cup Handed /\ loc[c].refused \in {None, Junk} \cup Handed
          /\ loc[c].attempt <= Attempts /\ (pc[c] = "fetch" => loc[c].attempt < Attempts)
      BY <1>1 DEF CallInv
    <3>4. /\ loc'[c].token \in {None, Junk} \cup Handed'
          /\ loc'[c].refused \in {None, Junk} \cup Handed'
      BY <3>1, <3>2, <3>3
    <3>5. kind # "graph" =>
            \/ loc'[c].at + Skew < exp'[loc'[c].token] + late'[loc'[c].token]
            \/ loc'[c].token \in hist'.unstated
      BY <3>1 DEF Got
    <3>6. kind = "graph" /\ loc'[c].refused \in Handed' => cache'.token # loc'[c].refused
      <4>1. None \notin Handed' /\ Junk \notin Handed'
        BY Strangers DEF Handed
      <4>2. kind = "graph" => token \notin Handed
        BY DEF Got
      <4> QED
        BY <3>1, <3>2, <3>3, <4>1, <4>2
    <3> QED
      BY <1>3, <1>4, <2>1, <3>1, <3>2, <3>3, <3>4, <3>5, <3>6 DEF CallInv, Armed
  <2> QED
    BY <1>5, <2>2, <2>3
<1>9. \A d \in Call : CallInv(d)'
  BY <1>6, <1>7, <1>8, OthersKeep
<1>10. Shape'
  BY <1>1, <1>2, <1>3, <1>4, <1>6 DEF Moves, Shape
<1>11. CacheInv'
  <2>1. revoked' \subseteq Handed'
    BY <1>1, <1>3 DEF CacheInv, Handed, Shape
  <2>2. cache'.token = token /\ cache'.until = until
    BY <1>2
  <2>3. hist'.expiries # <<>> /\ until = hist'.expiries[Len(hist'.expiries)]
    <3> DEFINE e == hist.expiries
    <3>1. e \in Seq(Nat) /\ hist'.expiries = Append(e, until) /\ until \in Nat
      BY <1>1, <1>3 DEF Got, Shape, History
    <3>2. LET f == Append(e, until) IN f # <<>> /\ f[Len(f)] = until
      <4> HIDE DEF e
      <4> QED
        BY <3>1
    <3> QED
      BY <3>1, <3>2, Zenon
  <2>4. kind' = "graph" \/ until <= exp'[token] + late'[token] \/ token \in hist'.unstated
    BY DEF Got
  <2> QED
    BY <1>1, <1>2, <1>3, <2>1, <2>2, <2>3, <2>4 DEF CacheInv
<1>12. CountInv'
  <2>1. Refusing' = Refusing
    BY <1>1, <1>6 DEF Moves, Refusing
  <2>2. hist'.expiries = Append(hist.expiries, until) /\ hist'.refused = hist.refused
    BY DEF Got
  <2>3. cache'.until = until /\ cache'.token # None /\ UNCHANGED now
    BY <1>2, <1>3, <1>4
  <2> QED
    BY <1>1, <1>3, <2>1, <2>2, <2>3, CountKept
<1> QED
  BY <1>9, <1>10, <1>11, <1>12 DEF TokenInv

(* A token from the identity server, with its rotation.                     *)
LEMMA FetchedKeeps ==
  ASSUME TokenInv, NEW c \in Call, Fetched(c)
  PROVE  TokenInv'
<1>1. /\ Shape /\ RefreshInv /\ LateInv /\ Fetching(c) /\ Len(exp) < Bound[kind].tokens /\ Refreshed
      /\ UNCHANGED <<kind, now, revoked, file, up>>
  BY DEF TokenInv, Fetched
<1>2. PICK issued \in loc[c].at..now, life \in Lives, stated \in {TRUE, kind = "azure"} :
        LET until == IF stated THEN now + life ELSE Unstated IN
        /\ exp' = Append(exp, issued + life)
        /\ late' = Append(late, now - issued)
        /\ Keep(c, Len(exp) + 1, until)
        /\ hist' = [hist EXCEPT !.expiries = Append(@, until),
                                !.unstated = IF stated \/ kind = "graph" THEN @
                                                   ELSE @ \cup {Len(exp) + 1}]
  BY DEF Fetched
<1> DEFINE until == IF stated THEN now + life ELSE Unstated
           token == Len(exp) + 1
           known == IF stated \/ kind = "graph" THEN hist.unstated ELSE hist.unstated \cup {token}
<1>3. /\ now \in Nat /\ life \in Nat /\ life > Skew /\ Skew \in Nat /\ Fallback \in Nat
      /\ Len(exp) \in Nat /\ exp \in Seq(Nat) /\ late \in Seq(Nat) /\ Len(late) = Len(exp)
      /\ Patience \in Nat
  BY <1>1, Amounts, Bounded DEF Shape, LateInv
<1>31. /\ issued \in Nat /\ now - issued \in Nat
       /\ kind # "azure" => now - issued <= Patience
  <2>1. loc[c].at \in Nat
    BY <1>1 DEF Shape, Local
  <2>2. kind # "azure" => now - loc[c].at <= Patience
    BY DEF Fetched
  <2> QED
    BY <1>3, <2>1, <2>2
<1>4. until \in Nat /\ token \in Nat
  BY <1>3 DEF Unstated
<1>5. /\ exp' \in Seq(Nat) /\ Len(exp') = token /\ exp'[token] = issued + life
      /\ \A i \in Handed : exp'[i] = exp[i]
  BY <1>2, <1>3, <1>31 DEF Handed
<1>51. /\ late' \in Seq(Nat) /\ Len(late') = token /\ late'[token] = now - issued
       /\ \A i \in Handed : late'[i] = late[i]
  BY <1>2, <1>3, <1>31 DEF Handed
<1>52. exp'[token] + late'[token] = now + life
  BY <1>3, <1>31, <1>5, <1>51
<1>53. LateInv'
  <2>1. kind # "azure" => \A i \in 1..token : late'[i] <= Patience
    <3>1. kind # "azure" => \A i \in 1..Len(exp) : late'[i] <= Patience
      BY <1>1, <1>51 DEF LateInv, Handed
    <3>2. \A i \in 1..token : i = token \/ i \in 1..Len(exp)
      BY <1>3
    <3> QED
      BY <1>31, <1>51, <3>1, <3>2
  <2>2. file.token # None => /\ file.token = 1 /\ exp' # <<>> /\ 1 \in Handed
                             /\ file.until <= exp[1] + late[1]
    BY <1>1, <1>3, <1>5 DEF LateInv, Handed
  <2>3. file.token # None => file.until <= exp'[1] + late'[1]
    BY <1>5, <1>51, <2>2
  <2> HIDE DEF token
  <2> QED
    BY <1>1, <1>5, <1>51, <2>1, <2>2, <2>3 DEF LateInv, Handed
<1>6. Keep(c, token, until)
  BY <1>2
<1>7. /\ hist' \in History /\ hist'.refused = hist.refused
      /\ hist'.expiries = Append(hist.expiries, until) /\ hist'.unstated = known
      /\ hist'.denied = hist.denied /\ hist'.lost = hist.lost /\ hist'.restarted = hist.restarted
  <2>1. hist' = [hist EXCEPT !.expiries = Append(hist.expiries, until), !.unstated = known]
    BY <1>2, Zenon
  <2>2. hist \in History /\ known \in SUBSET Nat /\ Append(hist.expiries, until) \in Seq(Nat)
    BY <1>1, <1>4 DEF Shape, History
  <2> HIDE DEF until, known, token
  <2> QED
    BY <2>1, <2>2 DEF History
<1>8. /\ rt' \in [server : Nat \ {0}, client : Nat \ {0}]
      /\ {rt'.server, rt'.client} \subseteq 1..(Bound[kind].tokens + 1)
      /\ rt'.client = rt'.server => rt'.server <= token + 1 \/ kind # "codex"
      /\ rt'.client # rt'.server => rt.client # rt.server
  <2>1. Bound[kind].tokens \in Nat
    BY <1>1, Bounded DEF Shape
  <2>2. /\ rt.server \in Nat \ {0} /\ rt.client \in Nat \ {0}
        /\ rt.server <= Bound[kind].tokens + 1 /\ rt.client <= Bound[kind].tokens + 1
        /\ rt.client = rt.server => rt.server <= Len(exp) + 1 \/ kind # "codex"
    BY <1>1, <2>1 DEF Shape, RefreshInv
  <2>3. CASE rt' = rt
    BY <1>1, <1>3, <2>1, <2>2, <2>3 DEF Shape
  <2>4. CASE kind = "codex" /\ rt.client = rt.server /\ rt' = Rotate(rt.server + 1)
    <3>1. rt' = [server |-> rt.server + 1, client |-> rt.server + 1]
      BY <2>4 DEF Rotate
    <3>2. rt.server <= Len(exp) + 1
      BY <2>2, <2>4
    <3> QED
      BY <1>1, <1>3, <2>1, <2>2, <3>1, <3>2
  <2> QED
    BY <1>1, <2>3, <2>4 DEF Refreshed
<1>9. RefreshInv'
  <2>1. Len(exp') = token /\ exp' # <<>> /\ kind' = kind
    BY <1>1, <1>3, <1>5
  <2>2. rt.client # rt.server \/ hist.denied => hist.lost \/ hist.restarted
    BY <1>1 DEF RefreshInv
  <2> QED
    BY <1>7, <1>8, <2>1, <2>2 DEF RefreshInv
<1>10. Got(c, token, until)
  <2>1. Len(exp) <= Len(exp') /\ Len(exp') <= Bound[kind].tokens
    <3>1. Len(exp) \in Nat /\ Len(exp') = Len(exp) + 1
      BY <1>3, <1>5
    <3>2. Bound[kind].tokens \in Nat
      BY <1>1, Bounded DEF Shape
    <3>3. Len(exp) < Bound[kind].tokens
      BY <1>1
    <3> HIDE DEF token, until, known
    <3> QED
      BY <3>1, <3>2, <3>3
  <2>2. token \in Handed' /\ token \notin Handed
    BY <1>3, <1>5 DEF Handed
  <2>3. hist.unstated \subseteq hist'.unstated
    BY <1>7
  <2>4. kind # "graph" => token \in hist'.unstated \/ until <= exp'[token] + late'[token]
    BY <1>3, <1>52, <1>7
  <2>5. kind # "graph" => token \in hist'.unstated \/ now + Skew < exp'[token] + late'[token]
    BY <1>3, <1>52, <1>7
  <2> HIDE DEF until, token, known
  <2> QED
    BY <1>1, <1>4, <1>5, <1>51, <1>7, <1>8, <2>1, <2>2, <2>3, <2>4, <2>5 DEF Got
<1> HIDE DEF until, token, known
<1> QED
  BY <1>1, <1>6, <1>9, <1>10, <1>53, GotKeeps

(* A token from the cache of the Azure library.                             *)
LEMMA FetchedAgainKeeps ==
  ASSUME TokenInv, NEW c \in Call, FetchedAgain(c)
  PROVE  TokenInv'
<1> DEFINE token == Len(exp)
           until == exp[Len(exp)] + late[Len(exp)]
<1>1. /\ Shape /\ RefreshInv /\ LateInv /\ CacheInv /\ Fetching(c) /\ kind = "azure" /\ exp # <<>>
      /\ now + Skew < until /\ Keep(c, token, until)
      /\ hist' = [hist EXCEPT !.expiries = Append(@, until)]
      /\ UNCHANGED <<kind, now, exp, late, revoked, rt, file, up>>
  BY DEF TokenInv, FetchedAgain, auth
<1>2. exp \in Seq(Nat) /\ token \in Handed /\ until \in Nat /\ Len(exp) \in Nat
  <2>1. exp \in Seq(Nat) /\ Len(exp) \in Nat /\ token \in Handed
    BY <1>1 DEF Shape, Handed
  <2> QED
    BY <2>1, Dates
<1>3. /\ hist' \in History /\ hist'.refused = hist.refused
      /\ hist'.expiries = Append(hist.expiries, until) /\ hist'.unstated = hist.unstated
      /\ hist'.denied = hist.denied /\ hist'.lost = hist.lost /\ hist'.restarted = hist.restarted
  <2>1. hist' = [hist EXCEPT !.expiries = Append(hist.expiries, until)]
    BY <1>1, Zenon
  <2>2. hist \in History /\ Append(hist.expiries, until) \in Seq(Nat)
    BY <1>1, <1>2 DEF Shape, History
  <2> HIDE DEF until
  <2> QED
    BY <2>1, <2>2 DEF History
<1>4. RefreshInv' /\ LateInv'
  BY <1>1, <1>3 DEF RefreshInv, LateInv, Handed
<1>5. Got(c, token, until)
  BY <1>1, <1>2, <1>3 DEF Got, Handed, Shape, CacheInv
<1> QED
  BY <1>1, <1>4, <1>5, GotKeeps

(* A fetch that fails gives the mutex back and leaves the cache as it was.  *)
LEMMA FetchFailsKeeps ==
  ASSUME TokenInv, NEW c \in Call, FetchFails(c)
  PROVE  TokenInv'
<1>1. /\ Shape /\ RefreshInv /\ CacheInv /\ pc[c] \in {"fetch", "refetch"} /\ mu = c /\ mu' = None
      /\ UNCHANGED <<kind, now, exp, late, revoked, cache, file, up>> /\ Return(c, "failed")
  BY Holder DEF TokenInv, FetchFails, Fetching
<1>2. Settled(c) /\ pc'[c] = "failed"
  BY <1>1, ReturnSettles DEF Ended
<1>3. \/ UNCHANGED <<rt, hist>>
      \/ /\ kind = "codex" /\ rt.client = rt.server /\ rt.server < Bound[kind].tokens
         /\ rt' = [rt EXCEPT !.server = @ + 1]
         /\ hist' = [hist EXCEPT !.lost = TRUE]
      \/ /\ kind = "codex" /\ rt.client # rt.server
         /\ hist' = [hist EXCEPT !.denied = TRUE]
         /\ UNCHANGED rt
  BY DEF FetchFails
<1>4. /\ hist' \in History /\ hist'.refused = hist.refused /\ hist'.expiries = hist.expiries
      /\ hist'.unstated = hist.unstated
      /\ hist.lost \/ hist.restarted => hist'.lost \/ hist'.restarted
      /\ hist'.denied # hist.denied => rt.client # rt.server
      /\ rt' # rt => hist'.lost
  BY <1>1, <1>3 DEF Shape, History
<1>5. rt' \in [server : Nat \ {0}, client : Nat \ {0}] /\ RefreshInv'
  <2>1. Bound[kind].tokens \in Nat
    BY <1>1, Bounded DEF Shape
  <2>2. CASE UNCHANGED rt
    BY <1>1, <1>3, <1>4, <2>2 DEF RefreshInv, Shape, History
  <2>3. CASE /\ kind = "codex" /\ rt.client = rt.server /\ rt.server < Bound[kind].tokens
             /\ rt' = [rt EXCEPT !.server = @ + 1] /\ hist'.lost
    <3>1. /\ rt \in [server : Nat \ {0}, client : Nat \ {0}]
          /\ rt.server \in Nat \ {0} /\ rt.client \in Nat \ {0}
          /\ rt.server < Bound[kind].tokens /\ rt.client = rt.server
      BY <1>1, <2>3 DEF Shape
    <3> DEFINE more == rt.server + 1
    <3>2. rt' = [rt EXCEPT !.server = more] /\ more \in Nat \ {0}
      BY <2>3, <3>1
    <3> HIDE DEF more
    <3>3. /\ rt'.server = more /\ rt'.client = rt.client
          /\ rt' \in [server : Nat \ {0}, client : Nat \ {0}]
      BY <3>2, <3>1
    <3>4. rt'.server = rt.server + 1
      BY <3>3 DEF more
    <3>5. rt'.client # rt'.server /\ {rt'.server, rt'.client} \subseteq 1..(Bound[kind].tokens + 1)
      BY <2>1, <3>1, <3>3, <3>4
    <3> QED
      BY <1>1, <2>3, <3>3, <3>5 DEF RefreshInv
  <2> QED
    BY <1>3, <1>4, <2>2, <2>3
<1>6. mu' # c
  BY <1>1, Strangers
<1>7. CallInv(c)'
  BY <1>2, <1>6, SettledCall
<1>8. Extends(c)
  BY <1>1, <1>4, Strangers DEF Extends, Shape, History
<1>9. \A d \in Call : CallInv(d)'
  BY <1>2, <1>7, <1>8, OthersKeep DEF Settled
<1>10. Shape'
  BY <1>1, <1>2, <1>4, <1>5 DEF Settled, Moves, Shape
<1>11. LateInv' /\ CacheInv'
  BY <1>1, <1>4 DEF TokenInv, LateInv, CacheInv, Handed, Fresh
<1>12. CountInv'
  <2>1. Refusing' = Refusing
    BY <1>1, <1>2 DEF Settled, Moves, Refusing
  <2>2. Fresh' <=> Fresh
    BY <1>1 DEF Fresh
  <2> QED
    BY <1>1, <1>4, <2>1, <2>2, SameCount
<1> QED
  BY <1>5, <1>9, <1>10, <1>11, <1>12 DEF TokenInv

-----------------------------------------------------------------------------
(* The start, the world, and a restart.                                     *)

(* When no call has begun, or each has ended, the cache alone counts.       *)
LEMMA AtRest ==
  ASSUME Shape, NEW c \in Call, pc[c] \in {"idle"} \cup Ended, loc[c] = Locals, mu = None
  PROVE  CallInv(c)
<1>1. pc[c] \notin Using \cup Armed \cup {"token", "fetch", "refetch", "send", "peeked", "sent", "refused"}
  BY DEF Ended, Using, Armed
<1>2. loc[c].token = None /\ loc[c].refused = None /\ loc[c].attempt = 0
  BY LocalsFit
<1>3. mu # c /\ None \notin Handed
  BY Strangers, HandedNumbers
<1> QED
  BY <1>1, <1>2, <1>3, Amounts DEF CallInv

(* While no call has a token, none is counted but the cached one.           *)
LEMMA CountAtRest ==
  ASSUME Shape, Refusing = {}, hist.refused = 0, mu = None,
         \/ cache = Nothing /\ hist.expiries = <<>>
         \/ cache.token # None /\ hist.expiries = <<cache.until>>
  PROVE  CountInv
<1>1. IsFiniteSet(Refusing) /\ Cardinality(Refusing) = 0
  BY FS_EmptySet
<1>2. CASE cache = Nothing /\ hist.expiries = <<>>
  <2>1. Ahead = {}
    BY <1>2 DEF Ahead
  <2>2. Cardinality(Ahead) = 0
    BY <2>1, FS_EmptySet
  <2> QED
    BY <1>1, <2>2 DEF CountInv
<1>3. CASE cache.token # None /\ hist.expiries = <<cache.until>>
  <2>1. DOMAIN hist.expiries = {1} /\ hist.expiries[1] = cache.until
    BY <1>3
  <2>2. CASE Fresh
    <3>1. Ahead = {1}
      BY <2>1, <2>2 DEF Ahead, Fresh
    <3>2. Cardinality(Ahead) = 1
      BY <3>1, FS_Singleton
    <3> QED
      BY <1>1, <2>2, <3>2 DEF CountInv
  <2>3. CASE ~Fresh
    <3>1. Ahead = {}
      BY <1>3, <2>1, <2>3 DEF Ahead, Fresh
    <3>2. Cardinality(Ahead) = 0
      BY <3>1, FS_EmptySet
    <3> QED
      BY <1>1, <2>3, <3>2 DEF CountInv
  <2> QED
    BY <2>2, <2>3
<1> QED
  BY <1>2, <1>3

(* A client starts with no token, or with the one of its file.              *)
LEMMA InitHolds == Init => TokenInv
<1> SUFFICES ASSUME Init PROVE TokenInv
  OBVIOUS
<1>1. /\ kind \in Kinds /\ now = 0 /\ revoked = {} /\ cache = file /\ mu = None /\ up = TRUE
      /\ rt = [server |-> 1, client |-> 1]
      /\ pc = [c \in Call |-> "idle"] /\ loc = [c \in Call |-> Locals]
  BY DEF Init
<1>2. hist = [refused |-> 0, expiries |-> Expected, unstated |-> {},
              denied |-> FALSE, lost |-> FALSE, restarted |-> FALSE]
  BY DEF Init
<1> DEFINE Filed ==
      /\ exp \in Seq(Nat) /\ late \in Seq(Nat) /\ Len(exp) <= 1 /\ Len(late) = Len(exp)
      /\ Len(exp) \in Nat /\ \A i \in Handed : late[i] <= Patience
      /\ file \in [token : Nat \cup {None}, until : Nat]
      /\ \/ file = Nothing /\ Expected = <<>>
         \/ /\ file.token = 1 /\ exp # <<>> /\ file.until <= exp[1] + late[1]
            /\ Expected = <<file.until>>
<1>3. Filed
  <2>1. CASE exp = <<>> /\ late = <<>> /\ file = Nothing
    <3>1. file.token = None /\ file.until = 0
      BY <2>1 DEF Nothing
    <3> QED
      BY <2>1, <3>1 DEF Nothing, Expected, Handed
  <2>2. ASSUME NEW s \in Saved, exp = <<s.left>>, late = <<s.late>>,
               file = [token |-> 1, until |-> IF s.dated THEN s.left + s.late ELSE 0]
        PROVE  Filed
    <3>1. s.left \in Nat /\ s.late \in Nat /\ s.late <= Patience
      BY Amounts
    <3>2. /\ file.token = 1 /\ file.until \in Nat /\ file.until <= s.left + s.late
          /\ file \in [token : Nat \cup {None}, until : Nat]
      BY <2>2, <3>1
    <3>3. exp[1] = s.left /\ late[1] = s.late /\ Len(exp) = 1 /\ Len(late) = 1 /\ exp # <<>>
      BY <2>2
    <3>4. exp \in Seq(Nat) /\ late \in Seq(Nat)
      BY <2>2, <3>1
    <3>5. Expected = <<file.until>>
      BY <3>2, Strangers DEF Expected
    <3> QED
      BY <3>1, <3>2, <3>3, <3>4, <3>5 DEF Handed
  <2> QED
    BY <2>1, <2>2 DEF Init
<1>4. Bound[kind].time \in Nat /\ Bound[kind].tokens \in Nat \ {0}
  BY <1>1, Bounded
<1>5. Nothing.token = None /\ Nothing.until = 0 /\ 1 # None
  BY Strangers DEF Nothing
<1>6. hist \in History
  <2>1. file.until \in Nat
    BY <1>3
  <2>2. <<>> \in Seq(Nat) /\ <<file.until>> \in Seq(Nat)
    BY <2>1
  <2>3. Expected \in Seq(Nat)
    BY <1>3, <2>2
  <2> QED
    BY <1>2, <2>3 DEF History
<1>7. Shape
  <2>1. pc \in [Call -> Places] /\ loc \in [Call -> Local]
    BY <1>1, LocalsFit DEF Places
  <2> QED
    BY <1>1, <1>3, <1>4, <1>6, <2>1 DEF Shape
<1>8. RefreshInv
  BY <1>1, <1>2, <1>3, <1>4 DEF RefreshInv
<1>9. LateInv
  BY <1>3, <1>5 DEF LateInv
<1>10. CacheInv
  <2>1. cache.token # None => cache.token = 1 /\ 1 \in Handed
    <3>1. exp # <<>> => 1 \in Handed
      BY <1>3 DEF Handed
    <3> QED
      BY <1>1, <1>3, <1>5, <3>1
  <2>2. cache.token # None => /\ hist.expiries = <<cache.until>>
                              /\ cache.until <= exp[cache.token] + late[cache.token]
    BY <1>1, <1>2, <1>3, <1>5
  <2>3. cache.token # None =>
          hist.expiries # <<>> /\ cache.until = hist.expiries[Len(hist.expiries)]
    <3>1. \A time : <<time>> # <<>> /\ <<time>>[Len(<<time>>)] = time
      OBVIOUS
    <3> QED
      BY <2>2, <3>1
  <2> QED
    BY <1>1, <1>3, <1>4, <2>1, <2>2, <2>3 DEF CacheInv
<1>11. \A c \in Call : CallInv(c)
  BY <1>1, <1>7, AtRest
<1>12. CountInv
  <2>1. Refusing = {}
    BY <1>1 DEF Refusing
  <2>2. hist.refused = 0 /\ hist.expiries = Expected
    BY <1>2
  <2>3. \/ cache = Nothing /\ hist.expiries = <<>>
        \/ cache.token # None /\ hist.expiries = <<cache.until>>
    BY <1>1, <1>3, <1>5, <2>2
  <2> QED
    BY <1>1, <1>7, <2>1, <2>2, <2>3, CountAtRest
<1> QED
  BY <1>7, <1>8, <1>9, <1>10, <1>11, <1>12 DEF TokenInv

(* The end of a context and a revocation change nothing the invariant is    *)
(* about but the revoked tokens.                                            *)
LEMMA WorldKeeps ==
  ASSUME TokenInv, revoked' \subseteq Handed,
         UNCHANGED <<kind, now, exp, late, cache, mu, rt, file, pc, loc, up, hist>>
  PROVE  TokenInv'
<1>1. Shape' /\ RefreshInv' /\ LateInv' /\ CacheInv'
  BY DEF TokenInv, Shape, RefreshInv, LateInv, CacheInv, Handed, Fresh
<1>2. Ahead' = Ahead /\ Refusing' = Refusing /\ Fresh' = Fresh
  BY DEF Ahead, Refusing, Fresh
<1>3. CountInv'
  BY <1>2 DEF TokenInv, CountInv
<1>4. \A c \in Call : CallInv(c)'
  BY DEF TokenInv, CallInv, Handed
<1> QED
  BY <1>1, <1>3, <1>4 DEF TokenInv

(* The end of a caller's context.                                           *)
LEMMA ExpireKeeps ==
  ASSUME TokenInv, NEW c \in Call, Expire(c)
  PROVE  TokenInv'
  BY WorldKeeps DEF Expire, auth, TokenInv, CacheInv

(* A revocation by the identity server.                                     *)
LEMMA RevokeKeeps ==
  ASSUME TokenInv, Revoke
  PROVE  TokenInv'
<1>1. revoked' \subseteq Handed
  BY DEF Revoke, Handed
<1> QED
  BY <1>1, WorldKeeps DEF Revoke

(* Time only makes tokens less fresh.                                       *)
LEMMA TickKeeps ==
  ASSUME TokenInv, Tick
  PROVE  TokenInv'
<1>1. /\ Shape /\ now' = now + 1 /\ now < Bound[kind].time
      /\ UNCHANGED <<kind, exp, late, revoked, cache, mu, rt, file, pc, loc, up, hist>>
  BY DEF TokenInv, Tick, auth
<1>2. now \in Nat /\ Bound[kind].time \in Nat /\ Skew \in Nat /\ cache.until \in Nat
  BY <1>1, Bounded, Amounts DEF Shape
<1>3. Shape'
  BY <1>1, <1>2 DEF Shape
<1>4. RefreshInv' /\ LateInv' /\ CacheInv'
  BY <1>1, <1>2 DEF TokenInv, RefreshInv, LateInv, CacheInv, Handed, Fresh
<1>5. \A c \in Call : CallInv(c)'
  BY <1>1 DEF TokenInv, CallInv, Handed
<1>6. CountInv'
  <2> DEFINE n == Len(hist.expiries)
  <2>1. Refusing' = Refusing
    BY <1>1 DEF Refusing
  <2>2. Cardinality(Refusing') = Cardinality(Refusing)
    BY <2>1, Zenon
  <2>3. /\ IsFiniteSet(Ahead) /\ Cardinality(Ahead) \in Nat /\ hist.expiries \in Seq(Nat)
        /\ IsFiniteSet(Refusing) /\ Cardinality(Refusing) \in Nat /\ hist.refused \in Nat
        /\ Cardinality(Ahead) + Cardinality(Refusing) <= hist.refused + (IF Fresh THEN 1 ELSE 0)
    BY CountNumbers
  <2>4. Ahead' \subseteq Ahead
    BY <1>1, <1>2, <2>3 DEF Ahead
  <2>5. Fresh' => Fresh
    BY <1>1, <1>2 DEF Fresh
  <2>6. CASE Fresh /\ ~Fresh'
    <3>1. cache.until = hist.expiries[n] /\ hist.expiries # <<>>
      BY <2>6 DEF TokenInv, CacheInv, Fresh
    <3>2. n \in Ahead /\ n \notin Ahead'
      BY <1>1, <1>2, <2>3, <2>6, <3>1 DEF Ahead, Fresh
    <3>3. /\ IsFiniteSet(Ahead \ {n}) /\ Cardinality(Ahead \ {n}) \in Nat
          /\ Cardinality(Ahead \ {n}) <= Cardinality(Ahead) - 1
      BY <2>3, <3>2, OneOf
    <3>4. Ahead' \subseteq Ahead \ {n}
      BY <2>4, <3>2
    <3>5. Cardinality(Ahead') <= Cardinality(Ahead \ {n}) /\ IsFiniteSet(Ahead')
      BY <3>3, <3>4, FS_Subset
    <3>6. Cardinality(Ahead') \in Nat
      BY <3>5, FS_CardinalityType
    <3> QED
      BY <1>1, <2>1, <2>2, <2>3, <2>6, <3>3, <3>5, <3>6 DEF CountInv
  <2>7. CASE Fresh' <=> Fresh
    <3>1. Cardinality(Ahead') <= Cardinality(Ahead) /\ IsFiniteSet(Ahead')
      BY <2>3, <2>4, FS_Subset
    <3>2. Cardinality(Ahead') \in Nat
      BY <3>1, FS_CardinalityType
    <3> QED
      BY <1>1, <2>1, <2>2, <2>3, <2>7, <3>1, <3>2 DEF CountInv
  <2> QED
    BY <2>5, <2>6, <2>7
<1> QED
  BY <1>3, <1>4, <1>5, <1>6 DEF TokenInv

(* A process that starts again has the token of the file, as old as it is.  *)
LEMMA RestartKeeps ==
  ASSUME TokenInv, Restart
  PROVE  TokenInv'
<1>1. /\ Shape /\ RefreshInv /\ LateInv /\ CacheInv /\ kind \in {"custom", "codex"} /\ mu' = None
      /\ UNCHANGED <<kind, now, exp, late, revoked, file, up>>
  BY DEF TokenInv, Restart
<1>2. /\ pc' = [c \in Call |-> IF pc[c] \in {"idle"} \cup Ended THEN pc[c] ELSE "killed"]
      /\ loc' = [c \in Call |-> Locals] /\ cache' = file
      /\ rt' = [rt EXCEPT !.client = 1]
      /\ hist' = [hist EXCEPT !.refused = 0, !.restarted = TRUE, !.expiries = Expected]
  BY DEF Restart
<1>3. exp \in Seq(Nat) /\ Len(exp) \in Nat
  BY <1>1 DEF Shape
<1>4. /\ file \in [token : Nat \cup {None}, until : Nat] /\ cache' = file
      /\ Expected = IF file.token = None THEN <<>> ELSE <<file.until>>
      /\ Expected \in Seq(Nat)
  BY <1>1, <1>2 DEF Shape, Expected
<1>5. /\ hist' \in History /\ hist'.refused = 0 /\ hist'.restarted = TRUE
      /\ hist'.expiries = Expected /\ hist'.unstated = hist.unstated
  <2>1. hist \in History
    BY <1>1 DEF Shape
  <2> HIDE DEF Expected
  <2> QED
    BY <1>2, <1>4, <2>1 DEF History
<1>6. /\ pc' \in [Call -> Places] /\ loc' \in [Call -> Local]
      /\ \A c \in Call : pc'[c] \in {"idle"} \cup Ended /\ loc'[c] = Locals
  BY <1>1, <1>2, LocalsFit DEF Shape, Places, Ended
<1>7. Bound[kind].tokens \in Nat /\ Bound[kind].time \in Nat
  BY <1>1, Bounded DEF Shape
<1>8. /\ rt' \in [server : Nat \ {0}, client : Nat \ {0}] /\ rt'.client = 1
      /\ rt'.server = rt.server
  BY <1>1, <1>2 DEF Shape
<1>9. Shape'
  BY <1>1, <1>4, <1>5, <1>6, <1>8 DEF Shape
<1>10. RefreshInv' /\ LateInv'
  BY <1>1, <1>3, <1>5, <1>7, <1>8 DEF RefreshInv, LateInv, Handed
<1>11. CacheInv'
  <2>1. file.token # None => /\ file.token = 1 /\ 1 \in Handed
                             /\ file.until <= exp[1] + late[1]
    BY <1>1, <1>3 DEF LateInv, Handed
  <2>2. up
    BY <1>1 DEF CacheInv
  <2>3. file.token # None =>
          hist'.expiries # <<>> /\ hist'.expiries[Len(hist'.expiries)] = file.until
    BY <1>4, <1>5
  <2> QED
    BY <1>1, <1>2, <2>1, <2>2, <2>3 DEF CacheInv, Handed
<1>12. \A c \in Call : CallInv(c)'
  <2>1. ASSUME NEW c \in Call PROVE CallInv(c)'
    <3>1. pc'[c] \notin Using \cup Armed
                       \cup {"token", "fetch", "refetch", "send", "peeked", "sent", "refused"}
      BY <1>6 DEF Ended, Using, Armed
    <3>2. loc'[c].token = None /\ loc'[c].refused = None /\ loc'[c].attempt = 0
      BY <1>6, LocalsFit
    <3>3. mu' # c /\ None \notin Handed'
      BY <1>1, Strangers DEF Handed
    <3> QED
      BY <3>1, <3>2, <3>3, Amounts DEF CallInv
  <2> QED
    BY <2>1
<1>13. CountInv'
  <2>1. Refusing' = {}
    BY <1>6 DEF Refusing, Ended
  <2>2. IsFiniteSet(Refusing') /\ Cardinality(Refusing') = 0
    BY <2>1, FS_EmptySet
  <2>3. hist'.refused = 0
    BY <1>5
  <2>4. CASE file.token = None
    <3>1. hist'.expiries = <<>> /\ ~Fresh'
      BY <1>2, <1>4, <1>5, <2>4 DEF Fresh
    <3>2. Ahead' = {}
      BY <3>1 DEF Ahead
    <3>3. Cardinality(Ahead') = 0
      BY <3>2, FS_EmptySet
    <3> QED
      BY <2>2, <2>3, <3>1, <3>3 DEF CountInv
  <2>5. CASE file.token # None
    <3>1. DOMAIN hist'.expiries = {1} /\ hist'.expiries[1] = file.until
      BY <1>4, <1>5, <2>5
    <3>2. Fresh' <=> now + Skew < file.until
      BY <1>1, <1>2, <2>5 DEF Fresh
    <3>3. Ahead' = IF Fresh' THEN {1} ELSE {}
      BY <1>1, <3>1, <3>2 DEF Ahead
    <3>4. Cardinality({1}) = 1 /\ Cardinality({}) = 0
      BY FS_Singleton, FS_EmptySet
    <3> QED
      BY <2>2, <2>3, <3>3, <3>4 DEF CountInv
  <2> QED
    BY <2>4, <2>5
<1> QED
  BY <1>9, <1>10, <1>11, <1>12, <1>13 DEF TokenInv

-----------------------------------------------------------------------------
(* The invariant.                                                           *)

(* Every step keeps the invariant.                                          *)
LEMMA NextKeeps == TokenInv /\ [Next]_vars => TokenInv'
<1> SUFFICES ASSUME TokenInv, [Next]_vars PROVE TokenInv'
  OBVIOUS
<1>1. ASSUME NEW c \in Call, Own(c) PROVE TokenInv'
  BY <1>1, BeginKeeps, SdkKeeps, ServeKeeps, AcquireKeeps, FetchedKeeps, FetchedAgainKeeps,
     FetchFailsKeeps, PeekKeeps, SendKeeps, InvalidateKeeps, BackoffKeeps DEF Own
<1>2. ASSUME NEW c \in Call, Answer(c) PROVE TokenInv'
  BY <1>2, AcceptKeeps, TroubleKeeps, UnauthorizedKeeps DEF Answer
<1>3. CASE UNCHANGED vars
  <2>1. revoked' \subseteq Handed
    BY <1>3 DEF vars, auth, TokenInv, CacheInv
  <2> QED
    BY <1>3, <2>1, WorldKeeps DEF vars, auth
<1> QED
  BY <1>1, <1>2, <1>3, ExpireKeeps, RevokeKeeps, TickKeeps, RestartKeeps DEF Next

(* However the calls of a client interleave, with what the identity server  *)
(* and the services answer, with the clock and a restart: the mutex is held *)
(* by the one call that fetches, the cached token is the last one got, and  *)
(* every token that is still good for longer than the skew is the cached    *)
(* one or was thrown away after a refusal of its own (getAccessToken,       *)
(* ensureToken, Token, invalidateToken).                                    *)
THEOREM TokenInductive == Spec => []TokenInv
<1>1. Init => TokenInv
  BY InitHolds
<1>2. TokenInv /\ [Next]_vars => TokenInv'
  BY NextKeeps
<1> QED
  BY <1>1, <1>2, PTL DEF Spec

-----------------------------------------------------------------------------
(* What follows from the invariant.                                         *)

(* The invariant has the types in it.                                       *)
LEMMA TypeFollows == TokenInv => TypeOK
<1> SUFFICES ASSUME TokenInv PROVE TypeOK
  OBVIOUS
<1>1. Shape /\ RefreshInv /\ CacheInv
  BY DEF TokenInv
<1>2. Bound[kind].tokens \in Nat /\ Len(exp) \in Nat
  BY <1>1, Bounded, HandedNumbers DEF Shape
<1>3. ASSUME NEW c \in Call
      PROVE  /\ loc[c].token \in Token /\ loc[c].attempt \in 0..Attempts
             /\ pc[c] \in {"fetch", "refetch"} <=> mu = c
  <2>1. CallInv(c) /\ loc[c].attempt \in Nat
    BY <1>1 DEF TokenInv, Shape, Local
  <2>2. Handed \subseteq 1..Bound[kind].tokens
    BY <1>1, <1>2 DEF CacheInv, Handed
  <2>3. loc[c].token \in {None, Junk} \cup Handed /\ loc[c].attempt <= Attempts
    BY <2>1 DEF CallInv
  <2>4. loc[c].token \in Token
    BY <2>2, <2>3 DEF Token
  <2>5. pc[c] \in {"fetch", "refetch"} <=> mu = c
    BY Holder
  <2> QED
    BY <2>1, <2>3, <2>4, <2>5, Amounts
<1>4. /\ kind \in Kinds /\ now \in 0..Bound[kind].time
      /\ cache.until \in Nat /\ mu \in Call \cup {None}
  BY <1>1 DEF Shape
<1>5. /\ Len(exp) <= Bound[kind].tokens /\ Len(late) = Len(exp) /\ revoked \subseteq 1..Len(exp)
      /\ cache.token \in {None} \cup 1..Len(exp)
      /\ {rt.server, rt.client} \subseteq 1..Bound[kind].tokens + 1
  BY <1>1 DEF TokenInv, CacheInv, LateInv, RefreshInv, Handed
<1> QED
  BY <1>3, <1>4, <1>5 DEF TypeOK

(* A fetch beyond the first is behind in time or counted as refused.        *)
LEMMA FetchesFollow == TokenInv => FetchesExplained
<1> SUFFICES ASSUME TokenInv PROVE FetchesExplained
  OBVIOUS
<1> DEFINE all == DOMAIN hist.expiries
           stale == {i \in DOMAIN hist.expiries : now + Skew >= hist.expiries[i]}
<1>1. /\ IsFiniteSet(Ahead) /\ Cardinality(Ahead) \in Nat /\ hist.expiries \in Seq(Nat)
      /\ Cardinality(Refusing) \in Nat /\ hist.refused \in Nat /\ now \in Nat
      /\ Cardinality(Ahead) + Cardinality(Refusing) <= hist.refused + (IF Fresh THEN 1 ELSE 0)
  BY CountNumbers
<1>2. Cardinality(Ahead) <= hist.refused + 1
  BY <1>1
<1>3. all = 1..Len(hist.expiries) /\ Len(hist.expiries) \in Nat
  BY <1>1
<1>4. IsFiniteSet(1..Len(hist.expiries)) /\ Cardinality(1..Len(hist.expiries)) = Len(hist.expiries)
  BY <1>3, FS_Interval
<1>5. stale \subseteq 1..Len(hist.expiries)
  BY <1>3
<1>6. IsFiniteSet(stale) /\ Cardinality(stale) \in Nat
  BY <1>4, <1>5, FS_Subset, FS_CardinalityType
<1>7. 1..Len(hist.expiries) = stale \cup Ahead
  BY <1>1, <1>3, Amounts DEF Ahead
<1>8. stale \cap Ahead = {}
  BY <1>1, Amounts DEF Ahead
<1>9. Cardinality(stale \cup Ahead) = Cardinality(stale) + Cardinality(Ahead) - Cardinality(stale \cap Ahead)
  BY <1>1, <1>6, FS_Union
<1>10. Cardinality(stale \cap Ahead) = 0
  BY <1>8, FS_EmptySet
<1>11. Len(hist.expiries) = Cardinality(stale \cup Ahead)
  BY <1>4, <1>7, Zenon
<1>12. Len(hist.expiries) <= 1 + Cardinality(stale) + hist.refused
  <2> HIDE DEF stale
  <2> QED
    BY <1>1, <1>2, <1>3, <1>6, <1>9, <1>10, <1>11
<1> QED
  BY <1>12 DEF FetchesExplained

(* Who sends no token once had one, and it was thrown away.                 *)
LEMMA EmptyFollows == TokenInv => EmptyTokenHasCause
<1> SUFFICES ASSUME TokenInv PROVE EmptyTokenHasCause
  OBVIOUS
<1>1. ASSUME NEW c \in Call, At(c, "sent"), loc[c].token = None PROVE hist.refused > 0
  <2>1. CallInv(c) /\ pc[c] = "sent" /\ pc[c] \in Using /\ None \notin Handed
    BY <1>1, HandedNumbers DEF TokenInv, At, Using
  <2>2. CASE kind = "graph"
    BY <1>1, <2>1, <2>2 DEF CallInv
  <2>3. CASE kind # "graph"
    BY <1>1, <2>1, <2>3 DEF CallInv
  <2> QED
    BY <2>2, <2>3
<1> QED
  BY <1>1 DEF EmptyTokenHasCause, TokenInv, CacheInv

(* A token is good for the skew from the moment it was handed out, less the *)
(* time its answer took.                                                    *)
LEMMA DelayFollows == TokenInv => ExpiryNeedsDelay
<1> SUFFICES ASSUME TokenInv, NEW c \in Call, kind # "graph", At(c, "sent"),
                    now >= exp[loc[c].token], loc[c].token \notin hist.unstated
             PROVE  /\ late[loc[c].token] + (now - loc[c].at) > Skew
                    /\ kind # "azure" /\ Patience <= Skew => loc[c].at < exp[loc[c].token]
  BY DEF ExpiryNeedsDelay
<1> DEFINE token == loc[c].token
<1>1. Shape /\ CallInv(c) /\ LateInv /\ pc[c] \in Using /\ pc[c] \in Armed
  BY DEF TokenInv, At, Using, Armed
<1>2. token \in Handed /\ loc[c].at + Skew < exp[token] + late[token]
  BY <1>1 DEF CallInv
<1>3. now \in Nat /\ Skew \in Nat /\ Patience \in Nat
  BY <1>1, Bounded, Amounts DEF Shape
<1>4. loc[c].at \in Nat
  BY <1>1 DEF Shape, Local
<1>5. exp[token] \in Nat /\ late[token] \in Nat
  BY <1>2, Dates
<1>6. kind # "azure" => late[token] <= Patience
  BY <1>1, <1>2 DEF LateInv
<1> QED
  BY <1>2, <1>3, <1>4, <1>5, <1>6

(* Every variable keeps its type, and the mutex is held by the one call     *)
(* that fetches a token, whatever the calls, lifetimes and bounds.          *)
THEOREM TokenTypes == Spec => []TypeOK
  BY TokenInductive, TypeFollows, PTL

(* Callers that find a stale token at the same time fetch one between them: *)
(* each fetch has no token, a stale one or a refused one for its reason     *)
(* (getAccessToken, ensureToken, Token).                                    *)
THEOREM Fetches == Spec => []FetchesExplained
  BY TokenInductive, FetchesFollow, PTL

(* The unlocked read of graphRequest finds no token, or kills the process,  *)
(* only where a service has refused a token before.                         *)
THEOREM EmptyTokens == Spec => []EmptyTokenHasCause
  BY TokenInductive, EmptyFollows, PTL

(* A token that is on its way after it expired was under way for longer     *)
(* than the skew, from the identity server and from the cache, and where    *)
(* the timeout is no longer than the skew it was good when it was taken, or *)
(* its lifetime was never stated (Token, getAccessToken).                   *)
THEOREM Expiries == Spec => []ExpiryNeedsDelay
  BY TokenInductive, DelayFollows, PTL

(* The refresh token is refused only after an answer that rotated it was    *)
(* lost or the file's was read again (refreshWithRefreshToken).             *)
THEOREM RefreshRefusals == Spec => []RefreshRefusalExplained
<1>1. TokenInv => RefreshRefusalExplained
  BY DEF TokenInv, RefreshInv, RefreshRefusalExplained
<1> QED
  BY <1>1, TokenInductive, PTL

-----------------------------------------------------------------------------
(* A refused token is not sent again.                                       *)

(* Only Send takes a call to where its request is under way.                *)
LEMMA EnterReaches ==
  ASSUME Shape, NEW c \in Call, NEW d \in Call, EnterNext(c), pc[d] # "sent"
  PROVE  pc'[d] # "sent"
  BY EnterNextSettles DEF Settled, Moves

(* Returning does not.                                                      *)
LEMMA ReturnReaches ==
  ASSUME Shape, NEW c \in Call, NEW d \in Call, NEW how \in Ended, Return(c, how), pc[d] # "sent"
  PROVE  pc'[d] # "sent"
  BY ReturnSettles DEF Settled, Moves, Ended

(* Going elsewhere does not.                                                *)
LEMMA GotoReaches ==
  ASSUME Shape, NEW c \in Call, NEW d \in Call, NEW p \in Places \ {"sent"}, Goto(c, p), pc[d] # "sent"
  PROVE  pc'[d] # "sent"
  BY GotoMoves

(* Getting a token does not.                                                *)
LEMMA HasTokenReaches ==
  ASSUME Shape, NEW c \in Call, NEW d \in Call, NEW token, HasToken(c, token), pc[d] # "sent"
  PROVE  pc'[d] # "sent"
<1>1. CASE EnterNext(c)
  BY <1>1, EnterReaches
<1>2. CASE Goto(c, "send") \/ Goto(c, "backoff")
  BY <1>2, GotoReaches DEF Places
<1> QED
  BY <1>1, <1>2 DEF HasToken

(* No step of a call's own but Send does.                                   *)
LEMMA OwnReaches ==
  ASSUME Shape, NEW c \in Call, NEW d \in Call, Own(c), ~Send(c), pc[d] # "sent"
  PROVE  pc'[d] # "sent"
<1>1. CASE Begin(c)
  <2>1. PICK o \in OpsOf(kind) : Enter(c, o, 1) \/ Return(c, "failed")
    BY <1>1 DEF Begin
  <2>2. o \in Operation
    BY Asked DEF Shape
  <2> QED
    BY <2>1, <2>2, EnterSettles, ReturnReaches DEF Settled, Moves, Ended
<1>2. CASE Sdk(c)
  BY <1>2, EnterReaches, ReturnReaches DEF Sdk, Ended
<1>3. CASE Serve(c) \/ Fetched(c) \/ FetchedAgain(c)
  <2>1. PICK token : HasToken(c, token)
    BY <1>3 DEF Serve, Fetched, FetchedAgain, Keep
  <2> QED
    BY <2>1, HasTokenReaches
<1>4. CASE Acquire(c)
  <2>1. Goto(c, "fetch") \/ Goto(c, "refetch")
    BY <1>4 DEF Acquire, Ask
  <2> QED
    BY <2>1, GotoReaches DEF Places
<1>5. CASE FetchFails(c)
  BY <1>5, ReturnReaches DEF FetchFails, Ended
<1>6. CASE Peek(c)
  BY <1>6, GotoReaches DEF Peek, Places
<1>7. CASE Invalidate(c)
  BY <1>7, GotoReaches DEF Invalidate, Places
<1>8. CASE Backoff(c)
  BY <1>8, GotoReaches, ReturnReaches DEF Backoff, Places, Ended
<1> QED
  BY <1>1, <1>2, <1>3, <1>4, <1>5, <1>6, <1>7, <1>8 DEF Own

(* No answer does.                                                          *)
LEMMA AnswerReaches ==
  ASSUME Shape, NEW c \in Call, NEW d \in Call, Answer(c), pc[d] # "sent"
  PROVE  pc'[d] # "sent"
<1>1. ASSUME NEW p \in {"backoff", "refused"}, NEW refused, NEW body, Again(c, p, refused, body)
      PROVE  pc'[d] # "sent"
  BY <1>1, GotoReaches, ReturnReaches DEF Again, Places, Ended
<1>2. CASE Accept(c) \/ Reject(c)
  BY <1>2, EnterReaches, ReturnReaches DEF Accept, Reject, Ended
<1>3. CASE Trouble(c)
  BY <1>1, <1>3 DEF Trouble
<1>4. CASE Unauthorized(c)
  BY <1>1, <1>4 DEF Unauthorized
<1> QED
  BY <1>2, <1>3, <1>4 DEF Answer

(* What a call of "graph" sends is not what was refused to it.              *)
LEMMA SendDrops ==
  ASSUME TokenInv, NEW c \in Call, Send(c), kind = "graph", At(c, "sent")'
  PROVE  loc'[c].token \notin {loc[c].refused} \ {None, Junk}
<1>1. Shape /\ CacheInv /\ CallInv(c) /\ pc[c] = "peeked" /\ pc'[c] = "sent"
  BY DEF TokenInv, Send, At
<1>2. PICK token \in Torn(loc[c].token, cache.token) :
        \/ /\ token # Crash
           /\ loc' = [loc EXCEPT ![c].token = token, ![c].attempt = @ + 1,
                                 ![c].body = Drain(Request(c), @)]
        \/ Return(c, "killed")
  BY DEF Send
<1>3. ~Return(c, "killed")
  BY <1>1, ReturnSettles DEF Ended
<1>4. loc'[c].token = token
  <2>1. loc \in [Call -> Local]
    BY <1>1 DEF Shape
  <2> DEFINE body == Drain(Request(c), loc[c].body)
  <2>2. loc' = [loc EXCEPT ![c].token = token, ![c].attempt = loc[c].attempt + 1, ![c].body = body]
    BY <1>2, <1>3
  <2> HIDE DEF body
  <2> QED
    BY <2>1, <2>2 DEF Local
<1>5. loc[c].token \in {None} \cup Handed /\ cache.token \in {None} \cup Handed
  BY <1>1 DEF CallInv, CacheInv
<1>6. token \in {loc[c].token, cache.token, None, Junk}
  BY <1>1, <1>2, <1>3, <1>5, TornTokens
<1>7. loc[c].refused \in Handed => loc[c].token # loc[c].refused /\ cache.token # loc[c].refused
  BY <1>1 DEF CallInv
<1>8. loc[c].refused \in {None, Junk} \cup Handed
  BY <1>1 DEF CallInv
<1> QED
  BY <1>4, <1>5, <1>6, <1>7, <1>8

(* A process that has ended sends nothing more.                             *)
LEMMA Down ==
  ASSUME Next, up'
  PROVE  up
  BY DEF Next, Own, Answer, Begin, Sdk, Serve, Acquire, Fetched, FetchedAgain, FetchFails, Fetching,
     Peek, Send, Invalidate, Backoff, Accept, Reject, Trouble, Unauthorized, Answered, At,
     Expire, Active, Revoke, Tick, Restart

(* A call of the Microsoft 365 connector never sends a token again that was *)
(* refused to it, whatever the other calls do meanwhile (graphRequest,      *)
(* invalidateToken).                                                        *)
THEOREM RefusedTokens == Spec => RefusedTokenDropped
<1>1. ASSUME TokenInv, [Next]_vars, NEW c \in Call, kind = "graph", ~At(c, "sent"), At(c, "sent")'
      PROVE  loc'[c].token \notin {loc[c].refused} \ {None, Junk}
  <2>1. Next
    BY <1>1 DEF vars, At
  <2>2. pc[c] # "sent" /\ pc'[c] = "sent" /\ Shape
    BY <1>1, <2>1, Down DEF At, TokenInv
  <2>3. PICK d \in Call : Own(d) \/ Answer(d) \/ Expire(d)
    BY <2>1, <2>2 DEF Next, Revoke, Tick, Restart, Ended
  <2>4. CASE Send(d)
    <3>1. d = c
      BY <2>2, <2>4, GotoMoves, ReturnSettles DEF Send, Places, Ended, Settled, Moves
    <3> QED
      BY <1>1, <2>4, <3>1, SendDrops
  <2>5. CASE Own(d) /\ ~Send(d)
    BY <2>2, <2>5, OwnReaches
  <2>6. CASE Answer(d)
    BY <2>2, <2>6, AnswerReaches
  <2>7. CASE Expire(d)
    BY <2>2, <2>7 DEF Expire
  <2> QED
    BY <2>3, <2>4, <2>5, <2>6, <2>7
<1>2. TokenInv /\ [Next]_vars
        => [\A c \in Call : kind = "graph" /\ ~At(c, "sent") /\ At(c, "sent")'
              => loc'[c].token \notin {loc[c].refused} \ {None, Junk}]_vars
  BY <1>1
<1> QED
  BY <1>2, TokenInductive, PTL DEF Spec, RefusedTokenDropped

-----------------------------------------------------------------------------
(* Streams.                                                                 *)

(* How the loop of parseOpenAICodexStream goes, n events far, and where the *)
(* events of some kinds are among those.                                    *)
Reads(events, read, n) ==
  read = [i \in 0..n |-> IF i = 0 THEN Unread ELSE handleEvent(read[i - 1], events[i])]

Upto(events, kinds, n) == {i \in 1..n : events[i] \in kinds}

Stops == {"stop", "length", "toolUse", "error"}

Response ==
  [texts : Nat, calls : Nat, usage : BOOLEAN, stop : Stops \cup {""}, failed : BOOLEAN]

(* What was read agrees with the events so far: the calls that its stop     *)
(* reason counts are those before the last end.                             *)
Agrees(events, resp, n) ==
  /\ resp \in Response
  /\ resp.failed <=> Upto(events, Faults, n) # {}
  /\ ~resp.failed =>
       /\ resp.texts = Cardinality(Upto(events, {"text"}, n))
       /\ resp.calls = Cardinality(Upto(events, {"call"}, n))
       /\ resp.usage <=> Upto(events, Ends \cup {"ended"}, n) # {}
       /\ resp.stop = "" <=> Upto(events, Ends, n) = {}
       /\ \A e \in Upto(events, Ends, n) :
            (\A i \in Upto(events, Ends, n) : i <= e) =>
              resp.stop = StopReason(events[e], Cardinality(Upto(events, {"call"}, e)))

(* The loop can be run on any stream, one event after the other.            *)
LEMMA ReadsExist ==
  ASSUME NEW events \in Seq(Event), NEW n \in 0..Len(events)
  PROVE  \E read : Reads(events, read, n)
<1> DEFINE Run == {k \in 0..n : \E read : Reads(events, read, k)}
<1>1. 0 \in Run
  <2>1. Reads(events, [i \in 0..0 |-> Unread], 0)
    BY DEF Reads
  <2> QED
    BY <2>1
<1>2. ASSUME NEW k \in 0..n, k # n, k \in Run
      PROVE  k + 1 \in Run
  <2>1. PICK read : Reads(events, read, k)
    BY <1>2
  <2> DEFINE more == [i \in 0..(k + 1) |->
                        IF i = k + 1 THEN handleEvent(read[k], events[k + 1]) ELSE read[i]]
  <2>2. ASSUME NEW i \in 0..(k + 1)
        PROVE  more[i] = IF i = 0 THEN Unread ELSE handleEvent(more[i - 1], events[i])
    BY <2>1 DEF Reads
  <2>3. Reads(events, more, k + 1)
    BY <2>2 DEF Reads
  <2>4. k + 1 \in 0..n
    BY <1>2
  <2> QED
    BY <2>3, <2>4
<1>3. \A k \in 0..n : k \in Run
  <2> HIDE DEF Run
  <2>1. n \in Nat
    OBVIOUS
  <2> QED
    BY <1>1, <1>2, <2>1, Upward
<1> QED
  BY <1>3

(* One event more is one more of its kind.                                  *)
LEMMA UptoNext ==
  ASSUME NEW events, NEW kinds, NEW n \in Nat
  PROVE  /\ IsFiniteSet(Upto(events, kinds, n)) /\ Cardinality(Upto(events, kinds, n)) \in Nat
         /\ events[n + 1] \notin kinds => Upto(events, kinds, n + 1) = Upto(events, kinds, n)
         /\ events[n + 1] \in kinds =>
              /\ Upto(events, kinds, n + 1) = Upto(events, kinds, n) \cup {n + 1}
              /\ Cardinality(Upto(events, kinds, n + 1)) = Cardinality(Upto(events, kinds, n)) + 1
<1>1. Upto(events, kinds, n) \in SUBSET (1..n) /\ n + 1 \notin Upto(events, kinds, n)
  BY DEF Upto
<1>2. IsFiniteSet(Upto(events, kinds, n)) /\ Cardinality(Upto(events, kinds, n)) \in Nat
  <2>1. IsFiniteSet(1..n)
    BY FS_Interval
  <2>2. IsFiniteSet(Upto(events, kinds, n))
    BY <1>1, <2>1, FS_Subset
  <2> QED
    BY <2>2, FS_CardinalityType
<1>3. events[n + 1] \notin kinds => Upto(events, kinds, n + 1) = Upto(events, kinds, n)
  BY DEF Upto
<1>4. events[n + 1] \in kinds => Upto(events, kinds, n + 1) = Upto(events, kinds, n) \cup {n + 1}
  BY DEF Upto
<1>5. Cardinality(Upto(events, kinds, n) \cup {n + 1}) = Cardinality(Upto(events, kinds, n)) + 1
  BY <1>1, <1>2, FS_AddElement
<1> QED
  BY <1>2, <1>3, <1>4, <1>5

(* Stop reasons are never left open.                                        *)
LEMMA StopReasons ==
  ASSUME NEW status, NEW calls \in Nat
  PROVE  /\ StopReason(status, calls) \in Stops
         /\ StopReason(status, calls) = "toolUse" <=>
              status \notin {"incomplete", "cancelled"} /\ calls > 0
<1>1. CASE status = "incomplete"
  <2>1. StopReason(status, calls) = "length"
    BY <1>1 DEF StopReason
  <2> QED
    BY <1>1, <2>1 DEF Stops
<1>2. CASE status = "cancelled"
  <2>1. StopReason(status, calls) = "error"
    BY <1>2 DEF StopReason
  <2> QED
    BY <1>2, <2>1 DEF Stops
<1>3. CASE status \notin {"incomplete", "cancelled"}
  <2>1. StopReason(status, calls) = IF calls > 0 THEN "toolUse" ELSE "stop"
    BY <1>3 DEF StopReason
  <2> QED
    BY <1>3, <2>1 DEF Stops
<1> QED
  BY <1>1, <1>2, <1>3

(* One text, or one call, more.                                             *)
LEMMA OneMore ==
  ASSUME NEW resp \in Response
  PROVE  LET text == [resp EXCEPT !.texts = @ + 1]
             call == [resp EXCEPT !.calls = @ + 1]
         IN  /\ text \in Response /\ text.texts = resp.texts + 1 /\ text.calls = resp.calls
             /\ text.failed = resp.failed /\ text.usage = resp.usage /\ text.stop = resp.stop
             /\ call \in Response /\ call.calls = resp.calls + 1 /\ call.texts = resp.texts
             /\ call.failed = resp.failed /\ call.usage = resp.usage /\ call.stop = resp.stop
<1>1. resp.texts + 1 \in Nat /\ resp.calls + 1 \in Nat
  <2>1. resp.texts \in Nat /\ resp.calls \in Nat
    BY DEF Response
  <2> QED
    BY <2>1
<1>2. PICK texts \in Nat : texts = resp.texts + 1
  BY <1>1
<1>3. PICK calls \in Nat : calls = resp.calls + 1
  BY <1>1
<1>4. /\ [resp EXCEPT !.texts = texts] \in Response
      /\ [resp EXCEPT !.calls = calls] \in Response
  BY DEF Response
<1>5. /\ [resp EXCEPT !.texts = @ + 1] = [resp EXCEPT !.texts = texts]
      /\ [resp EXCEPT !.calls = @ + 1] = [resp EXCEPT !.calls = calls]
  BY <1>2, <1>3
<1>6. resp = [texts |-> resp.texts, calls |-> resp.calls, usage |-> resp.usage,
              stop |-> resp.stop, failed |-> resp.failed]
  BY DEF Response
<1>7. /\ [resp EXCEPT !.texts = texts].texts = texts
      /\ [resp EXCEPT !.calls = calls].calls = calls
  BY <1>6
<1> QED
  BY <1>2, <1>3, <1>4, <1>5, <1>6, <1>7

(* What handleEvent does with an event of each kind.                        *)
LEMMA Handled ==
  ASSUME NEW resp \in Response, NEW event \in Event
  PROVE  LET next == handleEvent(resp, event) IN
         /\ resp.failed => next = resp
         /\ ~resp.failed /\ event \in Faults => next \in Response /\ next.failed
         /\ ~resp.failed /\ event = "text" => next = [resp EXCEPT !.texts = @ + 1]
         /\ ~resp.failed /\ event = "call" => next = [resp EXCEPT !.calls = @ + 1]
         /\ ~resp.failed /\ event \in Ends =>
              next = [resp EXCEPT !.usage = TRUE, !.stop = StopReason(event, resp.calls)]
         /\ ~resp.failed /\ event = "ended" => next = [resp EXCEPT !.usage = TRUE]
         /\ ~resp.failed /\ event \in {"other", "garbled"} => next = resp
  BY DEF handleEvent, Event, Ends, Faults, Response

(* Each event is read for what it is.                                       *)
LEMMA AgreesNext ==
  ASSUME NEW events \in Seq(Event), NEW n \in Nat, n < Len(events),
         NEW resp, Agrees(events, resp, n)
  PROVE  Agrees(events, handleEvent(resp, events[n + 1]), n + 1)
<1> DEFINE event == events[n + 1]
           next == handleEvent(resp, event)
<1>0. resp \in Response /\ resp.calls \in Nat /\ event \in Event
  <2>1. resp \in Response
    BY DEF Agrees
  <2>2. resp.calls \in Nat
    BY <2>1 DEF Response
  <2>3. n + 1 \in 1..Len(events)
    OBVIOUS
  <2>4. event \in Event
    BY <2>3
  <2> QED
    BY <2>1, <2>2, <2>4
<1>1. \A kinds :
        /\ IsFiniteSet(Upto(events, kinds, n)) /\ Cardinality(Upto(events, kinds, n)) \in Nat
        /\ event \notin kinds => Upto(events, kinds, n + 1) = Upto(events, kinds, n)
        /\ event \in kinds =>
             /\ Upto(events, kinds, n + 1) = Upto(events, kinds, n) \cup {n + 1}
             /\ Cardinality(Upto(events, kinds, n + 1)) = Cardinality(Upto(events, kinds, n)) + 1
  BY UptoNext
<1>2. /\ resp.failed => next = resp
      /\ ~resp.failed /\ event \in Faults => next \in Response /\ next.failed
      /\ ~resp.failed /\ event = "text" => next = [resp EXCEPT !.texts = @ + 1]
      /\ ~resp.failed /\ event = "call" => next = [resp EXCEPT !.calls = @ + 1]
      /\ ~resp.failed /\ event \in Ends =>
           next = [resp EXCEPT !.usage = TRUE, !.stop = StopReason(event, resp.calls)]
      /\ ~resp.failed /\ event = "ended" => next = [resp EXCEPT !.usage = TRUE]
      /\ ~resp.failed /\ event \in {"other", "garbled"} => next = resp
  BY <1>0, Handled
<1> HIDE DEF event, next
<1>3. /\ event \in Event /\ resp \in Response /\ next = handleEvent(resp, event)
  BY <1>0 DEF next
<1>4. CASE resp.failed \/ event \in Faults
  <2>1. next.failed /\ next \in Response
    BY <1>2, <1>3, <1>4
  <2>2. Upto(events, Faults, n + 1) # {}
    BY <1>1, <1>4 DEF Agrees
  <2>3. Agrees(events, next, n + 1)
    BY <2>1, <2>2 DEF Agrees
  <2> QED
    BY <2>3 DEF next, event
<1>5. CASE ~resp.failed /\ event \notin Faults
  <2>1. /\ resp.texts = Cardinality(Upto(events, {"text"}, n))
        /\ resp.calls = Cardinality(Upto(events, {"call"}, n))
        /\ resp.usage <=> Upto(events, Ends \cup {"ended"}, n) # {}
        /\ resp.stop = "" <=> Upto(events, Ends, n) = {}
        /\ \A e \in Upto(events, Ends, n) :
             (\A i \in Upto(events, Ends, n) : i <= e) =>
               resp.stop = StopReason(events[e], Cardinality(Upto(events, {"call"}, e)))
        /\ Upto(events, Faults, n + 1) = {}
    BY <1>1, <1>5 DEF Agrees
  <2>2. CASE event \in Ends
    <3>1. /\ next = [resp EXCEPT !.usage = TRUE, !.stop = StopReason(event, resp.calls)]
          /\ event # "text" /\ event # "call"
      BY <1>2, <1>5, <2>2 DEF Ends
    <3>2. StopReason(event, resp.calls) \in Stops /\ StopReason(event, resp.calls) # ""
      BY <1>0, StopReasons DEF Stops
    <3>3. /\ next \in Response /\ ~next.failed /\ next.usage /\ next.stop = StopReason(event, resp.calls)
          /\ next.texts = resp.texts /\ next.calls = resp.calls
      BY <1>3, <1>5, <3>1, <3>2 DEF Response
    <3>4. /\ Upto(events, {"text"}, n + 1) = Upto(events, {"text"}, n)
          /\ Upto(events, {"call"}, n + 1) = Upto(events, {"call"}, n)
          /\ Upto(events, Ends, n + 1) = Upto(events, Ends, n) \cup {n + 1}
          /\ Upto(events, Ends \cup {"ended"}, n + 1) # {}
      BY <1>1, <2>2, <3>1
    <3>5. ASSUME NEW e \in Upto(events, Ends, n + 1), \A i \in Upto(events, Ends, n + 1) : i <= e
          PROVE  next.stop = StopReason(events[e], Cardinality(Upto(events, {"call"}, e)))
      <4>1. e = n + 1
        BY <3>4, <3>5 DEF Upto
      <4> QED
        BY <4>1, <2>1, <3>3, <3>4 DEF event
    <3>6. Agrees(events, next, n + 1)
      BY <2>1, <3>2, <3>3, <3>4, <3>5 DEF Agrees
    <3> QED
      BY <3>6 DEF next, event
  <2>3. CASE event \notin Ends
    <3>1. /\ event \in {"ended", "text", "call", "other", "garbled"}
      BY <1>3, <1>5, <2>3 DEF Event
    <3>2. /\ next \in Response /\ ~next.failed /\ next.stop = resp.stop
          /\ next.usage = IF event = "ended" THEN TRUE ELSE resp.usage
          /\ next.texts = IF event = "text" THEN resp.texts + 1 ELSE resp.texts
          /\ next.calls = IF event = "call" THEN resp.calls + 1 ELSE resp.calls
      <4>1. CASE event = "text"
        <5>1. next = [resp EXCEPT !.texts = @ + 1]
          BY <1>2, <1>5, <4>1
        <5>2. /\ next \in Response /\ next.texts = resp.texts + 1 /\ next.calls = resp.calls
              /\ next.failed = resp.failed /\ next.usage = resp.usage /\ next.stop = resp.stop
          BY <1>3, <5>1, OneMore
        <5> QED
          BY <1>5, <4>1, <5>2
      <4>2. CASE event = "call"
        <5>1. next = [resp EXCEPT !.calls = @ + 1]
          BY <1>2, <1>5, <4>2
        <5>2. /\ next \in Response /\ next.calls = resp.calls + 1 /\ next.texts = resp.texts
              /\ next.failed = resp.failed /\ next.usage = resp.usage /\ next.stop = resp.stop
          BY <1>3, <5>1, OneMore
        <5> QED
          BY <1>5, <4>2, <5>2
      <4>3. CASE event = "ended"
        <5>1. next = [resp EXCEPT !.usage = TRUE]
          BY <1>2, <1>5, <4>3
        <5> QED
          BY <1>3, <1>5, <4>3, <5>1 DEF Response
      <4>4. CASE event \in {"other", "garbled"}
        <5>1. next = resp
          BY <1>2, <1>5, <4>4
        <5> QED
          BY <1>3, <1>5, <4>4, <5>1
      <4> QED
        BY <3>1, <4>1, <4>2, <4>3, <4>4
    <3>3. /\ Upto(events, Ends, n + 1) = Upto(events, Ends, n)
          /\ next.usage <=> Upto(events, Ends \cup {"ended"}, n + 1) # {}
      <4>1. CASE event = "ended"
        <5>1. Upto(events, Ends \cup {"ended"}, n + 1) # {}
          BY <1>1, <4>1
        <5> QED
          BY <1>1, <2>3, <3>2, <4>1, <5>1
      <4>2. CASE event # "ended"
        <5>1. Upto(events, Ends \cup {"ended"}, n + 1) = Upto(events, Ends \cup {"ended"}, n)
          BY <1>1, <2>3, <4>2
        <5> QED
          BY <1>1, <2>1, <2>3, <3>2, <4>2, <5>1
      <4> QED
        BY <4>1, <4>2
    <3>4. /\ next.texts = Cardinality(Upto(events, {"text"}, n + 1))
          /\ next.calls = Cardinality(Upto(events, {"call"}, n + 1))
      BY <1>1, <2>1, <3>2
    <3>5. Agrees(events, next, n + 1)
      BY <2>1, <3>2, <3>3, <3>4 DEF Agrees
    <3> QED
      BY <3>5 DEF next, event
  <2> QED
    BY <2>2, <2>3
<1> QED
  BY <1>4, <1>5

(* So it agrees with the whole stream at the end.                           *)
LEMMA ReadsAgree ==
  ASSUME NEW events \in Seq(Event), NEW read, Reads(events, read, Len(events))
  PROVE  Agrees(events, read[Len(events)], Len(events))
<1> DEFINE Fine == {k \in 0..Len(events) : Agrees(events, read[k], k)}
<1>1. 0 \in Fine
  <2>1. \A kinds : Upto(events, kinds, 0) = {}
    BY DEF Upto
  <2>2. Len(events) \in Nat /\ 0 \in 0..Len(events)
    OBVIOUS
  <2>3. read[0] = Unread
    BY <2>2 DEF Reads
  <2>4. Unread \in Response
    BY DEF Unread, Response
  <2>5. Cardinality({}) = 0
    BY FS_EmptySet
  <2>6. Agrees(events, Unread, 0)
    BY <2>1, <2>4, <2>5 DEF Agrees, Unread
  <2> QED
    BY <2>2, <2>3, <2>6
<1>2. ASSUME NEW k \in 0..Len(events), k # Len(events), k \in Fine
      PROVE  k + 1 \in Fine
  <2>1. k \in Nat /\ k < Len(events) /\ k + 1 \in 0..Len(events)
    BY <1>2
  <2>2. read[k + 1] = handleEvent(read[k], events[k + 1])
    BY <2>1 DEF Reads
  <2> QED
    BY <1>2, <2>1, <2>2, AgreesNext
<1>3. \A k \in 0..Len(events) : k \in Fine
  <2> HIDE DEF Fine
  <2>1. Len(events) \in Nat
    OBVIOUS
  <2> QED
    BY <1>1, <1>2, <2>1, Upward
<1> QED
  BY <1>3

(* The last of some places.                                                 *)
LEMMA LastPlace ==
  ASSUME NEW n \in Nat, NEW S \in SUBSET (1..n)
  PROVE  /\ S = {} => Max(S \cup {0}) = 0
         /\ S # {} => Max(S \cup {0}) \in S /\ \A i \in S : i <= Max(S \cup {0})
<1>1. CASE S = {}
  <2>1. S \cup {0} = {0} /\ Max({0}) = 0
    BY <1>1 DEF Max
  <2> QED
    BY <1>1, <2>1 DEF Stops
<1>2. CASE S # {}
  <2> DEFINE Back == {n - i : i \in S}
  <2>1. Back \subseteq Nat /\ Back # {}
    <3>1. \A i \in S : n - i \in Nat
      OBVIOUS
    <3>2. PICK i \in S : TRUE
      BY <1>2
    <3>3. n - i \in Back
      OBVIOUS
    <3> QED
      BY <3>1, <3>3
  <2>2. PICK k \in Back : \A m \in Back : k <= m
    BY <2>1, Least
  <2>3. PICK e \in S : k = n - e
    BY <2>2
  <2>4. \A i \in S : i <= e
    BY <2>2, <2>3
  <2>5. e \in S \cup {0} /\ \A i \in S \cup {0} : e >= i
    BY <2>3, <2>4
  <2>6. Max(S \cup {0}) \in S \cup {0} /\ \A i \in S \cup {0} : Max(S \cup {0}) >= i
    BY <2>5 DEF Max
  <2>7. Max(S \cup {0}) # 0
    BY <2>3, <2>6
  <2> QED
    BY <1>2, <2>6, <2>7
<1> QED
  BY <1>1, <1>2

(* Of any stream, however long, nothing is lost or made up: it fails for a  *)
(* fault and for nothing else, its texts and calls are all read, and why it *)
(* stopped is told by the last end that states a status and the calls       *)
(* before it, or by any call where no end states one                        *)
(* (parseOpenAICodexStream).                                                *)
THEOREM StreamsFaithful == \A events \in Seq(Event) : FaithfullyRead(events)
<1> SUFFICES ASSUME NEW events \in Seq(Event) PROVE FaithfullyRead(events)
  OBVIOUS
<1> DEFINE n == Len(events)
           read == CHOOSE f : Reads(events, f, n)
           ends == Which(events, Ends)
           calls == Which(events, {"call"})
           end == Max(ends \cup {0})
<1>1. n \in Nat /\ DOMAIN events = 1..n
  OBVIOUS
<1>2. Reads(events, read, n)
  <2>1. \E f : Reads(events, f, n)
    BY <1>1, ReadsExist
  <2> QED
    BY <2>1
<1> HIDE DEF n, read
<1>3. PICK resp : resp = read[n]
  OBVIOUS
<1>4. parseOpenAICodexStream(events)
        = IF resp.stop = "" THEN [resp EXCEPT !.stop = StopReason("completed", resp.calls)] ELSE resp
  BY <1>3 DEF parseOpenAICodexStream, Reads, n, read
<1>5. PICK final : final = parseOpenAICodexStream(events)
  OBVIOUS
<1>6. Agrees(events, resp, n)
  BY <1>2, <1>3, ReadsAgree DEF n
<1>7. \A kinds : Which(events, kinds) = Upto(events, kinds, n)
  BY <1>1 DEF Which, Upto
<1>8. resp \in Response /\ resp.calls \in Nat
  BY <1>6 DEF Agrees, Response
<1>9. /\ final.failed = resp.failed /\ final.texts = resp.texts /\ final.calls = resp.calls
      /\ final.usage = resp.usage
      /\ final.stop = IF resp.stop = "" THEN StopReason("completed", resp.calls) ELSE resp.stop
  BY <1>4, <1>5, <1>8 DEF Response
<1>10. /\ ends = {} => end = 0
       /\ ends # {} => end \in ends /\ \A i \in ends : i <= end
  <2>1. ends \in SUBSET (1..n)
    BY <1>1 DEF Which
  <2> QED
    BY <1>1, <2>1, LastPlace
<1>11. ends = Upto(events, Ends, n) /\ calls = Upto(events, {"call"}, n)
  BY <1>7
<1> HIDE DEF end
<1>12. 0 \notin ends
  BY <1>11 DEF Upto
<1>13. ASSUME ~resp.failed
       PROVE  final.stop = "toolUse" <=>
                IF end = 0 THEN calls # {} ELSE events[end] = "completed" /\ \E i \in calls : i < end
  <2>1. CASE end = 0
    <3>1. ends = {} /\ resp.stop = ""
      BY <1>6, <1>10, <1>11, <1>12, <1>13, <2>1 DEF Agrees
    <3>2. final.stop = "toolUse" <=> resp.calls > 0
      <4>1. StopReason("completed", resp.calls) = "toolUse" <=> resp.calls > 0
        BY <1>8, StopReasons
      <4> QED
        BY <4>1, <1>9, <3>1
    <3>3. resp.calls = Cardinality(calls) /\ IsFiniteSet(calls)
      <4>1. resp.calls = Cardinality(calls)
        BY <1>6, <1>11, <1>13 DEF Agrees
      <4>2. IsFiniteSet(Upto(events, {"call"}, n))
        BY <1>1, UptoNext
      <4> QED
        BY <4>1, <4>2, <1>11
    <3>4. Cardinality(calls) = 0 <=> calls = {}
      BY <3>3, FS_EmptySet
    <3> HIDE DEF calls
    <3> QED
      BY <2>1, <3>2, <3>3, <3>4, <1>8
  <2>2. CASE end # 0
    <3>1. end \in ends /\ \A i \in ends : i <= end
      BY <1>10, <2>2
    <3>2. /\ resp.stop = StopReason(events[end], Cardinality(Upto(events, {"call"}, end)))
          /\ resp.stop # ""
      BY <1>6, <1>11, <1>13, <3>1 DEF Agrees
    <3>3. end \in 1..n /\ end \in Nat /\ events[end] \in Ends
      BY <3>1, <1>1, <1>11 DEF Upto
    <3>4. IsFiniteSet(Upto(events, {"call"}, end)) /\ Cardinality(Upto(events, {"call"}, end)) \in Nat
      BY <3>3, UptoNext
    <3>5. final.stop = "toolUse" <=>
            events[end] = "completed" /\ Cardinality(Upto(events, {"call"}, end)) > 0
      <4>1. resp.stop = "toolUse" <=>
              /\ events[end] \notin {"incomplete", "cancelled"}
              /\ Cardinality(Upto(events, {"call"}, end)) > 0
        BY <3>2, <3>4, StopReasons
      <4> QED
        BY <4>1, <3>2, <3>3, <1>9 DEF Ends
    <3>6. Cardinality(Upto(events, {"call"}, end)) = 0 <=> Upto(events, {"call"}, end) = {}
      BY <3>4, FS_EmptySet
    <3>7. Upto(events, {"call"}, end) # {} <=> \E i \in calls : i < end
      <4>1. events[end] # "call"
        BY <3>3 DEF Ends
      <4> QED
        BY <4>1, <3>3, <1>1, <1>11 DEF Upto
    <3> QED
      BY <2>2, <3>4, <3>5, <3>6, <3>7
  <2> QED
    BY <2>1, <2>2
<1>14. final.failed <=> Which(events, Faults) # {}
  BY <1>6, <1>7, <1>9 DEF Agrees
<1>15. ASSUME ~resp.failed
       PROVE  /\ final.texts = Cardinality(Which(events, {"text"}))
              /\ final.calls = Cardinality(calls)
              /\ final.usage <=> Which(events, Ends \cup {"ended"}) # {}
  BY <1>6, <1>7, <1>9, <1>15 DEF Agrees
<1> QED
  BY <1>5, <1>9, <1>13, <1>14, <1>15 DEF FaithfullyRead, end

(* Whatever stream answers the codex provider is read for what it is        *)
(* (parseOpenAICodexStream, openAICodexProvider.Chat).                      *)
THEOREM StreamsAreRead == Spec => []StreamsRead
<1>1. Streams \subseteq Seq(Event)
  <2>1. ASSUME NEW n \in 0..MaxEvents, NEW events \in [1..n -> Event]
        PROVE  events \in Seq(Event)
    <3>1. n \in Nat
      BY StreamAssumption
    <3> QED
      BY <3>1
  <2> QED
    BY <2>1 DEF Streams
<1>2. StreamsRead
  BY <1>1, StreamsFaithful DEF StreamsRead, ReadFaithfully
<1> QED
  BY <1>2, PTL

=============================================================================
