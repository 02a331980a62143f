---------------------------- MODULE AgentProofs ----------------------------
(* Theorems about AgentTask, for any connectors, configurations, requests   *)
(* and bounds.                                                              *)
EXTENDS AgentTask, SequenceTheorems, TLAPS

-----------------------------------------------------------------------------
(* Replies and calls.                                                       *)

(* The two bounds are numbers.                                              *)
LEMMA Bounds == MaxIterations \in Nat \ {0} /\ MaxCalls \in Nat
  BY AgentAssumption

(* A reply is a sequence of calls.                                          *)
LEMMA ReplyIsSeq == \A r \in Reply : r \in Seq(Call)
<1> SUFFICES ASSUME NEW r \in Reply PROVE r \in Seq(Call)
  OBVIOUS
<1>1. PICK n \in 0..MaxCalls : r \in [1..n -> Call]
  BY DEF Reply
<1>2. n \in Nat
  BY <1>1, Bounds
<1>3. [1..n -> Call] \in {[1..k -> Call] : k \in Nat}
  BY <1>2, Zenon
<1>4. r \in UNION {[1..k -> Call] : k \in Nat}
  BY <1>1, <1>3, Zenon
<1> QED
  BY <1>4, SeqDef, Zenon

(* Taking the first of the calls that are left.                             *)
LEMMA FirstCall ==
  ASSUME calls \in Seq(Call), calls # <<>>
  PROVE  /\ Head(calls) \in Call
         /\ Tail(calls) \in Seq(Call)
         /\ Len(Tail(calls)) = Len(calls) - 1
         /\ Len(calls) \in Nat \ {0}
  OBVIOUS

(* What the loop's counter says about the completions that were paid for.   *)
LoopInv ==
  /\ pc \in {"idle", "refused", "ask"} => paid = iter - 1
  /\ pc \in {"charge", "tool", "log", "answered"} => paid = iter
  /\ pc \in {"failed", "done"} => paid \in {iter - 1, iter}
  /\ pc = "log" => calls # <<>> /\ ops # <<>>

IndInv == TypeOK /\ LoopInv

(* The invariant holds initially.                                           *)
LEMMA LoopInit == Init => IndInv
<1> SUFFICES ASSUME Init PROVE IndInv
  OBVIOUS
<1>1. 1 \in 1..MaxIterations /\ 0 \in 0..MaxIterations
  BY Bounds
<1>2. calls \in Seq(Call) /\ ops \in Seq(Operation) /\ trail \in Seq(Operation)
  BY DEF Init
<1>3. configured \in Configurations /\ request \in Requests \cup {NoRequest}
  BY DEF Init
<1>a. result \in [status : {"none", "success", "error"}, cost : 0..MaxIterations]
  BY <1>1 DEF Init
<1>4. TypeOK
  BY <1>1, <1>2, <1>3, <1>a DEF Init, TypeOK
<1>5. LoopInv
  BY DEF Init, LoopInv
<1> QED
  BY <1>4, <1>5 DEF IndInv

(* Each step preserves the types and the counter.                           *)
LEMMA LoopNext ==
  ASSUME IndInv, [Next]_vars
  PROVE  IndInv'
<1> USE DEF books, tools
<1>0. TypeOK /\ LoopInv
  BY DEF IndInv
<1>a. MaxIterations \in Nat \ {0}
  BY Bounds
<1>1. CASE Preflight
  BY <1>0, <1>1 DEF Preflight, IndInv, TypeOK, LoopInv
<1>2. CASE Begin
  BY <1>0, <1>2 DEF Begin, IndInv, TypeOK, LoopInv
<1>3. CASE Expire
  BY <1>0, <1>3 DEF Expire, Working, IndInv, TypeOK, LoopInv
<1>4. CASE Complete
  <2>1. CASE UNCHANGED <<calls, asked, paid>> /\ pc' = "failed"
    BY <1>0, <1>4, <2>1 DEF Complete, IndInv, TypeOK, LoopInv
  <2>2. CASE /\ \E r \in Reply : calls' = r /\ asked' = asked + Len(r)
             /\ paid' = paid + 1
             /\ pc' = "charge"
    <3>1. calls' \in Seq(Call) /\ asked' \in Nat
      BY <1>0, <2>2, ReplyIsSeq DEF TypeOK
    <3>2. paid' \in 0..MaxIterations /\ paid' = iter
      BY <1>0, <1>4, <2>2, <1>a DEF Complete, TypeOK, LoopInv
    <3> QED
      BY <1>0, <1>4, <2>2, <3>1, <3>2 DEF Complete, IndInv, TypeOK, LoopInv
  <2> QED
    BY <1>4, <2>1, <2>2 DEF Complete
<1>5. CASE Charge
  BY <1>0, <1>5 DEF Charge, IndInv, TypeOK, LoopInv
<1>6. CASE Refuse
  <2>1. calls' \in Seq(Call) /\ Head(calls) \in Call
    BY <1>0, <1>6, FirstCall DEF Refuse, TypeOK
  <2> QED
    BY <1>0, <1>6, <2>1 DEF Refuse, IndInv, TypeOK, LoopInv
<1>7. CASE Perform
  <2>1. PICK ok \in BOOLEAN : ops' = Append(ops, [call |-> Head(calls), ok |-> ok])
    BY <1>7 DEF Perform
  <2>2. [call |-> Head(calls), ok |-> ok] \in Operation
    BY <1>0, <1>7, FirstCall DEF Perform, TypeOK, Operation
  <2>3. ops' \in Seq(Operation) /\ ops' # <<>>
    BY <1>0, <2>1, <2>2 DEF TypeOK
  <2> QED
    BY <1>0, <1>7, <2>3 DEF Perform, IndInv, TypeOK, LoopInv
<1>8. CASE Log
  <2>0. Len(ops) \in 1..Len(ops)
    BY <1>0, <1>8, EmptySeq DEF Log, TypeOK, LoopInv
  <2>1. calls' \in Seq(Call) /\ ops[Len(ops)] \in Operation
    BY <1>0, <1>8, <2>0, FirstCall, ElementOfSeq DEF Log, TypeOK, LoopInv
  <2>2. Append(trail, ops[Len(ops)]) \in Seq(Operation)
    BY <1>0, <2>1 DEF TypeOK
  <2>3. trail' \in Seq(Operation) /\ dropped' \in Nat
    <3>1. CASE trail' = Append(trail, ops[Len(ops)]) /\ UNCHANGED dropped
      BY <1>0, <2>2, <3>1 DEF TypeOK
    <3>2. CASE dropped' = dropped + 1 /\ UNCHANGED trail
      BY <1>0, <3>2 DEF TypeOK
    <3> QED
      BY <1>8, <3>1, <3>2 DEF Log
  <2> QED
    BY <1>0, <1>8, <2>1, <2>3 DEF Log, IndInv, TypeOK, LoopInv
<1>9. CASE Round
  BY <1>0, <1>9, <1>a DEF Round, IndInv, TypeOK, LoopInv
<1>10. CASE Answer
  <2>1. paid \in 0..MaxIterations /\ 0 \in 0..MaxIterations
    BY <1>0, <1>a DEF TypeOK
  <2>2. result' \in [status : {"none", "success", "error"}, cost : 0..MaxIterations]
    BY <1>10, <2>1 DEF Answer, Return
  <2> QED
    BY <1>0, <1>10, <2>2 DEF Answer, Return, IndInv, TypeOK, LoopInv
<1>11. CASE UNCHANGED vars
  BY <1>0, <1>11 DEF vars, IndInv, TypeOK, LoopInv
<1> QED
  BY <1>1, <1>2, <1>3, <1>4, <1>5, <1>6, <1>7, <1>8, <1>9, <1>10, <1>11 DEF Next

(* Both hold throughout.                                                    *)
LEMMA LoopCorrect == Spec => []IndInv
  BY LoopInit, LoopNext, PTL DEF Spec

(* A task is well typed in every state, and its iterations and completions  *)
(* stay within maxIterations (agent.go 81).                                 *)
THEOREM TypeCorrect == Spec => []TypeOK
<1>1. IndInv => TypeOK
  BY DEF IndInv
<1> QED
  BY <1>1, LoopCorrect, PTL

-----------------------------------------------------------------------------
(* The log of completions.                                                  *)

(* Each completion has one usage row, or lost it, in every reachable state  *)
(* and for any number of iterations (agent.go 109-123).                     *)
THEOREM EveryCompletionAccounted == Spec => []SpendingAccounted
<1> DEFINE Inv == IndInv /\ SpendingAccounted
<1>1. Init => Inv
  <2>1. Init => SpendingAccounted
    BY DEF Init, SpendingAccounted
  <2> QED
    BY <2>1, LoopInit
<1>2. Inv /\ [Next]_vars => Inv'
  <2> SUFFICES ASSUME Inv, [Next]_vars PROVE SpendingAccounted'
    BY LoopNext
  <2> USE DEF SpendingAccounted, books, tools
  <2>0. iter \in Nat \ {0} /\ paid \in Nat
    BY Bounds DEF IndInv, TypeOK
  <2>1. CASE Complete
    BY <2>0, <2>1 DEF Complete
  <2>2. CASE Charge
    <3>1. pc = "charge" /\ pc' # "charge" /\ paid = iter /\ paid' = paid
      BY <2>2 DEF Charge, IndInv, LoopInv
    <3>2. usage \cup unlogged = 1..(iter - 1)
      BY <3>1
    <3>3. /\ usage' \cup unlogged' = (usage \cup unlogged) \cup {iter}
          /\ usage' \cap unlogged' \subseteq (usage \cap unlogged) \cup ({iter} \cap (usage \cup unlogged))
      BY <2>2 DEF Charge
    <3>4. 1..iter = 1..(iter - 1) \cup {iter} /\ iter \notin 1..(iter - 1)
      BY <2>0
    <3> QED
      BY <3>1, <3>2, <3>3, <3>4
  <2>3. CASE Preflight \/ Begin \/ Expire \/ Refuse \/ Perform \/ Log \/ Round \/ Answer
    <3>1. (UNCHANGED books /\ pc # "charge" /\ pc' # "charge") \/ UNCHANGED <<pc, books>>
      BY <2>3 DEF Preflight, Begin, Expire, Refuse, Perform, Log, Round, Answer, Return
    <3> QED
      BY <3>1
  <2>4. CASE UNCHANGED vars
    BY <2>4 DEF vars
  <2> QED
    BY <2>1, <2>2, <2>3, <2>4 DEF Next
<1>3. Inv => SpendingAccounted
  OBVIOUS
<1> QED
  BY <1>1, <1>2, <1>3, PTL DEF Spec

-----------------------------------------------------------------------------
(* The conversation.                                                        *)

(* AllAnswered, with what becomes of a reply between its arrival and the    *)
(* next question.                                                           *)
AnswerInv ==
  /\ pc \in {"idle", "ask", "answered"} => answers = asked
  /\ pc \in {"charge", "tool", "log"} => answers + Len(calls) = asked

(* Each step keeps the count of the calls that are still to be answered.    *)
LEMMA AnswerNext ==
  ASSUME IndInv, AnswerInv, [Next]_vars
  PROVE  AnswerInv'
<1> USE DEF AnswerInv, books, tools
<1>0. asked \in Nat /\ answers \in Nat /\ calls \in Seq(Call) /\ Len(calls) \in Nat
  BY DEF IndInv, TypeOK
<1>1. CASE Complete
  <2>1. CASE pc' = "failed"
    BY <2>1
  <2>2. CASE /\ \E r \in Reply : calls' = r /\ asked' = asked + Len(r)
             /\ pc' = "charge"
    <3>1. calls' \in Seq(Call) /\ asked' = asked + Len(calls')
      BY <2>2, ReplyIsSeq
    <3> QED
      BY <1>0, <1>1, <2>2, <3>1 DEF Complete
  <2> QED
    BY <1>1, <2>1, <2>2 DEF Complete
<1>2. CASE Charge
  <2>1. calls = <<>> => Len(calls) = 0
    OBVIOUS
  <2> QED
    BY <1>0, <1>2, <2>1 DEF Charge
<1>3. CASE Refuse \/ Log
  <2>1. /\ answers' = answers + 1 /\ calls' = Tail(calls) /\ UNCHANGED asked
        /\ pc \in {"tool", "log"} /\ pc' = "tool"
        /\ calls # <<>>
    BY <1>3 DEF Refuse, Log, IndInv, LoopInv
  <2> QED
    BY <1>0, <2>1, FirstCall
<1>4. CASE Perform
  BY <1>0, <1>4 DEF Perform
<1>5. CASE Round
  <2>1. Len(calls) = 0
    BY <1>5 DEF Round
  <2> QED
    BY <1>0, <1>5, <2>1 DEF Round
<1>6. CASE Preflight \/ Begin
  BY <1>6 DEF Preflight, Begin
<1>7. CASE Expire
  BY <1>7 DEF Expire
<1>8. CASE Answer
  BY <1>8 DEF Answer, Return
<1>9. CASE UNCHANGED vars
  BY <1>9 DEF vars
<1> QED
  BY <1>1, <1>2, <1>3, <1>4, <1>5, <1>6, <1>7, <1>8, <1>9 DEF Next

(* The model is never asked again before it was told of every tool call of  *)
(* its last reply (agent.go 157-172).                                       *)
THEOREM EveryCallAnswered == Spec => []AllAnswered
<1> DEFINE Inv == IndInv /\ AnswerInv
<1>1. Init => Inv
  BY LoopInit DEF Init, AnswerInv
<1>2. Inv /\ [Next]_vars => Inv'
  BY LoopNext, AnswerNext
<1>3. Inv => AllAnswered
  BY DEF AnswerInv, AllAnswered
<1> QED
  BY <1>1, <1>2, <1>3, PTL DEF Spec

-----------------------------------------------------------------------------
(* Permissions.                                                             *)

(* What the check lets through to write is configured for it.               *)
LEMMA WriteNeedsLevel ==
  ASSUME NEW t, Permitted(t), t.action \in WriteActions
  PROVE  ConfiguredLevel(t.connector) \in {"write", "admin"}
  BY DEF Permitted, Allows

(* Every level allows reading.                                              *)
LEMMA ReadIsFree == \A level : Allows(level, "read")
<1> TAKE level
<1>1. CASE level = "admin"
  BY <1>1 DEF Allows
<1>2. CASE level # "admin"
  BY <1>2 DEF Allows
<1> QED
  BY <1>1, <1>2

(* No write reaches a connector that is not configured for it, for any      *)
(* configuration and any tool names of a reply (agent.go 336-345).          *)
THEOREM NoUnpermittedWrite == Spec => []WritesArePermitted
<1> DEFINE Inv == IndInv /\ WritesArePermitted
<1>1. Init => Inv
  <2>1. Init => WritesArePermitted
    BY DEF Init, WritesArePermitted
  <2> QED
    BY <2>1, LoopInit
<1>2. Inv /\ [Next]_vars => Inv'
  <2> SUFFICES ASSUME Inv, [Next]_vars PROVE WritesArePermitted'
    BY LoopNext
  <2>0. UNCHANGED configured
    BY DEF Next, vars, Preflight, Begin, Expire, Complete, Charge, Refuse, Perform, Log,
           Round, Answer, Return
  <2>1. CASE Perform
    <3>1. PICK ok \in BOOLEAN : ops' = Append(ops, [call |-> Head(calls), ok |-> ok])
      BY <2>1 DEF Perform
    <3>2. ops \in Seq(Operation) /\ Head(calls) \in Call
      BY <2>1, FirstCall DEF Perform, IndInv, TypeOK
    <3> DEFINE new == [call |-> Head(calls), ok |-> ok]
    <3>3. new \in Operation /\ new.call = Head(calls)
      BY <3>2 DEF Operation
    <3>4. new.call.action \in WriteActions =>
            ConfiguredLevel(new.call.connector) \in {"write", "admin"}
      BY <2>1, <3>3, WriteNeedsLevel DEF Perform, Reaches
    <3> HIDE DEF new
    <3>5. /\ Len(ops') = Len(ops) + 1 /\ Len(ops) \in Nat
          /\ ops'[Len(ops) + 1] = new
          /\ \A k \in 1..Len(ops) : ops'[k] = ops[k]
      BY <3>1, <3>2, <3>3, AppendProperties DEF new
    <3> QED
      BY <2>0, <3>4, <3>5 DEF WritesArePermitted, ConfiguredLevel
  <2>2. CASE Preflight \/ Begin \/ Expire \/ Complete \/ Charge \/ Refuse \/ Log \/ Round
             \/ Answer \/ UNCHANGED vars
    <3>1. UNCHANGED ops
      BY <2>2 DEF vars, tools, Preflight, Begin, Expire, Complete, Charge, Refuse, Log,
                  Round, Answer, Return
    <3> QED
      BY <2>0, <3>1 DEF WritesArePermitted, ConfiguredLevel
  <2> QED
    BY <2>1, <2>2 DEF Next
<1>3. Inv => WritesArePermitted
  OBVIOUS
<1> QED
  BY <1>1, <1>2, <1>3, PTL DEF Spec

(* A job at work has passed the preflight check, and what it was denied was *)
(* denied for want of write.                                                *)
PermitInv ==
  /\ trigger = "job" /\ pc \notin {"idle", "refused"} => ~Refused
  /\ \A t \in denied : t.connector \in Registered /\ ~Permitted(t)
  /\ pc \in {"idle", "refused"} => denied = {}

(* Each step preserves it.                                                  *)
LEMMA PermitNext ==
  ASSUME IndInv, PermitInv, [Next]_vars
  PROVE  PermitInv'
<1>0. /\ UNCHANGED <<configured, trigger, request>>
      /\ (Refused' <=> Refused)
      /\ \A t : Permitted(t)' <=> Permitted(t)
  <2>1. UNCHANGED <<configured, trigger, request>>
    BY DEF Next, vars, Preflight, Begin, Expire, Complete, Charge, Refuse, Perform, Log,
           Round, Answer, Return
  <2> QED
    BY <2>1 DEF Refused, Fits, Permitted, ConfiguredLevel
<1>1. CASE Preflight
  BY <1>0, <1>1 DEF Preflight, PermitInv, tools
<1>2. CASE Begin
  BY <1>0, <1>2 DEF Begin, PermitInv, tools
<1>3. CASE Refuse
  BY <1>0, <1>3 DEF Refuse, PermitInv
<1>4. CASE Expire \/ Complete \/ Charge \/ Perform \/ Log \/ Round \/ Answer
  <2>1. /\ UNCHANGED denied
        /\ pc \notin {"idle", "refused"} /\ pc' \notin {"idle", "refused"}
    BY <1>4 DEF Expire, Working, Complete, Charge, Perform, Log, Round, Answer, Return, tools
  <2> QED
    BY <1>0, <2>1 DEF PermitInv
<1>5. CASE UNCHANGED vars
  BY <1>0, <1>5 DEF vars, PermitInv
<1> QED
  BY <1>1, <1>2, <1>3, <1>4, <1>5 DEF Next

(* A level that is not above the configured one allows no more than it.     *)
LEMMA RanksAgree ==
  ASSUME NEW l, NEW m, PermissionRank(l) <= PermissionRank(m), ~Allows(m, "write")
  PROVE  ~Allows(l, "write")
  BY DEF PermissionRank, Allows

(* The preflight check is enough, for any connectors, configuration and     *)
(* request: the two permission tables agree (scheduler.go 297-307,          *)
(* permissions.go 25-45).                                                   *)
THEOREM PreflightIsEnough == Spec => []PreflightSuffices
<1> DEFINE Inv == IndInv /\ PermitInv
<1>1. Init => Inv
  BY LoopInit DEF Init, PermitInv
<1>2. Inv /\ [Next]_vars => Inv'
  BY LoopNext, PermitNext
<1>3. Inv => PreflightSuffices
  <2> SUFFICES ASSUME Inv, trigger = "job", NEW t \in denied,
                      t.action \in ReadActions \cup WriteActions
               PROVE  ~Allows(request[t.connector],
                              IF t.action \in ReadActions THEN "read" ELSE "write")
    BY DEF PreflightSuffices
  <2>1. ~Permitted(t) /\ ~Refused /\ t.connector \in Connector
    BY AgentAssumption DEF PermitInv, IndInv, TypeOK, Call
  <2>2. t.action \notin ReadActions /\ ~Allows(ConfiguredLevel(t.connector), "write")
    BY <2>1, ReadIsFree DEF Permitted, ReadActions, WriteActions
  <2>3. CASE request[t.connector] = "unused"
    BY <2>2, <2>3 DEF Allows
  <2>4. CASE request[t.connector] # "unused"
    <3>1. Fits(t.connector)
      BY <2>1, <2>4 DEF Refused
    <3> QED
      BY <2>2, <3>1, RanksAgree DEF Fits
  <2> QED
    BY <2>3, <2>4
<1> QED
  BY <1>1, <1>2, <1>3, PTL DEF Spec

-----------------------------------------------------------------------------
(* The audit trail.                                                         *)

(* TrailFaithful, row by row: SubSeq compared element by element.           *)
TrailInv ==
  LET made == IF pc = "log" THEN Len(ops) - 1 ELSE Len(ops)
  IN  /\ Len(trail) + dropped = made
      /\ dropped = 0 => \A k \in 1..made : trail[k] = ops[k]

(* Each step preserves it.                                                  *)
LEMMA TrailNext ==
  ASSUME IndInv, TrailInv, [Next]_vars
  PROVE  TrailInv'
<1> USE DEF TrailInv, books, tools
<1>0. /\ ops \in Seq(Operation) /\ trail \in Seq(Operation) /\ dropped \in Nat
      /\ Len(ops) \in Nat /\ Len(trail) \in Nat
  BY DEF IndInv, TypeOK
<1>1. CASE Perform
  <2>1. PICK ok \in BOOLEAN : ops' = Append(ops, [call |-> Head(calls), ok |-> ok])
    BY <1>1 DEF Perform
  <2>2. [call |-> Head(calls), ok |-> ok] \in Operation
    BY <1>1, FirstCall DEF Perform, Operation, IndInv, TypeOK
  <2>3. Len(ops') = Len(ops) + 1 /\ \A k \in 1..Len(ops) : ops'[k] = ops[k]
    BY <1>0, <2>1, <2>2, AppendProperties
  <2>4. pc # "log" /\ pc' = "log" /\ UNCHANGED <<trail, dropped>>
    BY <1>1 DEF Perform
  <2> QED
    BY <1>0, <2>3, <2>4
<1>2. CASE Log
  <2>1. pc = "log" /\ pc' # "log" /\ UNCHANGED ops
    BY <1>2 DEF Log
  <2>2. CASE trail' = Append(trail, ops[Len(ops)]) /\ UNCHANGED dropped
    <3>1. Len(ops) \in 1..Len(ops)
      BY <1>0, <2>1, EmptySeq DEF IndInv, LoopInv
    <3>2. ops[Len(ops)] \in Operation
      BY <1>0, <3>1, ElementOfSeq
    <3>3. /\ Len(trail') = Len(trail) + 1
          /\ trail'[Len(trail) + 1] = ops[Len(ops)]
          /\ \A k \in 1..Len(trail) : trail'[k] = trail[k]
      BY <1>0, <2>2, <3>2, AppendProperties
    <3> QED
      BY <1>0, <2>1, <2>2, <3>1, <3>3
  <2>3. CASE dropped' = dropped + 1 /\ UNCHANGED trail
    BY <1>0, <2>1, <2>3
  <2> QED
    BY <1>2, <2>2, <2>3 DEF Log
<1>3. CASE Preflight \/ Begin \/ Expire \/ Complete \/ Charge \/ Refuse \/ Round \/ Answer
  <2>1. UNCHANGED <<ops, trail, dropped>> /\ (pc' = "log" <=> pc = "log")
    BY <1>3 DEF Preflight, Begin, Expire, Complete, Charge, Refuse, Round, Answer, Return
  <2> QED
    BY <2>1
<1>4. CASE UNCHANGED vars
  BY <1>4 DEF vars
<1> QED
  BY <1>1, <1>2, <1>3, <1>4 DEF Next

(* The audit log is the operations in order, but for the lost rows, however *)
(* long the task (audit.go 64-201).                                         *)
THEOREM TrailIsFaithful == Spec => []TrailFaithful
<1> DEFINE Inv == IndInv /\ TrailInv
<1>1. Init => Inv
  <2>1. Init => TrailInv
    BY DEF Init, TrailInv
  <2> QED
    BY <2>1, LoopInit
<1>2. Inv /\ [Next]_vars => Inv'
  BY LoopNext, TrailNext
<1>3. Inv => TrailFaithful
  <2> SUFFICES ASSUME Inv PROVE TrailFaithful
    OBVIOUS
  <2> DEFINE made == IF pc = "log" THEN Len(ops) - 1 ELSE Len(ops)
  <2>1. Len(trail) + dropped = made /\ (dropped = 0 => \A k \in 1..made : trail[k] = ops[k])
    BY DEF TrailInv
  <2>2. /\ ops \in Seq(Operation) /\ trail \in Seq(Operation) /\ dropped \in Nat
        /\ Len(ops) \in Nat /\ Len(trail) \in Nat
    BY DEF IndInv, TypeOK
  <2>3. made \in Int /\ made <= Len(ops)
    BY <2>2
  <2>4. ASSUME dropped = 0 PROVE trail = SubSeq(ops, 1, made)
    <3> HIDE DEF made
    <3>1. made \in Nat /\ Len(trail) = made
      BY <2>1, <2>2, <2>3, <2>4
    <3>2. \A i \in 1..made : ops[i] \in Operation
      BY <2>2, <2>3, <3>1, ElementOfSeq
    <3>3. /\ SubSeq(ops, 1, made) \in Seq(Operation)
          /\ Len(SubSeq(ops, 1, made)) = made
          /\ \A i \in 1..made : SubSeq(ops, 1, made)[i] = ops[i]
      BY <2>2, <2>3, <3>1, <3>2, SubSeqProperties
    <3> QED
      BY <2>1, <2>2, <2>4, <3>1, <3>3, SeqEqual
  <2> QED
    BY <2>1, <2>4 DEF TrailFaithful
<1> QED
  BY <1>1, <1>2, <1>3, PTL DEF Spec

-----------------------------------------------------------------------------
(* The contract.                                                            *)

(* The agent's own audit entry and its result come with its last step.      *)
OnceInv == pc # "done" => record = "none" /\ result = [status |-> "none", cost |-> 0]

(* A step of the task is a step of the contract, or none.                   *)
LEMMA ContractNext ==
  ASSUME IndInv, OnceInv, [Next]_vars
  PROVE  OnceInv' /\ [Contract!Next]_(Contract!contract)
<1> USE DEF books, tools, OnceInv, Contract!contract
<1>0. paid \in 0..MaxIterations /\ iter \in 1..MaxIterations /\ MaxIterations \in Nat
  BY Bounds DEF IndInv, TypeOK
<1>1. CASE Preflight
  BY <1>1 DEF Preflight, Contract!Next, Contract!Begin
<1>2. CASE Begin
  BY <1>2 DEF Begin, Contract!Next, Contract!Begin
<1>3. CASE Expire
  BY <1>3 DEF Expire, Working, Contract!Next, Contract!Expire
<1>4. CASE Complete
  <2>1. paid < MaxIterations
    BY <1>0, <1>4 DEF Complete, IndInv, LoopInv
  <2> QED
    BY <1>4, <2>1 DEF Complete, Contract!Next, Contract!Buy
<1>5. CASE Charge \/ Refuse \/ Perform \/ Log \/ Round
  <2>1. /\ pc \in {"charge", "tool", "log"}
        /\ pc' \in {"ask", "answered", "tool", "log", "failed"}
        /\ UNCHANGED <<expired, paid, result, record>>
    BY <1>5 DEF Charge, Refuse, Perform, Log, Round
  <2> QED
    BY <2>1
<1>6. CASE Answer
  <2>1. CASE pc = "answered" /\ Return("success", paid)
    BY <2>1 DEF Return, Contract!Next, Contract!Return
  <2>2. CASE pc = "failed" /\ Return("error", 0)
    BY <2>2 DEF Return, Contract!Next, Contract!Return
  <2> QED
    BY <1>6, <2>1, <2>2 DEF Answer
<1>7. CASE UNCHANGED vars
  BY <1>7 DEF vars
<1> QED
  BY <1>1, <1>2, <1>3, <1>4, <1>5, <1>6, <1>7 DEF Next

(* The safety half of ContractSpec, for any number of iterations and calls: *)
(* one answer, no completion bought after the end of the context or beyond  *)
(* the limit, a bill and an audit entry that agree with the answer.         *)
THEOREM ImplementsContract == Spec => Contract!Spec
<1> DEFINE Inv == IndInv /\ OnceInv
<1>1. Init => Inv /\ Contract!Init
  <2>1. Init => OnceInv /\ Contract!Init
    BY DEF Init, OnceInv, Contract!Init
  <2> QED
    BY <2>1, LoopInit
<1>2. Inv /\ [Next]_vars => Inv' /\ [Contract!Next]_(Contract!contract)
  BY LoopNext, ContractNext
<1> QED
  BY <1>1, <1>2, PTL DEF Spec, Contract!Spec

=============================================================================
