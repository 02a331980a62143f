----------------------------- MODULE AgentTask -----------------------------
(***************************************************************************)
(* One task of the agent, from its trigger to its answer: the preflight     *)
(* check of a scheduled job (internal/scheduler/scheduler.go), the loop of  *)
(* completions and tool calls of internal/agent/agent.go, the permission    *)
(* check in front of the tools and the audit behind them                    *)
(* (internal/security).  The task's context may end at any step; a          *)
(* statement on the database fails when it has ended, and may fail before.  *)
(*                                                                          *)
(* The model is free: a completion asks for any tool calls on any           *)
(* connector, and a connector succeeds or fails.  Each completion costs 1.  *)
(***************************************************************************)
EXTENDS Naturals, Sequences

CONSTANTS
  Connector,      \* connector names, in viaduct.yaml or in a model's reply
  Registered,     \* the connectors newApp registered
  Configurations, \* what viaduct.yaml may give as the connectors' permissions
  Supports,       \* of each connector, the actions its code implements
  Action,         \* the part of a tool's name after the underscore
  Requests,       \* what jobs may ask of each connector
  MaxIterations,  \* Agent.maxIterations (10 in newApp)
  MaxCalls        \* bound: tool calls in one reply

ReadActions == {"list", "read", "search"}
WriteActions == {"create", "update", "delete", "send"}
Level == {"read", "write", "admin"}

ASSUME AgentAssumption ==
  /\ Registered \subseteq Connector
  /\ Configurations \subseteq [Connector -> Seq(Level)]
  /\ Supports \in [Connector -> SUBSET (ReadActions \cup WriteActions)]
  /\ Requests \subseteq [Connector -> Level \cup {"unused", ""}]
  /\ MaxIterations \in Nat \ {0}
  /\ MaxCalls \in Nat

VARIABLES
  configured, \* of each connector, its permissions list
  trigger,    \* "job" or "chat" (a chat message, or `viaduct task run`)
  request,    \* the job's level for each of its connectors
  pc,
  expired,    \* the task's context has ended
  iter,       \* iterations
  calls,      \* tool calls of the reply that are still to be executed
  paid,       \* completions received
  asked,      \* tool calls in all replies
  answers,    \* tool calls answered in messages, = toolInvocations
  denied,     \* the tool calls the permission check refused
  ops,        \* the operations carried out on connectors, in order
  trail,      \* the audit_log rows of operations, in order
  dropped,    \* operations whose audit row could not be inserted
  usage,      \* the iterations with an llm_usage row
  unlogged,   \* the iterations whose llm_usage row could not be inserted
  record,     \* the agent's own audit_log row
  result      \* what Execute returned: [status, cost]

vars == <<configured, trigger, request, pc, expired, iter, calls, paid, asked, answers,
          denied, ops, trail, dropped, usage, unlogged, record, result>>
books == <<paid, usage, unlogged>>
tools == <<asked, answers, denied, ops, trail, dropped>>

NoRequest == [c \in Connector |-> "unused"]
Call == [connector : Connector, action : Action]
Reply == UNION {[1..n -> Call] : n \in 0..MaxCalls}

-----------------------------------------------------------------------------
(* Permissions.                                                             *)

(* newApp and scheduler.New both keep the first entry of the list.          *)
ConfiguredLevel(c) == IF configured[c] = <<>> THEN "read" ELSE configured[c][1]

Allows(level, op) ==
  CASE level = "admin" -> TRUE
    [] level = "write" -> op \in {"read", "write"}
    [] OTHER           -> op = "read"

PermissionRank(level) == CASE level = "admin" -> 3 [] level = "write" -> 2 [] OTHER -> 1

(* Fault: "update" is missing from the actions that need write.             *)
PermittedForgetsUpdate(t) ==
  /\ t.action \in ReadActions => Allows(ConfiguredLevel(t.connector), "read")
  /\ t.action \in WriteActions \ {"update"} => Allows(ConfiguredLevel(t.connector), "write")

(* The first switch of executeToolCall; a name in no case is not checked.   *)
Permitted(t) ==
  /\ t.action \in ReadActions => Allows(ConfiguredLevel(t.connector), "read")
  /\ t.action \in WriteActions => Allows(ConfiguredLevel(t.connector), "write")

(* Fault: the comparison is the wrong way round.                            *)
FitsSwapped(c) == PermissionRank(request[c]) >= PermissionRank(ConfiguredLevel(c))

(* preFlightChecks: the requested level, read if none is given, does not    *)
(* exceed the configured one.                                               *)
Fits(c) == PermissionRank(request[c]) <= PermissionRank(ConfiguredLevel(c))

(* The second switch, auditedConnector's assertion and asResource: the call *)
(* gets as far as the connector.                                            *)
Reaches(t) ==
  /\ t.connector \in Registered
  /\ Permitted(t)
  /\ t.action \in Supports[t.connector]

(* The reply's resource argument may not be an object.                      *)
MayBeMalformed(t) == t.action \in {"create", "update"}

-----------------------------------------------------------------------------

Init ==
  /\ configured \in Configurations
  /\ \/ trigger = "job" /\ request \in Requests
     \/ trigger = "chat" /\ request = NoRequest
  /\ pc = "idle"
  /\ expired = FALSE
  /\ iter = 1
  /\ calls = <<>>
  /\ paid = 0
  /\ asked = 0
  /\ answers = 0
  /\ denied = {}
  /\ ops = <<>>
  /\ trail = <<>>
  /\ dropped = 0
  /\ usage = {}
  /\ unlogged = {}
  /\ record = "none"
  /\ result = [status |-> "none", cost |-> 0]

(* A job goes through preFlightChecks first: every connector it names is    *)
(* registered, healthy and configured for what it asks.                     *)
Refused ==
  \E c \in Connector : request[c] # "unused" /\ (c \notin Registered \/ ~Fits(c))

Preflight ==
  /\ pc = "idle"
  /\ trigger = "job"
  /\ \/ pc' = "ask" /\ ~Refused
     \/ pc' = "refused"             \* as above, or a connector is unhealthy
  /\ UNCHANGED <<configured, trigger, request, expired, iter, calls, books, tools, record, result>>

Begin ==
  /\ pc = "idle"
  /\ trigger = "chat"
  /\ pc' = "ask"
  /\ UNCHANGED <<configured, trigger, request, expired, iter, calls, books, tools, record, result>>

Working == pc \in {"ask", "charge", "tool", "log", "answered", "failed"}

(* The deadline of the job or of the chat message; the bridge's shutdown.   *)
Expire ==
  /\ Working
  /\ ~expired
  /\ expired' = TRUE
  /\ UNCHANGED <<configured, trigger, request, pc, iter, calls, books, tools, record, result>>

(* Router.Complete answers: some provider replied, or all failed.  Nothing  *)
(* answers under a context that has ended.                                  *)
Complete ==
  /\ pc = "ask"
  /\ \/ /\ ~expired
        /\ \E r \in Reply : calls' = r /\ asked' = asked + Len(r)
        /\ paid' = paid + 1
        /\ pc' = "charge"
     \/ /\ pc' = "failed"
        /\ UNCHANGED <<calls, asked, paid>>
  /\ UNCHANGED <<configured, trigger, request, expired, iter, answers, denied, ops, trail,
                 dropped, usage, unlogged, record, result>>

(* Fault: only the answer's own completion is charged.                      *)
ChargeAnswerOnly ==
  /\ pc = "charge"
  /\ \/ calls = <<>> /\ ~expired /\ usage' = usage \cup {iter} /\ UNCHANGED unlogged
     \/ calls = <<>> /\ unlogged' = unlogged \cup {iter} /\ UNCHANGED usage
     \/ calls # <<>> /\ UNCHANGED <<usage, unlogged>>
  /\ pc' = IF calls = <<>> THEN "answered" ELSE "tool"
  /\ UNCHANGED <<configured, trigger, request, expired, iter, calls, paid, tools, record, result>>

(* insertUsage, under the task's own context.                               *)
Charge ==
  /\ pc = "charge"
  /\ \/ ~expired /\ usage' = usage \cup {iter} /\ UNCHANGED unlogged
     \/ unlogged' = unlogged \cup {iter} /\ UNCHANGED usage
  /\ pc' = IF calls = <<>> THEN "answered" ELSE "tool"
  /\ UNCHANGED <<configured, trigger, request, expired, iter, calls, paid, tools, record, result>>

(* Fault: a failed tool call breaks out of the loop over the reply's calls. *)
RefuseBreaks ==
  /\ pc = "tool" /\ calls # <<>>
  /\ ~Reaches(Head(calls)) \/ MayBeMalformed(Head(calls))
  /\ denied' = IF Head(calls).connector \in Registered /\ ~Permitted(Head(calls))
               THEN denied \cup {Head(calls)} ELSE denied
  /\ calls' = <<>>
  /\ answers' = answers + 1
  /\ UNCHANGED <<configured, trigger, request, pc, expired, iter, asked, ops, trail, dropped,
                 books, record, result>>

(* executeToolCall fails before the connector: the model is told so.        *)
Refuse ==
  /\ pc = "tool" /\ calls # <<>>
  /\ ~Reaches(Head(calls)) \/ MayBeMalformed(Head(calls))
  /\ denied' = IF Head(calls).connector \in Registered /\ ~Permitted(Head(calls))
               THEN denied \cup {Head(calls)} ELSE denied
  /\ calls' = Tail(calls)
  /\ answers' = answers + 1
  /\ UNCHANGED <<configured, trigger, request, pc, expired, iter, asked, ops, trail, dropped,
                 books, record, result>>

(* auditedConnector: the operation ...                                      *)
Perform ==
  /\ pc = "tool" /\ calls # <<>>
  /\ Reaches(Head(calls))
  /\ \E ok \in BOOLEAN :
       /\ ok => ~expired
       /\ ops' = Append(ops, [call |-> Head(calls), ok |-> ok])
  /\ pc' = "log"
  /\ UNCHANGED <<configured, trigger, request, expired, iter, calls, asked, answers, denied,
                 trail, dropped, books, record, result>>

(* Fault: the operation's error is returned before the audit.               *)
LogSuccesses ==
  /\ pc = "log"
  /\ \/ ~expired /\ ops[Len(ops)].ok /\ trail' = Append(trail, ops[Len(ops)]) /\ UNCHANGED dropped
     \/ ops[Len(ops)].ok /\ dropped' = dropped + 1 /\ UNCHANGED trail
     \/ ~ops[Len(ops)].ok /\ UNCHANGED <<trail, dropped>>
  /\ calls' = Tail(calls)
  /\ answers' = answers + 1
  /\ pc' = "tool"
  /\ UNCHANGED <<configured, trigger, request, expired, iter, asked, denied, ops, books, record, result>>

(* ... and its Log, whose error is dropped; the result goes to the model.   *)
Log ==
  /\ pc = "log"
  /\ \/ ~expired /\ trail' = Append(trail, ops[Len(ops)]) /\ UNCHANGED dropped
     \/ dropped' = dropped + 1 /\ UNCHANGED trail
  /\ calls' = Tail(calls)
  /\ answers' = answers + 1
  /\ pc' = "tool"
  /\ UNCHANGED <<configured, trigger, request, expired, iter, asked, denied, ops, books, record, result>>

(* Fault: the loop runs once more than maxIterations.                       *)
RoundOffByOne ==
  /\ pc = "tool" /\ calls = <<>>
  /\ \/ iter <= MaxIterations /\ iter' = iter + 1 /\ pc' = "ask"
     \/ iter > MaxIterations /\ pc' = "failed" /\ UNCHANGED iter
  /\ UNCHANGED <<configured, trigger, request, expired, calls, books, tools, record, result>>

(* The end of an iteration: another one, or the limit.                      *)
Round ==
  /\ pc = "tool" /\ calls = <<>>
  /\ \/ iter < MaxIterations /\ iter' = iter + 1 /\ pc' = "ask"
     \/ iter = MaxIterations /\ pc' = "failed" /\ UNCHANGED iter
  /\ UNCHANGED <<configured, trigger, request, expired, calls, books, tools, record, result>>

(* insertAudit and return, under the task's own context.                    *)
Return(status, cost) ==
  /\ \/ ~expired /\ record' = status
     \/ UNCHANGED record
  /\ result' = [status |-> status, cost |-> cost]
  /\ pc' = "done"
  /\ UNCHANGED <<configured, trigger, request, expired, iter, calls, books, tools>>

(* Fault: after an error the last text is returned as an answer.            *)
AnswerAnyway ==
  /\ pc \in {"answered", "failed"}
  /\ \/ ~expired /\ record' = "error"
     \/ UNCHANGED record
  /\ result' = [status |-> "success", cost |-> paid]
  /\ pc' = "done"
  /\ UNCHANGED <<configured, trigger, request, expired, iter, calls, books, tools>>

Answer ==
  \/ pc = "answered" /\ Return("success", paid)
  \/ pc = "failed" /\ Return("error", 0)

-----------------------------------------------------------------------------

Next ==
  \/ Preflight \/ Begin \/ Expire \/ Complete \/ Charge \/ Refuse \/ Perform \/ Log
  \/ Round \/ Answer

Spec == Init /\ [][Next]_vars

(* The agent's own steps are taken; providers and connectors return once    *)
(* the context they were given has ended.                                   *)
Local == Charge \/ Refuse \/ Log \/ Round \/ Answer
Fairness == WF_vars(Local) /\ WF_vars(expired /\ (Complete \/ Perform))

FairSpec == Spec /\ Fairness

-----------------------------------------------------------------------------

Operation == [call : Call, ok : BOOLEAN]

(* Every variable holds a value of its declared kind, and the loop counter  *)
(* stays within maxIterations.                                              *)
TypeOK ==
  /\ configured \in Configurations
  /\ trigger \in {"job", "chat"}
  /\ request \in Requests \cup {NoRequest}
  /\ pc \in {"idle", "refused", "ask", "charge", "tool", "log", "answered", "failed", "done"}
  /\ expired \in BOOLEAN
  /\ iter \in 1..MaxIterations
  /\ calls \in Seq(Call)
  /\ paid \in 0..MaxIterations
  /\ asked \in Nat /\ answers \in Nat /\ dropped \in Nat
  /\ denied \subseteq Call
  /\ ops \in Seq(Operation) /\ trail \in Seq(Operation)
  /\ usage \subseteq 1..MaxIterations /\ unlogged \subseteq 1..MaxIterations
  /\ record \in {"none", "success", "error"}
  /\ result \in [status : {"none", "success", "error"}, cost : 0..MaxIterations]

(* No operation that changes something is handed to a connector configured  *)
(* for less than write, whatever tools the model names (agent.go 336-345).  *)
WritesArePermitted ==
  \A k \in 1..Len(ops) :
    ops[k].call.action \in WriteActions =>
      ConfiguredLevel(ops[k].call.connector) \in {"write", "admin"}

(* The audit log of a task is its operations in order, success or error,    *)
(* but for the rows whose insertion failed (audit.go 64-201).               *)
TrailFaithful ==
  LET made == IF pc = "log" THEN Len(ops) - 1 ELSE Len(ops)
  IN  /\ Len(trail) + dropped = made
      /\ dropped = 0 => trail = SubSeq(ops, 1, made)

(* Each completion that was paid for has one llm_usage row under its own    *)
(* request id, or its insertion failed: also those that only asked for      *)
(* tools, and those of a task that fails later (agent.go 109-123).          *)
SpendingAccounted ==
  /\ usage \cap unlogged = {}
  /\ usage \cup unlogged = 1..(IF pc = "charge" THEN paid - 1 ELSE paid)

(* When the model is asked again it has been told of every tool call it     *)
(* made, refused and failed ones included (agent.go 157-172).               *)
AllAnswered ==
  /\ pc \in {"ask", "answered"} => answers = asked
  /\ pc \in {"tool", "log"} => answers + Len(calls) = asked

(* A job that passed the preflight check is denied nothing it asked for:    *)
(* the scheduler's ranking and the agent's check agree (scheduler.go        *)
(* 297-307, permissions.go 25-45).                                          *)
PreflightSuffices ==
  trigger = "job" =>
    \A t \in denied : t.action \in ReadActions \cup WriteActions =>
      ~Allows(request[t.connector], IF t.action \in ReadActions THEN "read" ELSE "write")

(* The task is a TaskContract, from its preflight to its answer, and keeps  *)
(* the contract's promise to return once its context has ended.             *)
Contract == INSTANCE TaskContract WITH
  Limit <- MaxIterations,
  state <- CASE pc \in {"idle", "refused"} -> "waiting"
             [] pc = "done"               -> result.status
             [] OTHER                     -> "working",
  late <- expired,
  bought <- paid,
  bill <- result.cost

ContractSpec == Contract!Spec /\ Contract!Prompt

-----------------------------------------------------------------------------
(* What the repository's texts say and the code does not do.                *)

(* viaduct.example.yaml 89, `permissions: [read, write]`: an operation that *)
(* a level of the connector's list covers is not denied.                    *)
ListedIsGranted ==
  \A t \in denied : \A k \in DOMAIN configured[t.connector] :
    ~Allows(configured[t.connector][k], IF t.action \in ReadActions THEN "read" ELSE "write")

=============================================================================
