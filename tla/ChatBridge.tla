----------------------------- MODULE ChatBridge -----------------------------
(***************************************************************************)
(* cmd/viaduct/chat_bridge.go over internal/connectors/slack: a workspace   *)
(* where users and the bot post messages, the events Slack sends for them,  *)
(* the loop of Listen that takes them one at a time, and a goroutine for    *)
(* each message that is for the bot.  The agent's task is the one of        *)
(* TaskContract, here with what its tools do to the Slack connector.        *)
(***************************************************************************)
EXTENDS Naturals, Sequences, FiniteSets

CONSTANTS
  Configs,     \* what viaduct.yaml may say of the connector
  MaxTasks,    \* bound: handlers in a behaviour, which the budgets imply
  Budgets      \* bounds that go together: messages users post, all messages,
               \* events Slack sends once more, uses of the tools that list and
               \* post, and processes

ASSUME ChatAssumption ==
  /\ Configs \subseteq [writes : BOOLEAN, token : {"set", "blank", "absent"}]
  /\ MaxTasks \in Nat
  /\ Budgets \subseteq [posts : Nat, messages : Nat, resent : Nat, tools : Nat, lives : Nat]
  /\ \A b \in Budgets : 2 * b.messages + b.resent <= MaxTasks

VARIABLES
  config,    \* the connector's section, chosen once
  budget,    \* the bounds of this behaviour
  msgs,      \* the messages of the workspace in order; their place is their id
  events,    \* events that Slack has yet to deliver, or never will
  resent,    \* the messages of the events it delivers again
  life,      \* which process this is: it may be restarted
  up,        \* it runs
  stopping,  \* its context was cancelled
  bridge,    \* off, starting, listening or stopped
  current,   \* the acknowledged event that Listen is about to handle
  known,     \* the threads in threadContext
  tasks,     \* the handlers in the order they were started
  tools,     \* uses of the tools
  met        \* history: threads listed, or posted in by a tool, in this life

given == <<config, budget>>
slack == <<msgs, events, resent>>
proc == <<life, up, stopping, bridge>>
vars == <<config, budget, msgs, events, resent, life, up, stopping, bridge, current, known, tasks,
          tools, met>>

-----------------------------------------------------------------------------
(* The workspace.  A message is a post in a channel, a direct message or a  *)
(* slash command; root is the message whose thread it is in, 0 for none.    *)
(* "edit" is a message event with a subtype.                                *)

NoEvent == [msg |-> 0, type |-> "none"]

Kinds == {"mention", "plain", "edit", "direct", "slash"}

Msg(by, kind, root) == [by |-> by, kind |-> kind, root |-> root]

(* A mention in a channel is announced twice.                               *)
EventTypes(kind) ==
  CASE kind = "slash" -> {"slash"}
    [] kind = "mention" -> {"app_mention", "message"}
    [] OTHER -> {"message"}

Post(m) ==
  /\ msgs' = Append(msgs, m)
  /\ events' = events \cup {[msg |-> Len(msgs) + 1, type |-> type] : type \in EventTypes(m.kind)}

Direct(i) == msgs[i].kind = "direct"
Roots == {i \in DOMAIN msgs : msgs[i].root = 0 /\ msgs[i].kind # "slash"}

UserPosts ==
  /\ Cardinality({i \in DOMAIN msgs : msgs[i].by = "user"}) < budget.posts
  /\ Len(msgs) < budget.messages
  /\ up \/ life < budget.lives
  /\ \E kind \in Kinds, root \in {0} \cup Roots :
       /\ kind = "slash" => root = 0
       /\ root # 0 => (kind = "direct" <=> Direct(root))
       /\ Post(Msg("user", kind, root))
  /\ UNCHANGED <<given, resent, proc, current, known, tasks, tools, met>>

-----------------------------------------------------------------------------

Init ==
  /\ config \in Configs /\ budget \in Budgets
  /\ msgs = <<>> /\ events = {} /\ resent = {}
  /\ life = 1 /\ up = TRUE /\ stopping = FALSE
  /\ bridge = "starting"
  /\ current = NoEvent
  /\ known = {}
  /\ tasks = <<>>
  /\ tools = 0
  /\ met = {}

(* chatBridgeEnabled.  A missing app_token prints as "<nil>" and is not     *)
(* taken for a blank one: the bridge starts, and Listen refuses.            *)
Enabled == config.writes /\ config.token # "blank"

StartBridge ==
  /\ up /\ bridge = "starting"
  /\ \/ ~Enabled /\ bridge' = "off"
     \/ Enabled /\ bridge' = "stopped"
     \/ Enabled /\ config.token = "set" /\ bridge' = "listening"
  /\ UNCHANGED <<given, slack, life, up, stopping, current, known, tasks, tools, met>>

(* The connection is lost for good, the token is revoked or the context was *)
(* cancelled.  (If RunContext returns, Listen waits on for events that never *)
(* come: to the users it is the same.)                                      *)
ListenEnds ==
  /\ up /\ current = NoEvent
  /\ bridge = "listening"
  /\ bridge' = "stopped"
  /\ UNCHANGED <<given, slack, life, up, stopping, current, known, tasks, tools, met>>

(* An event is acknowledged before it is looked at.  The acknowledgement    *)
(* may be lost, and the event sent again.                                   *)
Receive ==
  /\ up /\ bridge = "listening" /\ current = NoEvent
  /\ \E e \in events :
       /\ current' = e
       /\ \/ events' = events \ {e} /\ UNCHANGED resent
          \/ /\ Cardinality(resent) < budget.resent
             /\ resent' = resent \cup {e}
             /\ e \notin resent
             /\ UNCHANGED events
  /\ UNCHANGED <<given, msgs, proc, known, tasks, tools, met>>

(* Fault: the thread of a message outside threads is the message itself.    *)
ThreadOrSelf(e) == IF msgs[e.msg].root # 0 THEN msgs[e.msg].root ELSE e.msg

(* The ThreadID of an event: a mention outside threads opens one.           *)
Thread(e) ==
  IF e.type = "app_mention" /\ msgs[e.msg].root = 0 THEN e.msg ELSE msgs[e.msg].root

(* Fault: what the bot writes is not told apart.                            *)
FromAnyone(m) == m.kind # "edit"

(* No subtype, no BotID and not the bot's own user.                         *)
FromUser(m) == m.kind # "edit" /\ m.by = "user"

shouldHandleDirectMessage(e) == Direct(e.msg) /\ FromUser(msgs[e.msg])

(* Fault: any thread will do.                                               *)
shouldHandleAnyReply(e) == ~Direct(e.msg) /\ Thread(e) # 0 /\ FromUser(msgs[e.msg])

shouldHandleThreadReply(e) ==
  /\ ~Direct(e.msg)
  /\ Thread(e) # 0 /\ Thread(e) \in known
  /\ FromUser(msgs[e.msg])

ForBot(e) ==
  e.type = "message" => shouldHandleDirectMessage(e) \/ shouldHandleThreadReply(e)

(* Fault: the thread of a message outside threads is remembered, too.       *)
RememberAny(thread) == known \cup {thread}

(* rememberThread, of a message with an id.                                 *)
Remember(thread) == IF thread = 0 THEN known ELSE known \cup {thread}

Handler(e, state) ==
  [msg |-> e.msg, type |-> e.type, thread |-> Thread(e), state |-> state, life |-> life]

(* The handler starts with the task, or with a reply if no goal is left of  *)
(* the text; what comes of the task is decided later.                       *)
Handle ==
  /\ up /\ current # NoEvent
  /\ current' = NoEvent
  /\ \/ /\ ForBot(current)
        /\ known' = Remember(Thread(current))
        /\ \E state \in {"working", "replying"} : tasks' = Append(tasks, Handler(current, state))
     \/ /\ ~ForBot(current)
        /\ UNCHANGED <<known, tasks>>
  /\ UNCHANGED <<given, slack, proc, tools, met>>

-----------------------------------------------------------------------------
(* A handler, its place among the tasks being t.                            *)

In(t, state) == up /\ tasks[t].state = state
Becomes(t, state) == tasks' = [tasks EXCEPT ![t].state = state]

UseTool(t) ==
  /\ In(t, "working") /\ ~stopping
  /\ tools < budget.tools
  /\ tools' = tools + 1

(* listMessages: every message of the channel's history is remembered.      *)
ListMessages(t) ==
  /\ UseTool(t)
  /\ LET threads == {i \in Roots : ~Direct(i)} IN
       known' = known \cup threads /\ met' = met \cup threads
  /\ UNCHANGED <<given, slack, proc, current, tasks>>

(* What the model writes may mention the bot: nothing escapes it.           *)
Written == {"plain", "mention"}

(* Create, with thread_ts or without.                                       *)
Create(t) ==
  /\ UseTool(t)
  /\ Len(msgs) < budget.messages
  /\ \E kind \in Written, root \in {0} \cup {i \in Roots : ~Direct(i)} :
       /\ Post(Msg("bot", kind, root))
       /\ known' = Remember(root)
       /\ met' = met \cup ({root} \ {0})
  /\ UNCHANGED <<given, resent, proc, current, tasks>>

(* Execute returns with a response or an error, before its two minutes are  *)
(* over or after: there is a reply in any case.                             *)
Finish(t) ==
  /\ In(t, "working")
  /\ Becomes(t, "replying")
  /\ UNCHANGED <<given, slack, proc, current, known, tools, met>>

(* The reply is sent under the context of the bridge, not of the task.      *)
CanReply(t) == ~stopping

(* Fault: a reply Slack refused is tried again by a second handler.         *)
ReplyRetried(t) ==
  /\ In(t, "replying")
  /\ \/ Becomes(t, "answered")
     \/ tasks' = Append([tasks EXCEPT ![t].state = "answered"],
                       [tasks[t] EXCEPT !.state = "answered"])
  /\ UNCHANGED <<given, slack, proc, current, known, tools, met>>

(* Bound: a reply beyond budget.messages is not kept among the messages.    *)
Reply(t) ==
  /\ In(t, "replying")
  /\ \/ /\ CanReply(t)
        /\ IF Len(msgs) < budget.messages
             THEN \E kind \in IF Direct(tasks[t].msg) THEN {"direct"} ELSE Written :
                    Post(Msg("bot", kind, tasks[t].thread))
             ELSE UNCHANGED <<msgs, events>>
        /\ known' = Remember(tasks[t].thread)
        /\ Becomes(t, "answered")
     \/ /\ Becomes(t, IF CanReply(t) THEN "refused" ELSE "cut")
        /\ UNCHANGED <<msgs, events, known>>
  /\ UNCHANGED <<given, resent, proc, current, tools, met>>

-----------------------------------------------------------------------------
(* The process.                                                             *)

Settled == {"answered", "refused", "cut", "killed"}

Signal ==
  /\ up /\ ~stopping
  /\ stopping' = TRUE
  /\ UNCHANGED <<given, slack, life, up, bridge, current, known, tasks, tools, met>>

(* After the signal, when runServe is done, or by a crash: nothing waits    *)
(* for the handlers.                                                        *)
Exit ==
  /\ up
  /\ up' = FALSE
  /\ current' = NoEvent
  /\ tasks' = [t \in DOMAIN tasks |->
                 IF tasks[t].state \in Settled THEN tasks[t] ELSE [tasks[t] EXCEPT !.state = "killed"]]
  /\ UNCHANGED <<given, slack, life, stopping, bridge, known, tools, met>>

Restart ==
  /\ ~up /\ life < budget.lives
  /\ life' = life + 1 /\ up' = TRUE /\ stopping' = FALSE
  /\ bridge' = "starting"
  /\ known' = {} /\ met' = {}
  /\ UNCHANGED <<given, slack, current, tasks, tools>>

Listener == StartBridge \/ Receive \/ Handle \/ ListenEnds

HandlerOf(t) == ListMessages(t) \/ Create(t) \/ Finish(t) \/ Reply(t)

Next ==
  \/ UserPosts
  \/ Listener
  \/ \E t \in DOMAIN tasks : HandlerOf(t)
  \/ Signal \/ Exit \/ Restart

Spec == Init /\ [][Next]_vars

(* A task returns, by its deadline at the latest (the promise of            *)
(* TaskContract), and Slack answers a post.                                 *)
FairSpec ==
  /\ Spec
  /\ \A t \in 1..MaxTasks : WF_vars(t \in DOMAIN tasks /\ (Finish(t) \/ Reply(t)))

-----------------------------------------------------------------------------
(* Properties.                                                              *)

(* Every variable keeps its type; only messages of the workspace are        *)
(* announced, remembered and worked on.                                     *)
TypeOK ==
  /\ config \in Configs
  /\ Len(msgs) <= budget.messages
  /\ \A e \in events \cup resent : e.msg \in DOMAIN msgs
  /\ known \cup met \subseteq DOMAIN msgs
  /\ Len(tasks) <= MaxTasks
  /\ \A t \in DOMAIN tasks : /\ tasks[t].msg \in DOMAIN msgs
                             /\ tasks[t].thread \in 0..Len(msgs)
                             /\ tasks[t].state \in {"working", "replying"} \cup Settled
  /\ ~up => \A t \in DOMAIN tasks : tasks[t].state \in Settled
  /\ bridge \in {"off", "starting", "listening", "stopped"}
  /\ current # NoEvent => bridge = "listening"

(* A message is worked on once.  It is only worked on again when Slack sent *)
(* its event again, or when it mentions the bot inside a thread, which the  *)
(* bot then knows when the second event of the mention comes (Listen).      *)
OneTaskPerMessage ==
  \A i \in DOMAIN msgs :
    LET twice == msgs[i].kind = "mention" /\ msgs[i].root # 0
    IN  Cardinality({t \in DOMAIN tasks : tasks[t].msg = i})
          <= 1 + Cardinality({e \in resent : e.msg = i}) + IF twice THEN 1 ELSE 0

(* The bot never works on what it wrote itself, in a thread it knows or in  *)
(* a direct message, so that two of its replies cannot feed each other;     *)
(* only a mention of itself that Slack announces to it is worked on, since  *)
(* Listen does not look who wrote it.                                       *)
NeverAnswersItself ==
  \A t \in DOMAIN tasks :
    \/ msgs[tasks[t].msg].by = "user"
    \/ tasks[t].type = "app_mention" /\ msgs[tasks[t].msg].kind = "mention"

(* Outside direct messages the bot follows up only where, in this life of   *)
(* the process, it was mentioned before or an agent has read or written.    *)
FollowUpsExplained ==
  \A t \in DOMAIN tasks :
    tasks[t].life = life /\ tasks[t].type = "message" /\ ~Direct(tasks[t].msg) =>
      \/ tasks[t].thread \in met
      \/ \E s \in 1..t - 1 : tasks[s].life = life /\ tasks[s].thread = tasks[t].thread
                               /\ tasks[s].type = "app_mention"

(* The bridge keeps the promises of ChatInbox to each message.              *)
HandlersOf(i, states) ==
  Cardinality({t \in DOMAIN tasks : tasks[t].msg = i /\ tasks[t].state \in states})

Inbox == INSTANCE ChatInbox WITH
  Message <- 1..MaxTasks,
  open <- up,
  owed <- [i \in 1..MaxTasks |-> HandlersOf(i, {"working", "replying"})],
  answers <- [i \in 1..MaxTasks |-> HandlersOf(i, {"answered"})]

InboxSpec == Inbox!Spec

=============================================================================
