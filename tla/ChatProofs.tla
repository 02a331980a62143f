----------------------------- MODULE ChatProofs -----------------------------
(* Theorems about ChatBridge, for any number of messages, events sent       *)
(* again, tools and processes.                                              *)
EXTENDS ChatBridge, FiniteSetTheorems, TLAPS

-----------------------------------------------------------------------------
(* The invariant.  A thread keeps to direct messages or away from them;     *)
(* events announce messages; a handler works in the thread of its event, in *)
(* the process that started it; and the threads known have a reason.        *)

Message == [by : {"user", "bot"}, kind : Kinds, root : Nat]
Task == [msg : Nat, type : {"app_mention", "message", "slash"}, thread : Nat,
         state : {"working", "replying"} \cup Settled, life : Nat]

Rooted(m) ==
  /\ m.kind = "slash" => m.by = "user" /\ m.root = 0
  /\ m.root # 0 => m.root \in 1..Len(msgs) /\ (m.kind = "direct" <=> Direct(m.root))

MsgInv == msgs \in Seq(Message) /\ \A i \in 1..Len(msgs) : Rooted(msgs[i])

Announced(e) == e.msg \in 1..Len(msgs) /\ e.type \in EventTypes(msgs[e.msg].kind)

EventInv ==
  /\ \A e \in events : Announced(e)
  /\ current # NoEvent => Announced(current)

TaskInv ==
  /\ tasks \in Seq(Task) /\ life \in Nat
  /\ \A t \in 1..Len(tasks) :
       /\ Announced(tasks[t]) /\ tasks[t].thread = Thread(tasks[t])
       /\ tasks[t].life <= life
       /\ tasks[t].state \notin Settled => tasks[t].life = life /\ up

(* A mention of this life, among the first n handlers, in the thread.       *)
Mentioned(n, thread) ==
  \E s \in 1..n : tasks[s].life = life /\ tasks[s].thread = thread /\ tasks[s].type = "app_mention"

KnownInv ==
  \A thread \in known :
    /\ thread \in 1..Len(msgs)
    /\ Direct(thread) \/ thread \in met \/ Mentioned(Len(tasks), thread)

FollowInv ==
  \A t \in 1..Len(tasks) :
    tasks[t].life = life /\ tasks[t].type = "message" /\ ~Direct(tasks[t].msg) =>
      tasks[t].thread \in met \/ Mentioned(t - 1, tasks[t].thread)

OwnInv ==
  \A t \in 1..Len(tasks) : msgs[tasks[t].msg].by = "user" \/ tasks[t].type = "app_mention"

ChatInv == MsgInv /\ EventInv /\ TaskInv /\ KnownInv /\ FollowInv /\ OwnInv

(* There is nothing at first.                                               *)
LEMMA ChatInit == Init => ChatInv
  BY DEF Init, ChatInv, MsgInv, EventInv, TaskInv, KnownInv, FollowInv, OwnInv

(* Only kinds of events there are announce a message.                       *)
LEMMA Types == \A kind \in Kinds : EventTypes(kind) \subseteq {"app_mention", "message", "slash"}
  BY DEF Kinds, EventTypes

(* A post adds a message and its events, and changes no other.              *)
LEMMA Posting ==
  ASSUME MsgInv, EventInv, NEW m \in Message, Rooted(m), Post(m), UNCHANGED current
  PROVE  /\ MsgInv' /\ EventInv'
         /\ Len(msgs) <= Len(msgs') /\ \A i \in 1..Len(msgs) : msgs'[i] = msgs[i]
<1>1. /\ Len(msgs) \in Nat /\ Len(msgs') = Len(msgs) + 1
      /\ msgs' \in Seq(Message) /\ msgs'[Len(msgs) + 1] = m
      /\ \A i \in 1..Len(msgs) : msgs'[i] = msgs[i]
  BY DEF Post, MsgInv
<1>2. \A i \in 1..Len(msgs') : Rooted(msgs[i])'
  <2> TAKE i \in 1..Len(msgs')
  <2>1. CASE i \in 1..Len(msgs)
    BY <1>1, <2>1 DEF MsgInv, Rooted, Direct
  <2>2. CASE i = Len(msgs) + 1
    BY <1>1, <2>2 DEF Rooted, Direct
  <2> QED
    BY <1>1, <2>1, <2>2
<1>3. MsgInv'
  BY <1>1, <1>2 DEF MsgInv
<1>4. \A e : Announced(e) => Announced(e)'
  BY <1>1 DEF Announced
<1>5. \A e \in events' : Announced(e)'
  <2> TAKE e \in events'
  <2>1. CASE e \in events
    BY <1>4, <2>1 DEF EventInv
  <2>2. CASE e \notin events
    <3>1. PICK type \in EventTypes(m.kind) : e = [msg |-> Len(msgs) + 1, type |-> type]
      BY <2>2 DEF Post
    <3> QED
      BY <1>1, <3>1 DEF Announced
  <2> QED
    BY <2>1, <2>2
<1>6. EventInv'
  BY <1>4, <1>5 DEF EventInv
<1> QED
  BY <1>1, <1>3, <1>6

(* Handlers only move on, while messages are added: what is known of them   *)
(* stays.                                                                   *)
LEMMA Moving ==
  ASSUME ChatInv, MsgInv', EventInv', Len(msgs) <= Len(msgs'),
         \A i \in 1..Len(msgs) : msgs'[i] = msgs[i],
         tasks' \in Seq(Task), Len(tasks') = Len(tasks), life' = life,
         \A t \in 1..Len(tasks) :
           /\ tasks'[t].msg = tasks[t].msg /\ tasks'[t].type = tasks[t].type
           /\ tasks'[t].thread = tasks[t].thread /\ tasks'[t].life = tasks[t].life
           /\ tasks'[t].state \notin Settled => tasks[t].state \notin Settled /\ up',
         met \subseteq met',
         \A thread \in known' \ known :
           /\ thread \in 1..Len(msgs)
           /\ Direct(thread) \/ thread \in met' \/ Mentioned(Len(tasks), thread)
  PROVE  ChatInv'
<1>0. Len(msgs) \in Nat /\ Len(msgs') \in Nat /\ Len(tasks) \in Nat
  BY DEF ChatInv, MsgInv, TaskInv
<1>1. \A t \in 1..Len(tasks) : Announced(tasks[t])' /\ Thread(tasks[t])' = Thread(tasks[t])
  BY <1>0 DEF ChatInv, TaskInv, Announced, Thread
<1>2. TaskInv'
  BY <1>0, <1>1 DEF ChatInv, TaskInv
<1>3. \A n \in 0..Len(tasks) : \A thread : Mentioned(n, thread) => Mentioned(n, thread)'
  BY <1>0 DEF Mentioned
<1>4. KnownInv'
  <2> SUFFICES ASSUME NEW thread \in known'
               PROVE  /\ thread \in 1..Len(msgs')
                      /\ Direct(thread)' \/ thread \in met' \/ Mentioned(Len(tasks), thread)'
    BY DEF KnownInv
  <2>1. /\ thread \in 1..Len(msgs)
        /\ Direct(thread) \/ thread \in met' \/ Mentioned(Len(tasks), thread)
    BY DEF ChatInv, KnownInv
  <2>2. Mentioned(Len(tasks), thread) => Mentioned(Len(tasks), thread)'
    BY <1>0, <1>3
  <2> QED
    BY <1>0, <2>1, <2>2 DEF Direct
<1>5. FollowInv'
  <2> SUFFICES ASSUME NEW t \in 1..Len(tasks), tasks'[t].life = life', tasks'[t].type = "message",
                      ~Direct(tasks[t].msg)', NEW thread, thread = tasks[t].thread
               PROVE  thread \in met' \/ Mentioned(t - 1, thread)'
    BY <1>0 DEF FollowInv
  <2>1. tasks[t].msg \in 1..Len(msgs) /\ tasks'[t].msg = tasks[t].msg
    BY DEF ChatInv, TaskInv, Announced
  <2>2. tasks[t].life = life /\ tasks[t].type = "message" /\ ~Direct(tasks[t].msg)
    BY <2>1 DEF Direct
  <2>3. thread \in met \/ Mentioned(t - 1, thread)
    BY <2>2 DEF ChatInv, FollowInv
  <2>4. Mentioned(t - 1, thread) => Mentioned(t - 1, thread)'
    BY <1>0, <1>3
  <2> QED
    BY <2>3, <2>4
<1>6. OwnInv'
  <2> SUFFICES ASSUME NEW t \in 1..Len(tasks)
               PROVE  msgs'[tasks'[t].msg].by = "user" \/ tasks'[t].type = "app_mention"
    BY DEF OwnInv
  <2>1. tasks[t].msg \in 1..Len(msgs) /\ tasks'[t].msg = tasks[t].msg
    BY DEF ChatInv, TaskInv, Announced
  <2> QED
    BY <2>1 DEF ChatInv, OwnInv
<1> QED
  BY <1>2, <1>4, <1>5, <1>6 DEF ChatInv

(* The same when no handler moves, and the process stays up ...             *)
LEMMA Resting ==
  ASSUME ChatInv, MsgInv', EventInv', Len(msgs) <= Len(msgs'),
         \A i \in 1..Len(msgs) : msgs'[i] = msgs[i],
         UNCHANGED <<tasks, life, up>>, met \subseteq met',
         \A thread \in known' \ known :
           /\ thread \in 1..Len(msgs)
           /\ Direct(thread) \/ thread \in met' \/ Mentioned(Len(tasks), thread)
  PROVE  ChatInv'
<1>1. /\ tasks' \in Seq(Task) /\ Len(tasks') = Len(tasks)
      /\ \A t \in 1..Len(tasks) :
           /\ tasks'[t] = tasks[t]
           /\ tasks'[t].state \notin Settled => tasks[t].state \notin Settled /\ up'
  BY DEF ChatInv, TaskInv
<1> QED
  BY <1>1, Moving

(* ... and when nobody posts.                                               *)
LEMMA Quiet ==
  ASSUME ChatInv, UNCHANGED <<msgs, known, tasks, life, up, met>>, events' \subseteq events,
         current' \in {current} \cup events \cup {NoEvent}
  PROVE  ChatInv'
<1>1. MsgInv' /\ Len(msgs) \in Nat
  BY DEF ChatInv, MsgInv, Rooted, Direct
<1>2. EventInv'
  BY DEF ChatInv, EventInv, Announced
<1> QED
  BY <1>1, <1>2, Resting

(* One handler moves on.                                                    *)
LEMMA OneMoves ==
  ASSUME TaskInv, NEW t \in 1..Len(tasks), NEW state \in {"working", "replying"} \cup Settled,
         Becomes(t, state)
  PROVE  /\ tasks' \in Seq(Task) /\ Len(tasks') = Len(tasks)
         /\ \A s \in 1..Len(tasks) :
              /\ tasks'[s].msg = tasks[s].msg /\ tasks'[s].type = tasks[s].type
              /\ tasks'[s].thread = tasks[s].thread /\ tasks'[s].life = tasks[s].life
              /\ tasks'[s].state = IF s = t THEN state ELSE tasks[s].state
<1> DEFINE new == [tasks[t] EXCEPT !.state = state]
<1>1. tasks \in Seq(Task) /\ tasks[t] \in Task
  BY DEF TaskInv
<1>2. /\ new \in Task /\ new.msg = tasks[t].msg /\ new.type = tasks[t].type
      /\ new.thread = tasks[t].thread /\ new.life = tasks[t].life /\ new.state = state
  BY <1>1 DEF Task
<1>3. tasks' = [tasks EXCEPT ![t] = new]
  BY DEF Becomes
<1> HIDE DEF new
<1> QED
  BY <1>1, <1>2, <1>3

(* One handler moves on, and may post what it writes.                       *)
LEMMA Advance ==
  ASSUME ChatInv, NEW t \in 1..Len(tasks), NEW state \in {"working", "replying"} \cup Settled,
         up, up', tasks[t].state \notin Settled, Becomes(t, state), UNCHANGED <<life, current, met>>,
         \/ UNCHANGED <<msgs, events>>
         \/ \E m \in Message : Rooted(m) /\ Post(m),
         known' \in {known, Remember(tasks[t].thread)},
         tasks[t].thread # 0 =>
           /\ tasks[t].thread \in 1..Len(msgs)
           /\ \/ Direct(tasks[t].thread) \/ tasks[t].thread \in met
              \/ Mentioned(Len(tasks), tasks[t].thread)
  PROVE  ChatInv'
<1>1. /\ tasks' \in Seq(Task) /\ Len(tasks') = Len(tasks)
      /\ \A s \in 1..Len(tasks) :
           /\ tasks'[s].msg = tasks[s].msg /\ tasks'[s].type = tasks[s].type
           /\ tasks'[s].thread = tasks[s].thread /\ tasks'[s].life = tasks[s].life
           /\ tasks'[s].state \notin Settled => tasks[s].state \notin Settled /\ up'
  <2>1. \A s \in 1..Len(tasks) : tasks[s].state \notin Settled => up'
    BY DEF ChatInv, TaskInv
  <2> QED
    BY <2>1, OneMoves DEF ChatInv
<1>2. /\ MsgInv' /\ EventInv' /\ Len(msgs) <= Len(msgs')
      /\ \A i \in 1..Len(msgs) : msgs'[i] = msgs[i]
  <2>1. CASE UNCHANGED <<msgs, events>>
    BY <2>1 DEF ChatInv, MsgInv, EventInv, Announced, Rooted, Direct
  <2>2. CASE \E m \in Message : Rooted(m) /\ Post(m)
    BY <2>2, Posting DEF ChatInv
  <2> QED
    BY <2>1, <2>2
<1>3. \A thread \in known' \ known :
        /\ thread \in 1..Len(msgs)
        /\ Direct(thread) \/ thread \in met' \/ Mentioned(Len(tasks), thread)
  BY DEF Remember
<1> QED
  BY <1>1, <1>2, <1>3, Moving

(* The thread of a handler at work is a direct message, or has a reason.    *)
LEMMA ThreadHasReason ==
  ASSUME ChatInv, NEW t \in 1..Len(tasks), tasks[t].life = life, tasks[t].thread # 0
  PROVE  /\ tasks[t].thread \in 1..Len(msgs)
         /\ \/ Direct(tasks[t].thread) \/ tasks[t].thread \in met
            \/ Mentioned(Len(tasks), tasks[t].thread)
         /\ Direct(tasks[t].msg) <=> Direct(tasks[t].thread)
<1>1. /\ Announced(tasks[t]) /\ tasks[t].thread = Thread(tasks[t])
      /\ tasks[t].type \in {"app_mention", "message", "slash"} /\ Len(tasks) \in Nat
      /\ Rooted(msgs[tasks[t].msg]) /\ msgs[tasks[t].msg] \in Message
  <2>1. Announced(tasks[t]) /\ tasks[t].thread = Thread(tasks[t]) /\ Len(tasks) \in Nat
    BY DEF ChatInv, TaskInv
  <2>2. tasks[t] \in Task
    BY DEF ChatInv, TaskInv
  <2>3. Rooted(msgs[tasks[t].msg]) /\ msgs[tasks[t].msg] \in Message
    BY <2>1 DEF ChatInv, MsgInv, Announced
  <2> QED
    BY <2>1, <2>2, <2>3 DEF Task
<1>2. CASE tasks[t].type = "app_mention"
  <2>1. Mentioned(Len(tasks), tasks[t].thread)
    BY <1>1, <1>2 DEF Mentioned
  <2>2. msgs[tasks[t].msg].kind = "mention"
    BY <1>1, <1>2 DEF Announced, EventTypes
  <2> QED
    BY <1>1, <1>2, <2>1, <2>2 DEF Thread, Announced, Rooted, Direct
<1>3. CASE tasks[t].type = "message"
  <2>1. /\ tasks[t].thread \in 1..Len(msgs)
        /\ Direct(tasks[t].msg) <=> Direct(tasks[t].thread)
    BY <1>1, <1>3 DEF Thread, Announced, Rooted, Direct
  <2>2. ~Direct(tasks[t].msg) => tasks[t].thread \in met \/ Mentioned(t - 1, tasks[t].thread)
    BY <1>3 DEF ChatInv, FollowInv
  <2>3. Mentioned(t - 1, tasks[t].thread) => Mentioned(Len(tasks), tasks[t].thread)
    BY <1>1 DEF Mentioned
  <2> QED
    BY <2>1, <2>2, <2>3
<1>4. CASE tasks[t].type = "slash"
  <2>1. msgs[tasks[t].msg].kind = "slash"
    BY <1>1, <1>4 DEF Announced, EventTypes, Kinds
  <2> QED
    BY <1>1, <1>4, <2>1 DEF Thread, Rooted
<1> QED
  BY <1>1, <1>2, <1>3, <1>4

(* An event for the bot starts a handler, with its reasons.                 *)
LEMMA Handling ==
  ASSUME ChatInv, Handle
  PROVE  ChatInv'
<1>1. /\ up /\ current # NoEvent /\ current' = NoEvent
      /\ UNCHANGED <<msgs, events, life, up, met>>
  BY DEF Handle, slack, proc
<1>2. CASE UNCHANGED <<known, tasks>>
  BY <1>1, <1>2, Quiet
<1>3. ASSUME NEW state \in {"working", "replying"}, ForBot(current),
             known' = Remember(Thread(current)), tasks' = Append(tasks, Handler(current, state))
      PROVE  ChatInv'
  <2> SUFFICES ASSUME NEW e, e = current, NEW h, h = Handler(e, state),
                      NEW thread, thread = Thread(e), NEW n, n = Len(tasks)
               PROVE  ChatInv'
    OBVIOUS
  <2>1. /\ Announced(e) /\ msgs[e.msg] \in Message /\ Rooted(msgs[e.msg])
        /\ msgs \in Seq(Message) /\ Len(msgs) \in Nat
    BY <1>1 DEF ChatInv, EventInv, MsgInv, Announced
  <2>2. e.type \in {"app_mention", "message", "slash"} /\ thread \in 0..Len(msgs)
    BY <2>1, Types DEF Announced, Message, Rooted, Thread
  <2>3. h \in Task
    BY <2>1, <2>2 DEF Handler, Task, ChatInv, TaskInv, Announced
  <2>4. /\ h.msg = e.msg /\ h.type = e.type /\ h.thread = thread
        /\ h.state = state /\ h.life = life
    BY DEF Handler
  <2>5. /\ tasks \in Seq(Task) /\ n \in Nat /\ tasks' \in Seq(Task) /\ Len(tasks') = n + 1
        /\ tasks'[n + 1] = h /\ \A t \in 1..n : tasks'[t] = tasks[t]
    BY <1>3, <2>3 DEF ChatInv, TaskInv
  <2>6. \A t \in 1..n : Announced(tasks[t])' /\ Thread(tasks[t])' = Thread(tasks[t])
    BY <1>1, <2>5 DEF ChatInv, TaskInv, Announced, Thread
  <2>7. Announced(h)' /\ Thread(h)' = thread
    BY <1>1, <2>1, <2>4 DEF Announced, Thread
  <2>8. \A k \in 0..n : \A th : Mentioned(k, th) => Mentioned(k, th)'
    BY <1>1, <2>5 DEF Mentioned
  <2>9. \A th : Mentioned(n, th)' => Mentioned(n + 1, th)'
    BY <2>5 DEF Mentioned
  <2>10. e.type = "message" => FromUser(msgs[e.msg]) /\ thread = msgs[e.msg].root
    BY <1>3 DEF ForBot, shouldHandleDirectMessage, shouldHandleThreadReply, Thread
  <2>11. /\ thread # 0 => thread \in 1..Len(msgs)
         /\ e.type = "message" /\ thread # 0 => (Direct(e.msg) <=> Direct(thread))
         /\ e.type = "slash" => thread = 0 /\ msgs[e.msg].by = "user"
    <3>1. e.type = "slash" => msgs[e.msg].kind = "slash"
      BY <2>1 DEF Announced, EventTypes, Message, Kinds
    <3> QED
      BY <2>1, <2>2, <3>1 DEF Rooted, Direct, Thread
  <2>12. e.type = "message" /\ ~Direct(e.msg) => thread \in known
    BY <1>3 DEF ForBot, shouldHandleDirectMessage, shouldHandleThreadReply
  <2>13. TaskInv'
    BY <1>1, <2>3, <2>4, <2>5, <2>6, <2>7 DEF ChatInv, TaskInv
  <2>14. KnownInv'
    <3> SUFFICES ASSUME NEW th \in known'
                 PROVE  /\ th \in 1..Len(msgs)
                        /\ Direct(th) \/ th \in met \/ Mentioned(n + 1, th)'
      BY <1>1, <2>5 DEF KnownInv, Direct
    <3>1. CASE th \in known
      BY <2>5, <2>8, <2>9, <3>1 DEF ChatInv, KnownInv
    <3>2. CASE th \notin known
      <4>1. th = thread /\ thread # 0
        BY <1>3, <3>2 DEF Remember
      <4>2. e.type = "app_mention" => Mentioned(n + 1, thread)'
        BY <1>1, <2>4, <2>5 DEF Mentioned
      <4> QED
        BY <2>2, <2>11, <2>12, <3>2, <4>1, <4>2
    <3> QED
      BY <3>1, <3>2
  <2>15. FollowInv'
    <3> SUFFICES ASSUME NEW t \in 1..n + 1, tasks'[t].life = life, tasks'[t].type = "message",
                        ~Direct(tasks'[t].msg), NEW th, th = tasks'[t].thread
                 PROVE  th \in met \/ Mentioned(t - 1, th)'
      BY <1>1, <2>5 DEF FollowInv, Direct
    <3>1. CASE t \in 1..n
      <4>1. th \in met \/ Mentioned(t - 1, th)
        BY <2>5, <3>1 DEF ChatInv, FollowInv
      <4> QED
        BY <2>5, <2>8, <3>1, <4>1
    <3>2. CASE t = n + 1
      <4>1. th = thread /\ e.type = "message" /\ ~Direct(e.msg)
        BY <2>4, <2>5, <3>2
      <4>2. thread \in met \/ Mentioned(n, thread)
        BY <2>10, <2>11, <2>12, <4>1 DEF ChatInv, KnownInv
      <4> QED
        BY <2>5, <2>8, <3>2, <4>1, <4>2
    <3> QED
      BY <2>5, <3>1, <3>2
  <2>16. OwnInv'
    <3> SUFFICES ASSUME NEW t \in 1..n + 1
                 PROVE  msgs[tasks'[t].msg].by = "user" \/ tasks'[t].type = "app_mention"
      BY <1>1, <2>5 DEF OwnInv
    <3>1. CASE t \in 1..n
      BY <2>5, <3>1 DEF ChatInv, OwnInv
    <3>2. CASE t = n + 1
      BY <2>2, <2>4, <2>5, <2>10, <2>11, <3>2 DEF FromUser
    <3> QED
      BY <2>5, <3>1, <3>2
  <2>17. MsgInv' /\ EventInv'
    BY <1>1 DEF ChatInv, MsgInv, EventInv, Announced, Rooted, Direct
  <2> QED
    BY <2>13, <2>14, <2>15, <2>16, <2>17 DEF ChatInv
<1> QED
  BY <1>1, <1>2, <1>3 DEF Handle

(* What users and tools post is rooted.                                     *)
LEMMA PostsRooted ==
  ASSUME MsgInv, NEW kind \in Kinds, NEW root \in {0} \cup Roots, NEW by \in {"user", "bot"},
         kind = "slash" => root = 0 /\ by = "user",
         root # 0 => (kind = "direct" <=> Direct(root))
  PROVE  Msg(by, kind, root) \in Message /\ Rooted(Msg(by, kind, root))
<1>1. root \in 0..Len(msgs) /\ Len(msgs) \in Nat
  BY DEF MsgInv, Roots
<1> QED
  BY <1>1 DEF Msg, Message, Rooted

(* A user posts.                                                            *)
LEMMA Users ==
  ASSUME ChatInv, UserPosts
  PROVE  ChatInv'
<1>1. PICK kind \in Kinds, root \in {0} \cup Roots :
        /\ kind = "slash" => root = 0
        /\ root # 0 => (kind = "direct" <=> Direct(root))
        /\ Post(Msg("user", kind, root))
  BY DEF UserPosts
<1>2. Msg("user", kind, root) \in Message /\ Rooted(Msg("user", kind, root))
  BY <1>1, PostsRooted DEF ChatInv
<1>3. UNCHANGED <<current, known, tasks, life, up, met>>
  BY DEF UserPosts, proc
<1>4. /\ MsgInv' /\ EventInv' /\ Len(msgs) <= Len(msgs')
      /\ \A i \in 1..Len(msgs) : msgs'[i] = msgs[i]
  BY <1>1, <1>2, <1>3, Posting DEF ChatInv
<1> QED
  BY <1>3, <1>4, Resting

(* A tool lists messages.                                                   *)
LEMMA Listing ==
  ASSUME ChatInv, NEW t \in 1..Len(tasks), ListMessages(t)
  PROVE  ChatInv'
<1>1. /\ UNCHANGED <<msgs, events, current, tasks, life, up>> /\ met \subseteq met'
      /\ \A thread \in known' \ known : thread \in met' /\ thread \in Roots
  BY DEF ListMessages, slack, proc
<1>2. MsgInv' /\ EventInv' /\ Roots \subseteq 1..Len(msgs) /\ Len(msgs) \in Nat
  BY <1>1 DEF ChatInv, MsgInv, EventInv, Announced, Rooted, Direct, Roots
<1>3. Len(msgs) <= Len(msgs') /\ \A i \in 1..Len(msgs) : msgs'[i] = msgs[i]
  BY <1>1, <1>2
<1>4. \A thread \in known' \ known : thread \in 1..Len(msgs) /\ thread \in met'
  BY <1>1, <1>2
<1> QED
  BY <1>1, <1>2, <1>3, <1>4, Resting

(* A tool posts.                                                            *)
LEMMA Creating ==
  ASSUME ChatInv, NEW t \in 1..Len(tasks), Create(t)
  PROVE  ChatInv'
<1>1. PICK kind \in Written, root \in {0} \cup {i \in Roots : ~Direct(i)} :
        /\ Post(Msg("bot", kind, root))
        /\ known' = Remember(root)
        /\ met' = met \cup ({root} \ {0})
  BY DEF Create
<1>2. Msg("bot", kind, root) \in Message /\ Rooted(Msg("bot", kind, root))
  BY <1>1, PostsRooted DEF ChatInv, Written, Kinds
<1>3. UNCHANGED <<current, tasks, life, up>>
  BY DEF Create, proc
<1>4. /\ MsgInv' /\ EventInv' /\ Len(msgs) <= Len(msgs')
      /\ \A i \in 1..Len(msgs) : msgs'[i] = msgs[i]
  BY <1>1, <1>2, <1>3, Posting DEF ChatInv
<1>5. \A thread \in known' \ known : thread \in 1..Len(msgs) /\ thread \in met'
  BY <1>1 DEF Remember, Roots, ChatInv, MsgInv
<1> QED
  BY <1>1, <1>3, <1>4, <1>5, Resting

(* A handler at work is one of this process.                                *)
LEMMA Working ==
  ASSUME ChatInv, NEW t \in 1..Len(tasks), NEW state \in {"working", "replying"}, In(t, state)
  PROVE  tasks[t].life = life /\ tasks[t].state \notin Settled /\ up
  BY DEF ChatInv, TaskInv, In, Settled

(* A task is over, and its handler replies.                                 *)
LEMMA Replying ==
  ASSUME ChatInv, NEW t \in 1..Len(tasks), Finish(t) \/ Reply(t)
  PROVE  ChatInv'
<1>1. /\ tasks[t].life = life /\ tasks[t].state \notin Settled /\ up
      /\ UNCHANGED <<life, up, current, met>>
  BY Working DEF Finish, Reply, In, proc
<1>2. tasks[t].thread # 0 =>
        /\ tasks[t].thread \in 1..Len(msgs)
        /\ \/ Direct(tasks[t].thread) \/ tasks[t].thread \in met
           \/ Mentioned(Len(tasks), tasks[t].thread)
        /\ Direct(tasks[t].msg) <=> Direct(tasks[t].thread)
  BY <1>1, ThreadHasReason
<1>3. CASE Finish(t)
  BY <1>1, <1>2, <1>3, Advance DEF Finish, slack
<1>4. CASE Reply(t)
  <2>1. known' \in {known, Remember(tasks[t].thread)}
    BY <1>4 DEF Reply
  <2>2. PICK state \in Settled : Becomes(t, state)
    BY <1>4 DEF Reply, Settled
  <2>3. UNCHANGED <<msgs, events>> \/ \E m \in Message : Rooted(m) /\ Post(m)
    <3>1. SUFFICES ASSUME NEW kind \in IF Direct(tasks[t].msg) THEN {"direct"} ELSE Written,
                          Post(Msg("bot", kind, tasks[t].thread))
                   PROVE  \E m \in Message : Rooted(m) /\ Post(m)
      BY <1>4 DEF Reply
    <3>2. kind \in Kinds \ {"slash"} /\ (kind = "direct" <=> Direct(tasks[t].msg))
      BY DEF Written, Kinds
    <3>3. tasks[t].thread \in Nat
      <4>1. tasks[t] \in Task
        BY DEF ChatInv, TaskInv
      <4> QED
        BY <4>1 DEF Task
    <3>4. /\ Msg("bot", kind, tasks[t].thread) \in Message
          /\ Rooted(Msg("bot", kind, tasks[t].thread))
      BY <1>2, <3>2, <3>3 DEF Msg, Message, Rooted
    <3> QED
      BY <3>1, <3>4
  <2> QED
    BY <1>1, <1>2, <2>1, <2>2, <2>3, Advance
<1> QED
  BY <1>3, <1>4

(* The process ends, and its handlers with it.                              *)
LEMMA AllKilled ==
  ASSUME TaskInv, Exit
  PROVE  /\ tasks' \in Seq(Task) /\ Len(tasks') = Len(tasks)
         /\ \A t \in 1..Len(tasks) :
              /\ tasks'[t].msg = tasks[t].msg /\ tasks'[t].type = tasks[t].type
              /\ tasks'[t].thread = tasks[t].thread /\ tasks'[t].life = tasks[t].life
              /\ tasks'[t].state = IF tasks[t].state \in Settled THEN tasks[t].state ELSE "killed"
<1>1. tasks' = [t \in DOMAIN tasks |-> IF tasks[t].state \in Settled THEN tasks[t]
                                      ELSE [tasks[t] EXCEPT !.state = "killed"]]
  BY DEF Exit
<1>2. /\ tasks \in Seq(Task) /\ DOMAIN tasks = 1..Len(tasks) /\ Len(tasks) \in Nat
      /\ \A t \in 1..Len(tasks) : tasks[t] \in Task
  BY DEF TaskInv
<1>3. ASSUME NEW t \in 1..Len(tasks)
      PROVE  /\ tasks'[t] \in Task
             /\ tasks'[t].msg = tasks[t].msg /\ tasks'[t].type = tasks[t].type
             /\ tasks'[t].thread = tasks[t].thread /\ tasks'[t].life = tasks[t].life
             /\ tasks'[t].state = IF tasks[t].state \in Settled THEN tasks[t].state ELSE "killed"
  BY <1>1, <1>2 DEF Task, Settled
<1> QED
  BY <1>1, <1>2, <1>3

(* What is known of them stays.                                            *)
LEMMA Exiting ==
  ASSUME ChatInv, Exit
  PROVE  ChatInv'
<1>1. UNCHANGED <<msgs, events, known, life, met>> /\ current' = NoEvent
  BY DEF Exit, slack
<1>2. \A t \in 1..Len(tasks) : tasks'[t].state \in Settled
  BY AllKilled DEF ChatInv, Settled
<1>3. MsgInv' /\ EventInv' /\ Len(msgs) \in Nat
  BY <1>1 DEF ChatInv, MsgInv, EventInv, Announced, Rooted, Direct
<1>4. /\ Len(msgs) <= Len(msgs') /\ \A i \in 1..Len(msgs) : msgs'[i] = msgs[i]
      /\ life' = life /\ met \subseteq met' /\ known' \ known = {}
  BY <1>1, <1>3
<1>5. TaskInv
  BY DEF ChatInv
<1> QED
  BY <1>2, <1>3, <1>4, <1>5, AllKilled, Moving

(* The next one knows nothing.                                              *)
LEMMA Restarting ==
  ASSUME ChatInv, Restart
  PROVE  ChatInv'
<1>1. /\ UNCHANGED <<msgs, events, current, tasks>> /\ life' = life + 1 /\ ~up
      /\ known' = {} /\ life \in Nat
  BY DEF Restart, slack, ChatInv, TaskInv
<1>2. MsgInv' /\ EventInv' /\ KnownInv' /\ OwnInv'
  BY <1>1 DEF ChatInv, MsgInv, EventInv, Announced, Rooted, Direct, KnownInv, OwnInv
<1>3. \A t \in 1..Len(tasks) : tasks[t] \in Task /\ tasks[t].life <= life
  BY DEF ChatInv, TaskInv
<1>4. \A t \in 1..Len(tasks) : tasks[t].life # life'
  BY <1>1, <1>3 DEF Task
<1>5. FollowInv'
  BY <1>1, <1>4 DEF FollowInv
<1>6. TaskInv'
  <2>1. \A t \in 1..Len(tasks) : tasks[t].life <= life'
    BY <1>1, <1>3 DEF Task
  <2>2. \A t \in 1..Len(tasks) : tasks[t].state \in Settled
    BY <1>1 DEF ChatInv, TaskInv
  <2>3. \A t \in 1..Len(tasks) : Announced(tasks[t])' /\ Thread(tasks[t])' = Thread(tasks[t])
    BY <1>1 DEF ChatInv, TaskInv, Announced, Thread
  <2> QED
    BY <1>1, <2>1, <2>2, <2>3 DEF ChatInv, TaskInv
<1> QED
  BY <1>2, <1>5, <1>6 DEF ChatInv

(* Each step keeps the invariant.                                           *)
LEMMA ChatStep == ChatInv /\ [Next]_vars => ChatInv'
<1> SUFFICES ASSUME ChatInv, [Next]_vars PROVE ChatInv'
  OBVIOUS
<1>1. CASE StartBridge \/ ListenEnds \/ Receive \/ Signal
  BY <1>1, Quiet DEF StartBridge, ListenEnds, Receive, Signal, slack, proc
<1>2. CASE UNCHANGED vars
  BY <1>2, Quiet DEF vars
<1>3. CASE \E t \in DOMAIN tasks : HandlerOf(t)
  <2>1. DOMAIN tasks = 1..Len(tasks)
    BY DEF ChatInv, TaskInv
  <2> QED
    BY <1>3, <2>1, Listing, Creating, Replying DEF HandlerOf
<1> QED
  BY <1>1, <1>2, <1>3, Users, Handling, Exiting, Restarting DEF Next, Listener

(* The invariant holds in every behaviour.                                  *)
LEMMA ChatAlways == Spec => []ChatInv
  BY ChatInit, ChatStep, PTL DEF Spec

(* However many replies and tools there are, the bot takes nothing it wrote *)
(* for a request but a mention of itself (Listen, shouldHandleThreadReply,  *)
(* shouldHandleDirectMessage).                                              *)
THEOREM OwnMessagesIgnored == Spec => []NeverAnswersItself
<1>1. ChatInv => NeverAnswersItself
  <2> SUFFICES ASSUME ChatInv, NEW t \in DOMAIN tasks
               PROVE  \/ msgs[tasks[t].msg].by = "user"
                      \/ tasks[t].type = "app_mention" /\ msgs[tasks[t].msg].kind = "mention"
    BY DEF NeverAnswersItself
  <2>1. t \in 1..Len(tasks)
    BY DEF ChatInv, TaskInv
  <2>2. /\ Announced(tasks[t]) /\ msgs[tasks[t].msg] \in Message
        /\ msgs[tasks[t].msg].by = "user" \/ tasks[t].type = "app_mention"
    BY <2>1 DEF ChatInv, TaskInv, MsgInv, OwnInv, Announced
  <2> QED
    BY <2>2 DEF Announced, EventTypes
<1> QED
  BY <1>1, ChatAlways, PTL

(* A follow-up has a reason in the same life of the process, whatever was   *)
(* delivered again and whenever the process was started (knowsThread).      *)
THEOREM FollowUpsHaveReasons == Spec => []FollowUpsExplained
<1>1. ChatInv => FollowUpsExplained
  BY DEF ChatInv, TaskInv, FollowInv, Mentioned, FollowUpsExplained
<1> QED
  BY <1>1, ChatAlways, PTL

-----------------------------------------------------------------------------
(* Counting.  An event is to come, at hand or handled once, or once more    *)
(* if Slack sent it again; and a handler of a message outside direct        *)
(* messages has a thread.                                                   *)

Event == [msg : Nat, type : {"app_mention", "message", "slash"}]

Of(e) == {t \in 1..Len(tasks) : tasks[t].msg = e.msg /\ tasks[t].type = e.type}

Bit(b) == IF b THEN 1 ELSE 0

ShareInv ==
  \A e \in Event :
    Cardinality(Of(e)) + Bit(e \in events) + Bit(current = e) <= 1 + Bit(e \in resent)

ThreadInv ==
  \A t \in 1..Len(tasks) :
    tasks[t].type = "message" /\ ~Direct(tasks[t].msg) => tasks[t].thread # 0

CountInv ==
  /\ events \subseteq Event /\ current \in Event \cup {NoEvent}
  /\ resent \subseteq Event /\ IsFiniteSet(resent)
  /\ ThreadInv
  /\ ShareInv

(* Handlers are finitely many.                                              *)
LEMMA OfFinite ==
  ASSUME ChatInv, NEW e
  PROVE  IsFiniteSet(Of(e)) /\ Cardinality(Of(e)) \in Nat
<1>1. Len(tasks) \in Nat
  BY DEF ChatInv, TaskInv
<1>2. IsFiniteSet(1..Len(tasks))
  BY <1>1, FS_Interval
<1>3. IsFiniteSet(Of(e))
  BY <1>2, FS_Subset DEF Of
<1> QED
  BY <1>3, FS_CardinalityType

(* There is nothing to count at first.                                      *)
LEMMA CountInit == Init => CountInv
<1> SUFFICES ASSUME Init PROVE CountInv
  OBVIOUS
<1>1. \A e : Of(e) = {}
  BY DEF Init, Of
<1>2. IsFiniteSet({}) /\ Cardinality({}) = 0
  BY FS_EmptySet
<1>3. NoEvent \notin Event
  BY DEF NoEvent, Event
<1>4. ShareInv
  BY <1>1, <1>2, <1>3 DEF Init, ShareInv, Bit
<1> QED
  BY <1>2, <1>4 DEF Init, CountInv, ThreadInv

(* Nothing is handled, received or posted.                                  *)
LEMMA CountStays ==
  ASSUME ChatInv, CountInv, UNCHANGED <<msgs, events, resent>>, current' \in {current, NoEvent},
         Len(tasks') = Len(tasks),
         \A t \in 1..Len(tasks) : /\ tasks'[t].msg = tasks[t].msg /\ tasks'[t].type = tasks[t].type
                                  /\ tasks'[t].thread = tasks[t].thread
  PROVE  CountInv'
<1>1. \A e : Of(e)' = Of(e)
  BY DEF Of
<1>2. NoEvent \notin Event
  BY DEF NoEvent, Event
<1>3. ASSUME NEW e \in Event
      PROVE  Cardinality(Of(e)') + Bit(e \in events') + Bit(current' = e) <= 1 + Bit(e \in resent')
  <2>1. Cardinality(Of(e)) \in Nat
    BY OfFinite
  <2> QED
    BY <1>1, <1>2, <2>1 DEF CountInv, ShareInv, Bit
<1>4. ShareInv'
  BY <1>3 DEF ShareInv
<1>5. ThreadInv'
  BY DEF CountInv, ThreadInv, Direct
<1> QED
  BY <1>4, <1>5 DEF CountInv

(* A new message has no handler yet.                                        *)
LEMMA CountPost ==
  ASSUME ChatInv, CountInv, NEW m \in Message, Post(m), UNCHANGED <<resent, current>>,
         Len(tasks') = Len(tasks),
         \A t \in 1..Len(tasks) : /\ tasks'[t].msg = tasks[t].msg /\ tasks'[t].type = tasks[t].type
                                  /\ tasks'[t].thread = tasks[t].thread
  PROVE  CountInv'
<1>1. \A e : Of(e)' = Of(e)
  BY DEF Of
<1>2. /\ Len(msgs) \in Nat /\ \A i \in 1..Len(msgs) : msgs'[i] = msgs[i]
      /\ NoEvent \notin Event
  BY DEF ChatInv, MsgInv, Post, NoEvent, Event
<1>3. /\ \A t \in 1..Len(tasks) : tasks[t].msg \in 1..Len(msgs)
      /\ \A e \in events : e.msg \in 1..Len(msgs)
      /\ current # NoEvent => current.msg \in 1..Len(msgs)
  BY DEF ChatInv, TaskInv, EventInv, Announced
<1>4. /\ events' \subseteq Event
      /\ \A e \in events' \ events : e.msg = Len(msgs) + 1
  <2>1. \A type \in EventTypes(m.kind) : [msg |-> Len(msgs) + 1, type |-> type] \in Event
    BY <1>2, Types DEF Message, Event
  <2> QED
    BY <2>1 DEF Post, CountInv
<1>5. ASSUME NEW e \in Event
      PROVE  Cardinality(Of(e)') + Bit(e \in events') + Bit(current' = e) <= 1 + Bit(e \in resent')
  <2>1. Cardinality(Of(e)) \in Nat
    BY OfFinite
  <2>2. CASE e \in events' \ events
    <3>1. e.msg = Len(msgs) + 1 /\ Len(msgs) + 1 \notin 1..Len(msgs)
      BY <1>2, <1>4, <2>2
    <3>2. Of(e) = {} /\ current # e
      BY <1>2, <1>3, <3>1 DEF Of
    <3>3. Cardinality(Of(e)') = 0
      BY <1>1, <3>2, FS_EmptySet
    <3> QED
      BY <3>2, <3>3 DEF Bit
  <2>3. CASE e \notin events' \ events
    <3>1. e \in events' <=> e \in events
      BY <2>3 DEF Post
    <3> QED
      BY <1>1, <2>1, <3>1 DEF CountInv, ShareInv, Bit
  <2> QED
    BY <2>2, <2>3
<1>6. ShareInv'
  BY <1>5 DEF ShareInv
<1>7. ThreadInv'
  BY <1>2, <1>3 DEF CountInv, ThreadInv, Direct
<1> QED
  BY <1>4, <1>6, <1>7 DEF CountInv

(* An event is taken from those to come, or stays one if it is to be sent   *)
(* again.                                                                   *)
LEMMA CountReceive ==
  ASSUME ChatInv, CountInv, Receive
  PROVE  CountInv'
<1>1. UNCHANGED <<msgs, tasks>> /\ current = NoEvent /\ NoEvent \notin Event
  BY DEF Receive, NoEvent, Event
<1>2. PICK e \in events :
        /\ current' = e
        /\ \/ events' = events \ {e} /\ UNCHANGED resent
           \/ resent' = resent \cup {e} /\ e \notin resent /\ UNCHANGED events
  BY DEF Receive
<1>3. resent' \subseteq Event /\ IsFiniteSet(resent')
  BY <1>2, FS_AddElement DEF CountInv
<1>4. \A d : Of(d)' = Of(d)
  BY <1>1 DEF Of
<1>5. ASSUME NEW d \in Event
      PROVE  Cardinality(Of(d)') + Bit(d \in events') + Bit(current' = d) <= 1 + Bit(d \in resent')
  <2>1. /\ Cardinality(Of(d)) \in Nat
        /\ Cardinality(Of(d)) + Bit(d \in events) + Bit(current = d) <= 1 + Bit(d \in resent)
    BY OfFinite DEF CountInv, ShareInv
  <2> QED
    BY <1>1, <1>2, <1>4, <2>1 DEF Bit
<1>6. ShareInv'
  BY <1>5 DEF ShareInv
<1> QED
  BY <1>1, <1>2, <1>3, <1>6 DEF CountInv, ThreadInv, Direct

(* The event at hand becomes a handler, or nothing.                         *)
LEMMA CountHandle ==
  ASSUME ChatInv, CountInv, Handle
  PROVE  CountInv'
<1>1. /\ UNCHANGED <<msgs, events, resent>> /\ current # NoEvent /\ current' = NoEvent
  BY DEF Handle, slack
<1>2. CASE UNCHANGED tasks
  BY <1>1, <1>2, CountStays
<1>3. ASSUME NEW state, ForBot(current), tasks' = Append(tasks, Handler(current, state)),
             NEW e, e = current, NEW n, n = Len(tasks), NEW h, h = Handler(e, state)
      PROVE  CountInv'
  <2>1. /\ n \in Nat /\ Len(tasks') = n + 1 /\ tasks'[n + 1] = h
        /\ \A t \in 1..n : tasks'[t] = tasks[t]
        /\ h.msg = e.msg /\ h.type = e.type /\ h.thread = Thread(e)
    BY <1>3 DEF ChatInv, TaskInv, Handler
  <2>2. e \in Event /\ NoEvent \notin Event
    BY <1>1, <1>3 DEF CountInv, NoEvent, Event
  <2>3. ASSUME NEW d \in Event
        PROVE  Cardinality(Of(d)') + Bit(d \in events') + Bit(current' = d) <= 1 + Bit(d \in resent')
    <3>1. /\ Cardinality(Of(d)) \in Nat /\ IsFiniteSet(Of(d))
          /\ Cardinality(Of(d)) + Bit(d \in events) + Bit(current = d) <= 1 + Bit(d \in resent)
      BY OfFinite DEF CountInv, ShareInv
    <3>2. CASE d = e
      <4>1. Of(d)' = Of(d) \cup {n + 1} /\ n + 1 \notin Of(d)
        BY <1>3, <2>1, <3>2 DEF Of
      <4>2. Cardinality(Of(d)') = Cardinality(Of(d)) + 1
        BY <3>1, <4>1, FS_AddElement
      <4> QED
        BY <1>1, <1>3, <2>2, <3>1, <3>2, <4>2 DEF Bit
    <3>3. CASE d # e
      <4>1. ~(d.msg = e.msg /\ d.type = e.type)
        BY <2>2, <3>3 DEF Event
      <4>2. Of(d)' = Of(d)
        BY <1>3, <2>1, <4>1 DEF Of
      <4> QED
        BY <1>1, <2>2, <3>1, <4>2 DEF Bit
    <3> QED
      BY <3>2, <3>3
  <2>4. ShareInv'
    BY <2>3 DEF ShareInv
  <2>5. e.type = "message" /\ ~Direct(e.msg) => Thread(e) # 0
    BY <1>3 DEF ForBot, shouldHandleDirectMessage, shouldHandleThreadReply
  <2>6. ThreadInv'
    BY <1>1, <1>3, <2>1, <2>5 DEF CountInv, ThreadInv, Direct
  <2> QED
    BY <1>1, <2>1, <2>4, <2>6 DEF CountInv
<1> QED
  BY <1>1, <1>2, <1>3 DEF Handle

(* Each step keeps the counts.                                              *)
LEMMA CountStep == ChatInv /\ CountInv /\ [Next]_vars => CountInv'
<1> SUFFICES ASSUME ChatInv, CountInv, [Next]_vars PROVE CountInv'
  OBVIOUS
<1>1. CASE UserPosts
  <2>1. /\ UNCHANGED <<resent, current, tasks>>
        /\ \E kind \in Kinds, root \in {0} \cup Roots : Post(Msg("user", kind, root))
    BY <1>1 DEF UserPosts
  <2>2. \A kind \in Kinds, root \in {0} \cup Roots : Msg("user", kind, root) \in Message
    BY DEF Msg, Message, Roots, ChatInv, MsgInv
  <2> QED
    BY <2>1, <2>2, CountPost
<1>2. CASE StartBridge \/ ListenEnds \/ Signal \/ Restart \/ UNCHANGED vars
  BY <1>2, CountStays DEF StartBridge, ListenEnds, Signal, Restart, slack, vars
<1>3. ASSUME NEW t \in DOMAIN tasks, HandlerOf(t)
      PROVE  CountInv'
  <2>1. t \in 1..Len(tasks) /\ Len(tasks) \in Nat /\ tasks[t] \in Task /\ TaskInv
    BY DEF ChatInv, TaskInv
  <2>2. CASE ListMessages(t)
    BY <2>2, CountStays DEF ListMessages, slack
  <2>3. CASE Create(t)
    <3>1. /\ UNCHANGED <<resent, current, tasks>>
          /\ \E kind \in Written, root \in {0} \cup Roots : Post(Msg("bot", kind, root))
      BY <2>3 DEF Create
    <3>2. \A kind \in Written, root \in {0} \cup Roots : Msg("bot", kind, root) \in Message
      BY DEF Msg, Message, Roots, ChatInv, MsgInv, Written, Kinds
    <3> QED
      BY <3>1, <3>2, CountPost
  <2>4. CASE Finish(t)
    <3>1. UNCHANGED <<msgs, events, resent, current>> /\ Becomes(t, "replying")
      BY <2>4 DEF Finish, slack
    <3> QED
      BY <2>1, <3>1, OneMoves, CountStays
  <2>5. CASE Reply(t)
    <3>1. UNCHANGED <<resent, current>> /\ \E state \in Settled : Becomes(t, state)
      BY <2>5 DEF Reply, Settled
    <3>2. /\ Len(tasks') = Len(tasks)
          /\ \A s \in 1..Len(tasks) : /\ tasks'[s].msg = tasks[s].msg /\ tasks'[s].type = tasks[s].type
                                       /\ tasks'[s].thread = tasks[s].thread
      BY <2>1, <3>1, OneMoves
    <3>3. CASE UNCHANGED <<msgs, events>>
      BY <3>1, <3>2, <3>3, CountStays
    <3>4. ASSUME NEW kind \in {"direct"} \cup Written, Post(Msg("bot", kind, tasks[t].thread))
          PROVE  CountInv'
      <4>1. Msg("bot", kind, tasks[t].thread) \in Message
        BY <2>1 DEF Msg, Message, Task, Written, Kinds
      <4> QED
        BY <3>1, <3>2, <3>4, <4>1, CountPost
    <3> QED
      BY <2>5, <3>3, <3>4 DEF Reply
  <2> QED
    BY <1>3, <2>2, <2>3, <2>4, <2>5 DEF HandlerOf
<1>4. CASE Exit
  <2>1. UNCHANGED <<msgs, events, resent>> /\ current' = NoEvent /\ TaskInv
    BY <1>4 DEF Exit, slack, ChatInv
  <2> QED
    BY <1>4, <2>1, AllKilled, CountStays
<1> QED
  BY <1>1, <1>2, <1>3, <1>4, CountReceive, CountHandle DEF Next, Listener

(* Of the events sent again, those of one message are counted together.     *)
LEMMA SentAgain ==
  ASSUME CountInv, NEW d \in Event, NEW e \in Event, d.msg = e.msg
  PROVE  LET n == Cardinality({f \in resent : f.msg = e.msg})
         IN  /\ n \in Nat /\ Bit(e \in resent) <= n
             /\ d # e => Bit(d \in resent) + Bit(e \in resent) <= n
<1> DEFINE S == {f \in resent : f.msg = e.msg}
<1>1. IsFiniteSet(S) /\ Cardinality(S) \in Nat
  BY FS_Subset, FS_CardinalityType DEF CountInv
<1>2. /\ IsFiniteSet({}) /\ Cardinality({}) = 0
      /\ \A f : IsFiniteSet({f}) /\ Cardinality({f}) = 1
  BY FS_EmptySet, FS_Singleton
<1>3. d # e => Cardinality({d} \cup {e}) = 2
  <2> SUFFICES ASSUME d # e PROVE Cardinality({d} \cup {e}) = 2
    OBVIOUS
  <2>1. Cardinality({d} \cup {e}) = IF e \in {d} THEN Cardinality({d}) ELSE Cardinality({d}) + 1
    BY <1>2, FS_AddElement
  <2>2. Cardinality({d}) = 1 /\ e \notin {d}
    BY <1>2
  <2> QED
    BY <2>1, <2>2
<1>4. \A T \in SUBSET S : Cardinality(T) <= Cardinality(S)
  BY <1>1, FS_Subset
<1>5. e \in resent => 1 <= Cardinality(S)
  BY <1>2, <1>4
<1>6. d \in resent => 1 <= Cardinality(S)
  BY <1>2, <1>4
<1>7. d \in resent /\ e \in resent /\ d # e => 2 <= Cardinality(S)
  BY <1>3, <1>4
<1> QED
  BY <1>1, <1>5, <1>6, <1>7 DEF Bit

(* The counts bound the handlers of a message.                              *)
LEMMA CountsBound == ChatInv /\ CountInv => OneTaskPerMessage
<1> SUFFICES ASSUME ChatInv, CountInv, NEW i \in DOMAIN msgs,
                    NEW m, m = msgs[i], NEW n, n = Cardinality({e \in resent : e.msg = i}),
                    NEW T, \A t : t \in T <=> t \in DOMAIN tasks /\ tasks[t].msg = i
             PROVE  Cardinality(T) <= 1 + n + IF m.kind = "mention" /\ m.root # 0 THEN 1 ELSE 0
  BY DEF OneTaskPerMessage
<1> DEFINE E(type) == [msg |-> i, type |-> type]
<1>1. i \in Nat /\ m \in Message /\ Rooted(m) /\ DOMAIN tasks = 1..Len(tasks)
  BY DEF ChatInv, MsgInv, TaskInv
<1>2. ASSUME NEW type \in {"app_mention", "message", "slash"}
      PROVE  /\ E(type) \in Event /\ E(type).msg = i
             /\ Of(E(type)) = {t \in T : tasks[t].type = type}
             /\ IsFiniteSet(Of(E(type))) /\ Cardinality(Of(E(type))) \in Nat
             /\ Cardinality(Of(E(type))) <= 1 + Bit(E(type) \in resent)
  <2>1. E(type) \in Event /\ E(type).msg = i /\ E(type).type = type
    BY <1>1 DEF Event
  <2>2. Of(E(type)) = {t \in T : tasks[t].type = type}
    BY <1>1, <2>1 DEF Of
  <2>3. IsFiniteSet(Of(E(type))) /\ Cardinality(Of(E(type))) \in Nat
    BY OfFinite
  <2>4. Cardinality(Of(E(type))) + Bit(E(type) \in events) + Bit(current = E(type))
          <= 1 + Bit(E(type) \in resent)
    BY <2>1 DEF CountInv, ShareInv
  <2> QED
    BY <2>1, <2>2, <2>3, <2>4 DEF Bit
<1>3. \A t \in T : /\ tasks[t].type \in EventTypes(m.kind)
                   /\ tasks[t].type = "message" /\ m.kind # "direct" => m.root # 0
  <2> TAKE t \in T
  <2>1. /\ t \in 1..Len(tasks) /\ tasks[t].msg = i /\ Announced(tasks[t])
        /\ tasks[t].thread = Thread(tasks[t])
    BY <1>1 DEF ChatInv, TaskInv
  <2> QED
    BY <2>1 DEF Announced, CountInv, ThreadInv, Thread, Direct
<1>4. ASSUME NEW type \in {"app_mention", "message", "slash"}, \A t \in T : tasks[t].type = type
      PROVE  Cardinality(T) <= 1 + n /\ n \in Nat
  <2>1. T = Of(E(type))
    BY <1>2, <1>4
  <2>2. n \in Nat /\ Bit(E(type) \in resent) <= n
    BY <1>2, SentAgain
  <2>3. Cardinality(Of(E(type))) <= 1 + Bit(E(type) \in resent)
    BY <1>2
  <2>4. Cardinality(Of(E(type))) \in Nat /\ Bit(E(type) \in resent) \in Nat
    BY <1>2 DEF Bit
  <2> HIDE DEF E
  <2> QED
    BY <2>1, <2>2, <2>3, <2>4
<1>5. CASE m.kind = "mention" /\ m.root # 0
  <2> DEFINE A == Of(E("app_mention"))
             B == Of(E("message"))
  <2>1. T = A \cup B /\ A \cap B = {}
    BY <1>2, <1>3, <1>5 DEF EventTypes
  <2>2. /\ IsFiniteSet(A) /\ IsFiniteSet(B) /\ Cardinality(A) \in Nat /\ Cardinality(B) \in Nat
        /\ Cardinality(A) <= 1 + Bit(E("app_mention") \in resent)
        /\ Cardinality(B) <= 1 + Bit(E("message") \in resent)
    BY <1>2
  <2>3. Cardinality(T) = Cardinality(A) + Cardinality(B)
    <3>1. Cardinality(A \cup B) = Cardinality(A) + Cardinality(B) - Cardinality(A \cap B)
      BY <2>2, FS_Union
    <3>2. Cardinality(T) = Cardinality(A \cup B)
      BY <2>1, Zenon
    <3>3. Cardinality(A \cap B) = 0
      <4>1. Cardinality({}) = 0
        BY FS_EmptySet
      <4> QED
        BY <2>1, <4>1, Zenon
    <3> HIDE DEF A, B
    <3> QED
      BY <2>2, <3>1, <3>2, <3>3
  <2>4. n \in Nat /\ Bit(E("app_mention") \in resent) + Bit(E("message") \in resent) <= n
    <3>1. E("app_mention") # E("message")
      OBVIOUS
    <3> QED
      BY <1>2, <3>1, SentAgain
  <2> QED
    BY <1>5, <2>2, <2>3, <2>4 DEF Bit
<1>6. CASE ~(m.kind = "mention" /\ m.root # 0)
  <2>1. PICK type \in {"app_mention", "message", "slash"} : \A t \in T : tasks[t].type = type
    BY <1>3, <1>6 DEF EventTypes
  <2> QED
    BY <1>4, <1>6, <2>1
<1> QED
  BY <1>5, <1>6

(* However often events are sent again and in whatever order they come, a   *)
(* message is worked on once, but for the events that were repeated and for *)
(* a mention inside a thread (Listen).                                      *)
THEOREM MessagesHandledOnce == Spec => []OneTaskPerMessage
  BY ChatAlways, CountInit, CountStep, CountsBound, PTL DEF Spec

-----------------------------------------------------------------------------
(* The refinement of ChatInbox.  Messages beyond MaxTasks are not among its *)
(* messages, and what happens to them is a stutter.                         *)

Busy == {"working", "replying"}
At(i, states) == {t \in DOMAIN tasks : tasks[t].msg = i /\ tasks[t].state \in states}

(* Handlers of one message in some states are finitely many.                *)
LEMMA AtFinite ==
  ASSUME ChatInv, NEW i, NEW states
  PROVE  /\ IsFiniteSet(At(i, states)) /\ HandlersOf(i, states) = Cardinality(At(i, states))
         /\ HandlersOf(i, states) \in Nat
<1>1. Len(tasks) \in Nat /\ DOMAIN tasks = 1..Len(tasks)
  BY DEF ChatInv, TaskInv
<1>2. IsFiniteSet(1..Len(tasks))
  BY <1>1, FS_Interval
<1>3. IsFiniteSet(At(i, states))
  BY <1>1, <1>2, FS_Subset DEF At
<1>4. HandlersOf(i, states) = Cardinality(At(i, states))
  BY DEF HandlersOf, At
<1> QED
  BY <1>3, <1>4, FS_CardinalityType

(* A stutter of the inbox: handlers stay among those at work.               *)
LEMMA InboxStays ==
  ASSUME ChatInv, UNCHANGED up, DOMAIN tasks' = DOMAIN tasks,
         \A t \in DOMAIN tasks :
           /\ tasks'[t].msg = tasks[t].msg
           /\ tasks'[t].state \in Busy <=> tasks[t].state \in Busy
           /\ tasks'[t].state = "answered" <=> tasks[t].state = "answered"
  PROVE  UNCHANGED Inbox!inbox
<1>1. \A i : At(i, Busy)' = At(i, Busy) /\ At(i, {"answered"})' = At(i, {"answered"})
  BY DEF At, Busy
<1>2. \A i : /\ HandlersOf(i, {"working", "replying"})' = HandlersOf(i, {"working", "replying"})
             /\ HandlersOf(i, {"answered"})' = HandlersOf(i, {"answered"})
  BY <1>1 DEF HandlersOf, At, Busy
<1> QED
  BY <1>2 DEF Inbox!inbox

(* A request is taken.                                                      *)
LEMMA InboxTakes ==
  ASSUME ChatInv, Handle
  PROVE  [Inbox!Next]_(Inbox!inbox)
<1>1. UNCHANGED up /\ up
  BY DEF Handle, proc
<1>2. CASE UNCHANGED tasks
  BY <1>1, <1>2, InboxStays
<1>3. ASSUME NEW state \in Busy, tasks' = Append(tasks, Handler(current, state)),
             NEW n, n = Len(tasks), NEW m, m = current.msg
      PROVE  [Inbox!Next]_(Inbox!inbox)
  <2>1. /\ n \in Nat /\ DOMAIN tasks = 1..n /\ DOMAIN tasks' = 1..n + 1
        /\ tasks'[n + 1].msg = m /\ tasks'[n + 1].state = state
        /\ \A t \in 1..n : tasks'[t] = tasks[t]
    BY <1>3 DEF ChatInv, TaskInv, Handler
  <2>2. \A i : At(i, {"answered"})' = At(i, {"answered"})
    BY <2>1 DEF At, Busy
  <2>3. \A i : i # m => At(i, Busy)' = At(i, Busy)
    BY <2>1 DEF At
  <2>4. At(m, Busy)' = At(m, Busy) \cup {n + 1} /\ n + 1 \notin At(m, Busy)
    BY <2>1 DEF At
  <2>5. Cardinality(At(m, Busy)') = Cardinality(At(m, Busy)) + 1
    BY <2>4, AtFinite, FS_AddElement
  <2>6. \A i : HandlersOf(i, {"answered"})' = HandlersOf(i, {"answered"})
    BY <2>2 DEF HandlersOf, At
  <2>7. \A i : i # m => HandlersOf(i, {"working", "replying"})' = HandlersOf(i, {"working", "replying"})
    BY <2>3 DEF HandlersOf, At, Busy
  <2>8. HandlersOf(m, {"working", "replying"})' = HandlersOf(m, {"working", "replying"}) + 1
    BY <2>5 DEF HandlersOf, At, Busy
  <2>9. CASE m \in 1..MaxTasks
    BY <1>1, <2>6, <2>7, <2>8, <2>9 DEF Inbox!Next, Inbox!Take
  <2>10. CASE m \notin 1..MaxTasks
    BY <1>1, <2>6, <2>7, <2>10 DEF Inbox!inbox
  <2> QED
    BY <2>9, <2>10
<1> QED
  BY <1>2, <1>3 DEF Handle, Busy

(* A handler replies, and settles its request, or is about to.              *)
LEMMA InboxReplies ==
  ASSUME ChatInv, NEW t \in 1..Len(tasks), Finish(t) \/ Reply(t)
  PROVE  [Inbox!Next]_(Inbox!inbox)
<1>1. up /\ UNCHANGED up /\ TaskInv /\ DOMAIN tasks = 1..Len(tasks) /\ Len(tasks) \in Nat
  BY DEF Finish, Reply, proc, In, ChatInv, TaskInv
<1>2. CASE Finish(t)
  <2>1. Becomes(t, "replying") /\ tasks[t].state = "working"
    BY <1>2 DEF Finish, In
  <2>2. DOMAIN tasks' = DOMAIN tasks
    BY <1>1, <2>1, OneMoves
  <2> QED
    BY <1>1, <2>1, <2>2, OneMoves, InboxStays DEF Busy
<1>3. ASSUME NEW state \in Settled, Becomes(t, state), tasks[t].state = "replying",
             NEW m, m = tasks[t].msg
      PROVE  [Inbox!Next]_(Inbox!inbox)
  <2>1. /\ DOMAIN tasks' = DOMAIN tasks
        /\ \A s \in 1..Len(tasks) :
             /\ tasks'[s].msg = tasks[s].msg
             /\ tasks'[s].state = IF s = t THEN state ELSE tasks[s].state
    BY <1>1, <1>3, OneMoves
  <2>2. \A i : i # m => At(i, Busy)' = At(i, Busy) /\ At(i, {"answered"})' = At(i, {"answered"})
    BY <1>1, <1>3, <2>1 DEF At
  <2>3. At(m, Busy)' = At(m, Busy) \ {t} /\ t \in At(m, Busy)
    BY <1>1, <1>3, <2>1 DEF At, Busy, Settled
  <2>4. Cardinality(At(m, Busy)') = Cardinality(At(m, Busy)) - 1
    BY <2>3, AtFinite, FS_RemoveElement
  <2>5. HandlersOf(m, {"working", "replying"})' = HandlersOf(m, {"working", "replying"}) - 1
    BY <2>4 DEF HandlersOf, At, Busy
  <2>6. HandlersOf(m, {"working", "replying"}) > 0
    <3>1. Cardinality(At(m, Busy)) # 0
      BY <2>3, AtFinite, FS_EmptySet
    <3> QED
      BY <3>1, AtFinite DEF Busy
  <2>7. \A i : i # m =>
          /\ HandlersOf(i, {"working", "replying"})' = HandlersOf(i, {"working", "replying"})
          /\ HandlersOf(i, {"answered"})' = HandlersOf(i, {"answered"})
    BY <2>2 DEF HandlersOf, At, Busy
  <2>8. HandlersOf(m, {"answered"})' =
          HandlersOf(m, {"answered"}) + IF state = "answered" THEN 1 ELSE 0
    <3>1. CASE state = "answered"
      <4>1. /\ At(m, {"answered"})' = At(m, {"answered"}) \cup {t}
            /\ t \notin At(m, {"answered"})
        BY <1>1, <1>3, <2>1, <3>1 DEF At
      <4>2. Cardinality(At(m, {"answered"})') = Cardinality(At(m, {"answered"})) + 1
        BY <4>1, AtFinite, FS_AddElement
      <4> QED
        BY <3>1, <4>2 DEF HandlersOf, At
    <3>2. CASE state # "answered"
      <4>1. At(m, {"answered"})' = At(m, {"answered"})
        BY <1>1, <1>3, <2>1, <3>2 DEF At
      <4>2. HandlersOf(m, {"answered"}) \in Nat
        BY AtFinite
      <4>3. HandlersOf(m, {"answered"})' = HandlersOf(m, {"answered"})
        BY <4>1 DEF HandlersOf, At
      <4> QED
        BY <3>2, <4>2, <4>3
    <3> QED
      BY <3>1, <3>2
  <2>9. CASE m \notin 1..MaxTasks
    BY <1>1, <2>7, <2>9 DEF Inbox!inbox
  <2>10. CASE m \in 1..MaxTasks /\ state = "answered"
    BY <1>1, <2>5, <2>6, <2>7, <2>8, <2>10 DEF Inbox!Next, Inbox!Answer
  <2>11. CASE m \in 1..MaxTasks /\ state # "answered"
    <3>1. HandlersOf(m, {"answered"})' = HandlersOf(m, {"answered"})
      BY <2>8, <2>11, AtFinite
    <3> QED
      BY <1>1, <2>5, <2>6, <2>7, <2>11, <3>1 DEF Inbox!Next, Inbox!Abandon
  <2> QED
    BY <2>9, <2>10, <2>11
<1> QED
  BY <1>2, <1>3 DEF Reply, In, Settled

(* The process ends.                                                        *)
LEMMA InboxCloses ==
  ASSUME ChatInv, Exit
  PROVE  Inbox!Close
<1>1. up /\ up' = FALSE /\ TaskInv /\ DOMAIN tasks = 1..Len(tasks)
  BY DEF Exit, ChatInv, TaskInv
<1>2. /\ DOMAIN tasks' = DOMAIN tasks
      /\ \A t \in DOMAIN tasks :
           /\ tasks'[t].msg = tasks[t].msg
           /\ tasks'[t].state = IF tasks[t].state \in Settled THEN tasks[t].state ELSE "killed"
  BY <1>1, AllKilled
<1>3. \A i : At(i, Busy)' = {} /\ At(i, {"answered"})' = At(i, {"answered"})
  BY <1>2 DEF At, Busy, Settled
<1>4. Cardinality({}) = 0
  BY FS_EmptySet
<1>5. \A i : /\ HandlersOf(i, {"working", "replying"})' = 0
             /\ HandlersOf(i, {"answered"})' = HandlersOf(i, {"answered"})
  BY <1>3, <1>4 DEF HandlersOf, At, Busy
<1> QED
  BY <1>1, <1>5 DEF Inbox!Close

(* Each step of the bridge is one of the inbox, or a stutter.               *)
LEMMA InboxNext == ChatInv /\ [Next]_vars => [Inbox!Next]_(Inbox!inbox)
<1> SUFFICES ASSUME ChatInv, [Next]_vars PROVE [Inbox!Next]_(Inbox!inbox)
  OBVIOUS
<1>1. DOMAIN tasks = 1..Len(tasks)
  BY DEF ChatInv, TaskInv
<1>2. CASE UserPosts \/ StartBridge \/ ListenEnds \/ Receive \/ Signal \/ UNCHANGED vars
  <2>1. UNCHANGED <<tasks, up>>
    BY <1>2 DEF UserPosts, StartBridge, ListenEnds, Receive, Signal, proc, vars
  <2> QED
    BY <2>1, InboxStays
<1>3. ASSUME NEW t \in DOMAIN tasks, ListMessages(t) \/ Create(t)
      PROVE  [Inbox!Next]_(Inbox!inbox)
  BY <1>3, InboxStays DEF ListMessages, Create, proc
<1>4. CASE Restart
  <2>1. ~up /\ up' /\ UNCHANGED tasks /\ up' = TRUE
    BY <1>4 DEF Restart
  <2>2. \A i, states : HandlersOf(i, states)' = HandlersOf(i, states)
    BY <2>1 DEF HandlersOf
  <2> QED
    BY <2>1, <2>2 DEF Inbox!Next, Inbox!Open
<1>5. CASE Exit
  BY <1>5, InboxCloses DEF Inbox!Next
<1> QED
  BY <1>1, <1>2, <1>3, <1>4, <1>5, InboxTakes, InboxReplies DEF Next, Listener, HandlerOf

(* The inbox is empty at first.                                             *)
LEMMA InboxInit == Init => Inbox!Init
<1> SUFFICES ASSUME Init PROVE Inbox!Init
  OBVIOUS
<1>1. Cardinality({}) = 0
  BY FS_EmptySet
<1>2. \A i, states : HandlersOf(i, states) = 0
  <2>1. \A i, states : {t \in DOMAIN tasks : tasks[t].msg = i /\ tasks[t].state \in states} = {}
    BY DEF Init
  <2> QED
    BY <1>1, <2>1 DEF HandlersOf
<1> QED
  BY <1>2 DEF Init, Inbox!Init

(* The safety half of InboxSpec, for any number of messages, handlers and   *)
(* processes: a request is settled at most once, after it was taken and by  *)
(* the process that took it (handleInboundMessage, replyToMessage).         *)
THEOREM ImplementsInbox == Spec => Inbox!Init /\ [][Inbox!Next]_(Inbox!inbox)
  BY InboxInit, InboxNext, ChatAlways, PTL DEF Spec

-----------------------------------------------------------------------------
(* Types, and the bound on handlers.  A message is announced at most twice, *)
(* so the events to come, the one at hand and the handlers are never more   *)
(* than twice the messages and the events sent again.                       *)

BridgeInv ==
  /\ config \in Configs /\ budget \in Budgets
  /\ bridge \in {"off", "starting", "listening", "stopped"}
  /\ current # NoEvent => bridge = "listening" /\ up

RangeInv ==
  /\ Len(msgs) <= budget.messages
  /\ \A e \in resent : e.msg \in 1..Len(msgs)
  /\ met \subseteq 1..Len(msgs)

WorkInv ==
  /\ IsFiniteSet(events) /\ IsFiniteSet(resent) /\ Cardinality(resent) <= budget.resent
  /\ Cardinality(events) + Bit(current # NoEvent) + Len(tasks) <= 2 * Len(msgs) + Cardinality(resent)

TypeInv == BridgeInv /\ RangeInv /\ WorkInv

(* The numbers of a budget, and what they leave room for.                   *)
LEMMA BudgetNumbers ==
  ASSUME NEW b \in Budgets
  PROVE  /\ b.messages \in Nat /\ b.resent \in Nat /\ MaxTasks \in Nat
         /\ 2 * b.messages + b.resent <= MaxTasks
<1>1. b \in [posts : Nat, messages : Nat, resent : Nat, tools : Nat, lives : Nat]
  BY ChatAssumption
<1> QED
  BY <1>1, ChatAssumption

(* One element more or less.                                                *)
LEMMA OneMore ==
  ASSUME NEW S, IsFiniteSet(S), NEW x
  PROVE  /\ IsFiniteSet(S \cup {x}) /\ Cardinality(S \cup {x}) \in Nat /\ Cardinality(S) \in Nat
         /\ Cardinality(S \cup {x}) <= Cardinality(S) + 1
         /\ x \notin S => Cardinality(S \cup {x}) >= Cardinality(S) + 1
         /\ IsFiniteSet(S \ {x}) /\ Cardinality(S \ {x}) \in Nat
         /\ x \in S => Cardinality(S \ {x}) <= Cardinality(S) - 1
<1>1. /\ IsFiniteSet(S \cup {x})
      /\ Cardinality(S \cup {x}) = IF x \in S THEN Cardinality(S) ELSE Cardinality(S) + 1
  BY FS_AddElement
<1>2. /\ IsFiniteSet(S \ {x})
      /\ Cardinality(S \ {x}) = IF x \in S THEN Cardinality(S) - 1 ELSE Cardinality(S)
  BY FS_RemoveElement
<1>3. Cardinality(S) \in Nat /\ Cardinality(S \cup {x}) \in Nat /\ Cardinality(S \ {x}) \in Nat
  BY <1>1, <1>2, FS_CardinalityType
<1> DEFINE a == Cardinality(S \cup {x})
           b == Cardinality(S \ {x})
           n == Cardinality(S)
<1>4. a = (IF x \in S THEN n ELSE n + 1) /\ b = (IF x \in S THEN n - 1 ELSE n)
  BY <1>1, <1>2, Zenon
<1>5. a \in Nat /\ b \in Nat /\ n \in Nat
  BY <1>3
<1>6. a <= n + 1 /\ (x \notin S => a >= n + 1) /\ (x \in S => b <= n - 1)
  <2> HIDE DEF a, b, n
  <2> QED
    BY <1>4, <1>5
<1> QED
  BY <1>1, <1>2, <1>3, <1>6

(* What WorkInv counts are numbers.                                         *)
LEMMA WorkNumbers ==
  ASSUME ChatInv, WorkInv
  PROVE  /\ Cardinality(events) \in Nat /\ Cardinality(resent) \in Nat
         /\ Len(msgs) \in Nat /\ Len(tasks) \in Nat /\ Bit(current # NoEvent) \in {0, 1}
  BY FS_CardinalityType DEF ChatInv, MsgInv, TaskInv, WorkInv, Bit

(* The first process has no messages, events or handlers.                   *)
LEMMA TypeInvInit == Init => TypeInv
<1> SUFFICES ASSUME Init PROVE TypeInv
  OBVIOUS
<1>1. IsFiniteSet({}) /\ Cardinality({}) = 0
  BY FS_EmptySet
<1>2. budget.messages \in Nat /\ budget.resent \in Nat
  BY BudgetNumbers DEF Init
<1>3. /\ msgs = <<>> /\ events = {} /\ resent = {} /\ current = NoEvent /\ tasks = <<>> /\ met = {}
      /\ config \in Configs /\ budget \in Budgets /\ bridge = "starting"
  BY DEF Init
<1>4. BridgeInv /\ RangeInv
  BY <1>2, <1>3 DEF BridgeInv, RangeInv
<1>5. WorkInv
  <2>1. Cardinality(events) = 0 /\ Cardinality(resent) = 0
    BY <1>1, <1>3
  <2> QED
    BY <1>1, <1>2, <1>3, <2>1 DEF WorkInv, Bit
<1> QED
  BY <1>4, <1>5 DEF TypeInv

(* Nothing is handled, received or posted.                                  *)
LEMMA WorkStays ==
  ASSUME ChatInv, WorkInv, UNCHANGED <<budget, msgs, events, resent>>,
         current' \in {current, NoEvent}, Len(tasks') = Len(tasks)
  PROVE  WorkInv'
  BY WorkNumbers DEF WorkInv, Bit

(* A message brings two events at the most.                                 *)
LEMMA WorkPost ==
  ASSUME ChatInv, WorkInv, NEW m \in Message, Post(m), UNCHANGED <<budget, resent, current>>,
         Len(tasks') = Len(tasks)
  PROVE  WorkInv'
<1> DEFINE e(type) == [msg |-> Len(msgs) + 1, type |-> type]
<1>1. Len(msgs) \in Nat /\ Len(msgs') = Len(msgs) + 1
  BY DEF Post, ChatInv, MsgInv
<1>2. PICK a \in {"app_mention", "message", "slash"}, b \in {"app_mention", "message", "slash"} :
        EventTypes(m.kind) = {a} \cup {b}
  BY DEF Message, EventTypes
<1>3. events' = (events \cup {e(a)}) \cup {e(b)}
  BY <1>2 DEF Post
<1> HIDE DEF e
<1>4. IsFiniteSet(events) /\ Cardinality(events) \in Nat
  BY WorkNumbers DEF WorkInv
<1>5. /\ IsFiniteSet(events \cup {e(a)}) /\ Cardinality(events \cup {e(a)}) \in Nat
      /\ Cardinality(events \cup {e(a)}) <= Cardinality(events) + 1
  BY <1>4, OneMore
<1>6. /\ IsFiniteSet(events') /\ Cardinality(events') \in Nat
      /\ Cardinality(events') <= Cardinality(events \cup {e(a)}) + 1
  BY <1>3, <1>5, OneMore
<1> QED
  BY <1>1, <1>4, <1>5, <1>6, WorkNumbers DEF WorkInv

(* An event that is taken from Slack is at hand, and may be sent again if   *)
(* the budget has one left.                                                 *)
LEMMA WorkReceive ==
  ASSUME ChatInv, BridgeInv, WorkInv, Receive
  PROVE  WorkInv'
<1>1. /\ UNCHANGED <<budget, msgs, tasks>> /\ current = NoEvent
  BY DEF Receive, given
<1>2. PICK e \in events :
        /\ current' = e
        /\ \/ events' = events \ {e} /\ UNCHANGED resent
           \/ /\ Cardinality(resent) < budget.resent
              /\ resent' = resent \cup {e} /\ e \notin resent /\ UNCHANGED events
  BY DEF Receive
<1>3. IsFiniteSet(events) /\ IsFiniteSet(resent)
  BY DEF WorkInv
<1>4. CASE events' = events \ {e} /\ UNCHANGED resent
  <2>1. /\ IsFiniteSet(events') /\ Cardinality(events') \in Nat
        /\ Cardinality(events') <= Cardinality(events) - 1
    BY <1>2, <1>3, <1>4, OneMore
  <2> QED
    BY <1>1, <1>4, <2>1, WorkNumbers DEF WorkInv, Bit
<1>5. CASE /\ Cardinality(resent) < budget.resent
           /\ resent' = resent \cup {e} /\ e \notin resent /\ UNCHANGED events
  <2>1. /\ IsFiniteSet(resent') /\ Cardinality(resent') \in Nat
        /\ Cardinality(resent') <= Cardinality(resent) + 1
        /\ Cardinality(resent') >= Cardinality(resent) + 1
    BY <1>3, <1>5, OneMore
  <2>2. budget.resent \in Nat /\ Cardinality(resent) \in Nat
    BY BudgetNumbers, WorkNumbers DEF BridgeInv
  <2>3. Cardinality(resent') <= budget'.resent
    BY <1>1, <1>5, <2>1, <2>2
  <2> QED
    BY <1>1, <1>5, <2>1, <2>3, WorkNumbers DEF WorkInv, Bit
<1> QED
  BY <1>2, <1>4, <1>5

(* The event at hand becomes at most one handler.                           *)
LEMMA WorkHandle ==
  ASSUME ChatInv, WorkInv, Handle
  PROVE  WorkInv'
<1>1. UNCHANGED <<budget, msgs, events, resent>> /\ current # NoEvent /\ current' = NoEvent
  BY DEF Handle, slack, given
<1>2. tasks \in Seq(Task) /\ Len(tasks) \in Nat
  BY DEF ChatInv, TaskInv
<1>3. Len(tasks') \in Nat /\ Len(tasks') <= Len(tasks) + 1
  BY <1>2 DEF Handle
<1> QED
  BY <1>1, <1>2, <1>3, WorkNumbers DEF WorkInv, Bit

(* Messages are only added, and what is remembered is among them.           *)
LEMMA RangeKeeps ==
  ASSUME ChatInv, BridgeInv, RangeInv, UNCHANGED budget, Len(msgs') \in Nat,
         Len(msgs) <= Len(msgs'), Len(msgs') <= Len(msgs) \/ Len(msgs') <= budget.messages,
         \A e \in resent' \ resent : e.msg \in 1..Len(msgs), met' \subseteq met \cup 1..Len(msgs)
  PROVE  RangeInv'
<1>1. Len(msgs) \in Nat /\ budget.messages \in Nat
  BY BudgetNumbers DEF ChatInv, MsgInv, BridgeInv
<1>2. Len(msgs') <= budget'.messages
  BY <1>1 DEF RangeInv
<1>3. 1..Len(msgs) \subseteq 1..Len(msgs')
  BY <1>1
<1> QED
  BY <1>2, <1>3 DEF RangeInv

(* Steps that bring neither messages nor events nor handlers; one at hand   *)
(* may be dropped.                                                          *)
LEMMA TypeStays ==
  ASSUME ChatInv, TypeInv, UNCHANGED <<given, slack>>, met' \subseteq met \cup 1..Len(msgs),
         BridgeInv', current' \in {current, NoEvent}, Len(tasks') = Len(tasks)
  PROVE  TypeInv'
<1>1. UNCHANGED <<budget, msgs, events, resent>> /\ Len(msgs) \in Nat
  BY DEF given, slack, ChatInv, MsgInv
<1>2. WorkInv'
  BY <1>1, WorkStays DEF TypeInv
<1>3. /\ resent' \ resent = {} /\ Len(msgs') = Len(msgs)
  BY <1>1
<1>4. RangeInv'
  BY <1>1, <1>3, RangeKeeps DEF TypeInv
<1> QED
  BY <1>2, <1>4 DEF TypeInv

(* A message that is posted brings at most two events, as many as it makes  *)
(* room for.                                                                *)
LEMMA TypePost ==
  ASSUME ChatInv, TypeInv, NEW m \in Message, Post(m), Len(msgs) < budget.messages,
         UNCHANGED <<given, resent, bridge, up, current>>, Len(tasks') = Len(tasks),
         met' \subseteq met \cup 1..Len(msgs)
  PROVE  TypeInv'
<1>1. Len(msgs) \in Nat /\ Len(msgs') = Len(msgs) + 1 /\ budget.messages \in Nat
  BY BudgetNumbers DEF Post, ChatInv, MsgInv, TypeInv, BridgeInv
<1>2. BridgeInv' /\ UNCHANGED budget
  BY DEF TypeInv, BridgeInv, given
<1>3. WorkInv'
  BY <1>2, WorkPost DEF TypeInv
<1>4. /\ Len(msgs') \in Nat /\ Len(msgs) <= Len(msgs') /\ Len(msgs') <= budget.messages
      /\ resent' \ resent = {}
  BY <1>1
<1>5. RangeInv'
  BY <1>2, <1>4, RangeKeeps DEF TypeInv
<1> QED
  BY <1>2, <1>3, <1>5 DEF TypeInv

(* The steps of a handler: what it posts is within the budget.              *)
LEMMA TypeHandlers ==
  ASSUME ChatInv, TypeInv, NEW t \in DOMAIN tasks, HandlerOf(t)
  PROVE  TypeInv'
<1>1. /\ t \in 1..Len(tasks) /\ Len(tasks) \in Nat /\ tasks[t] \in Task /\ TaskInv
      /\ Roots \subseteq 1..Len(msgs)
  BY DEF ChatInv, TaskInv, Roots, MsgInv
<1>2. UNCHANGED <<given, bridge, up, current>>
  BY DEF HandlerOf, ListMessages, Create, Finish, Reply, proc
<1>3. BridgeInv'
  BY <1>2 DEF TypeInv, BridgeInv, given
<1>4. CASE ListMessages(t)
  <2>1. UNCHANGED <<slack, tasks>> /\ met' \subseteq met \cup 1..Len(msgs)
    BY <1>1, <1>4 DEF ListMessages
  <2> QED
    BY <1>2, <1>3, <2>1, TypeStays
<1>5. CASE Create(t)
  <2>1. PICK kind \in Written, root \in {0} \cup {i \in Roots : ~Direct(i)} :
          /\ Post(Msg("bot", kind, root))
          /\ met' = met \cup ({root} \ {0})
    BY <1>5 DEF Create
  <2>2. Msg("bot", kind, root) \in Message
    BY DEF Msg, Message, Roots, ChatInv, MsgInv, Written, Kinds
  <2>3. UNCHANGED <<resent, tasks>> /\ Len(msgs) < budget.messages
    BY <1>5 DEF Create
  <2>4. met' \subseteq met \cup 1..Len(msgs)
    BY <1>1, <2>1
  <2> QED
    BY <1>2, <2>1, <2>2, <2>3, <2>4, TypePost
<1>6. CASE Finish(t)
  <2>1. UNCHANGED <<slack, met>> /\ Becomes(t, "replying")
    BY <1>6 DEF Finish
  <2>2. Len(tasks') = Len(tasks)
    BY <1>1, <2>1, OneMoves
  <2> QED
    BY <1>2, <1>3, <2>1, <2>2, TypeStays
<1>7. CASE Reply(t)
  <2>1. UNCHANGED <<resent, met>> /\ \E state \in Settled : Becomes(t, state)
    BY <1>7 DEF Reply, Settled
  <2>2. Len(tasks') = Len(tasks)
    BY <1>1, <2>1, OneMoves
  <2>3. CASE UNCHANGED <<msgs, events>>
    BY <1>2, <1>3, <2>1, <2>2, <2>3, TypeStays DEF slack
  <2>4. ASSUME NEW kind \in {"direct"} \cup Written, Post(Msg("bot", kind, tasks[t].thread)),
               Len(msgs) < budget.messages
        PROVE  TypeInv'
    <3>1. Msg("bot", kind, tasks[t].thread) \in Message
      BY <1>1 DEF Msg, Message, Task, Written, Kinds
    <3> QED
      BY <1>2, <2>1, <2>2, <2>4, <3>1, TypePost
  <2> QED
    BY <1>7, <2>3, <2>4 DEF Reply
<1> QED
  BY <1>4, <1>5, <1>6, <1>7 DEF HandlerOf

(* Every step keeps the counts.                                             *)
LEMMA TypeStep == ChatInv /\ TypeInv /\ [Next]_vars => TypeInv'
<1> SUFFICES ASSUME ChatInv, TypeInv, [Next]_vars PROVE TypeInv'
  OBVIOUS
<1>1. CASE UserPosts
  <2>1. /\ UNCHANGED <<given, resent, bridge, up, current, tasks, met>> /\ Len(msgs) < budget.messages
        /\ \E kind \in Kinds, root \in {0} \cup Roots : Post(Msg("user", kind, root))
    BY <1>1 DEF UserPosts, proc
  <2>2. \A kind \in Kinds, root \in {0} \cup Roots : Msg("user", kind, root) \in Message
    BY DEF Msg, Message, Roots, ChatInv, MsgInv
  <2>3. met' \subseteq met \cup 1..Len(msgs)
    BY <2>1
  <2> QED
    BY <2>1, <2>2, <2>3, TypePost
<1>2. CASE StartBridge \/ ListenEnds \/ Signal \/ UNCHANGED vars
  <2>1. UNCHANGED <<given, slack, current, tasks, met, up>>
    BY <1>2 DEF StartBridge, ListenEnds, Signal, vars, given, slack
  <2>2. BridgeInv'
    BY <1>2, <2>1 DEF StartBridge, ListenEnds, Signal, vars, TypeInv, BridgeInv, given
  <2> QED
    BY <2>1, <2>2, TypeStays
<1>3. CASE Restart
  <2>1. UNCHANGED <<given, slack, current, tasks>> /\ ~up /\ bridge' = "starting" /\ met' = {}
    BY <1>3 DEF Restart
  <2>2. BridgeInv'
    BY <2>1 DEF TypeInv, BridgeInv, given
  <2> QED
    BY <2>1, <2>2, TypeStays
<1>4. CASE Exit
  <2>1. UNCHANGED <<given, slack, bridge, met>> /\ current' = NoEvent /\ TaskInv
    BY <1>4 DEF Exit, ChatInv
  <2>2. Len(tasks') = Len(tasks)
    BY <1>4, <2>1, AllKilled
  <2>3. BridgeInv'
    BY <2>1 DEF TypeInv, BridgeInv, given
  <2> QED
    BY <2>1, <2>2, <2>3, TypeStays
<1>5. CASE Receive
  <2>1. /\ UNCHANGED <<given, msgs, bridge, up, met>> /\ up /\ bridge = "listening"
        /\ \A e \in resent' \ resent : e \in events
    BY <1>5 DEF Receive, proc
  <2>2. \A e \in resent' \ resent : e.msg \in 1..Len(msgs)
    BY <2>1 DEF ChatInv, EventInv, Announced
  <2>3. BridgeInv' /\ UNCHANGED budget
    BY <2>1 DEF TypeInv, BridgeInv, given
  <2>4. Len(msgs) \in Nat /\ met' \subseteq met \cup 1..Len(msgs)
    BY <2>1 DEF ChatInv, MsgInv
  <2>5. RangeInv'
    BY <2>1, <2>2, <2>3, <2>4, RangeKeeps DEF TypeInv
  <2>6. WorkInv'
    BY <1>5, WorkReceive DEF TypeInv
  <2> QED
    BY <2>3, <2>5, <2>6 DEF TypeInv
<1>6. CASE Handle
  <2>1. UNCHANGED <<given, slack, bridge, up, met>> /\ current' = NoEvent
    BY <1>6 DEF Handle, proc
  <2>2. BridgeInv' /\ RangeInv'
    BY <2>1 DEF TypeInv, BridgeInv, RangeInv, given, slack
  <2>3. WorkInv'
    BY <1>6, WorkHandle DEF TypeInv
  <2> QED
    BY <2>2, <2>3 DEF TypeInv
<1> QED
  BY <1>1, <1>2, <1>3, <1>4, <1>5, <1>6, TypeHandlers DEF Next, Listener

(* The counts, and what ChatInv says of messages and handlers, are the      *)
(* types.                                                                   *)
LEMMA TypesFollow == ChatInv /\ TypeInv => TypeOK
<1> SUFFICES ASSUME ChatInv, TypeInv PROVE TypeOK
  OBVIOUS
<1>1. /\ DOMAIN msgs = 1..Len(msgs) /\ Len(msgs) \in Nat
      /\ DOMAIN tasks = 1..Len(tasks) /\ Len(tasks) \in Nat
  BY DEF ChatInv, MsgInv, TaskInv
<1>2. /\ config \in Configs /\ Len(msgs) <= budget.messages
      /\ bridge \in {"off", "starting", "listening", "stopped"}
      /\ current # NoEvent => bridge = "listening"
  BY DEF TypeInv, BridgeInv, RangeInv
<1>3. \A e \in events \cup resent : e.msg \in DOMAIN msgs
  BY <1>1 DEF ChatInv, EventInv, Announced, TypeInv, RangeInv
<1>4. known \cup met \subseteq DOMAIN msgs
  BY <1>1 DEF ChatInv, KnownInv, TypeInv, RangeInv
<1>5. Len(tasks) <= MaxTasks
  <2>1. /\ budget.messages \in Nat /\ budget.resent \in Nat /\ MaxTasks \in Nat
        /\ 2 * budget.messages + budget.resent <= MaxTasks
    BY BudgetNumbers DEF TypeInv, BridgeInv
  <2>2. /\ Cardinality(events) + Bit(current # NoEvent) + Len(tasks)
             <= 2 * Len(msgs) + Cardinality(resent)
        /\ Cardinality(resent) <= budget.resent
    BY DEF TypeInv, WorkInv
  <2> QED
    BY <1>1, <1>2, <2>1, <2>2, WorkNumbers DEF TypeInv
<1>6. ASSUME NEW t \in DOMAIN tasks
      PROVE  /\ tasks[t].msg \in DOMAIN msgs /\ tasks[t].thread \in 0..Len(msgs)
             /\ tasks[t].state \in {"working", "replying"} \cup Settled
             /\ ~up => tasks[t].state \in Settled
  <2>1. /\ tasks[t] \in Task /\ tasks[t].msg \in 1..Len(msgs) /\ tasks[t].thread = Thread(tasks[t])
        /\ tasks[t].state \notin Settled => up
    BY <1>1, <1>6 DEF ChatInv, TaskInv, Announced
  <2>2. msgs[tasks[t].msg].root \in 0..Len(msgs)
    <3> DEFINE i == tasks[t].msg
    <3>1. msgs[i] \in Message /\ Rooted(msgs[i])
      BY <2>1 DEF ChatInv, MsgInv
    <3> HIDE DEF i
    <3>2. msgs[i].root \in 0..Len(msgs)
      BY <1>1, <3>1 DEF Rooted, Message
    <3> QED
      BY <3>2 DEF i
  <2>3. tasks[t].thread \in 0..Len(msgs)
    BY <1>1, <2>1, <2>2 DEF Thread
  <2> QED
    BY <1>1, <2>1, <2>3 DEF Task
<1> QED
  BY <1>2, <1>3, <1>4, <1>5, <1>6 DEF TypeOK

(* Every variable keeps its type; only messages of the workspace are        *)
(* announced, remembered and worked on; and there are never more handlers   *)
(* than announcements of messages and events sent again (Listen).           *)
THEOREM ChatTypes == Spec => []TypeOK
  BY ChatAlways, TypeInvInit, TypeStep, TypesFollow, PTL DEF Spec

=============================================================================
