----------------------------- MODULE ChatInbox -----------------------------
(***************************************************************************)
(* What the chat bridge promises about the messages of a workspace, however *)
(* often and in whatever order Slack delivers their events: a request that  *)
(* was taken is answered at most once, never before it was taken and never  *)
(* by a process that has ended; and as long as the process runs it is       *)
(* settled some day.                                                        *)
(***************************************************************************)
EXTENDS Naturals

CONSTANT Message

VARIABLES
  open,     \* a process is there to take requests and to answer them
  owed,     \* of each message, the requests taken for it and not yet settled
  answers   \* of each message, the answers it got

inbox == <<open, owed, answers>>

Init ==
  /\ open = TRUE
  /\ owed = [m \in Message |-> 0]
  /\ answers = [m \in Message |-> 0]

Take(m) ==
  /\ open
  /\ owed' = [owed EXCEPT ![m] = @ + 1]
  /\ UNCHANGED <<open, answers>>

Answer(m) ==
  /\ open /\ owed[m] > 0
  /\ owed' = [owed EXCEPT ![m] = @ - 1]
  /\ answers' = [answers EXCEPT ![m] = @ + 1]
  /\ UNCHANGED open

Abandon(m) ==
  /\ open /\ owed[m] > 0
  /\ owed' = [owed EXCEPT ![m] = @ - 1]
  /\ UNCHANGED <<open, answers>>

(* A process takes what it owes with it.                                    *)
Close ==
  /\ open
  /\ open' = FALSE
  /\ owed' = [m \in Message |-> 0]
  /\ UNCHANGED answers

Open ==
  /\ ~open
  /\ open' = TRUE
  /\ UNCHANGED <<owed, answers>>

Next == (\E m \in Message : Take(m) \/ Answer(m) \/ Abandon(m)) \/ Close \/ Open

Spec == Init /\ [][Next]_inbox /\ \A m \in Message : WF_inbox(Answer(m) \/ Abandon(m))

=============================================================================
