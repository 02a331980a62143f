---------------------------- MODULE TaskContract ----------------------------
(***************************************************************************)
(* What agent.Execute promises to the scheduler and to the chat bridge: a   *)
(* task is answered once; what it reports and what it leaves in the audit   *)
(* log agree; it buys a bounded number of completions, none of them after   *)
(* its context has ended; and once the context has ended it returns.        *)
(***************************************************************************)
EXTENDS Naturals

CONSTANT Limit    \* the completions a task may buy

VARIABLES
  state,     \* waiting for its turn, working, or how it was answered
  late,      \* the context has ended
  bought,    \* completions paid for
  bill,      \* the cost reported to the caller
  record     \* the audit entry

contract == <<state, late, bought, bill, record>>

Init ==
  /\ state = "waiting"
  /\ late = FALSE
  /\ bought = 0
  /\ bill = 0
  /\ record = "none"

Begin ==
  /\ state = "waiting"
  /\ state' = "working"
  /\ UNCHANGED <<late, bought, bill, record>>

Buy ==
  /\ state = "working" /\ ~late
  /\ bought < Limit
  /\ bought' = bought + 1
  /\ UNCHANGED <<state, late, bill, record>>

Expire ==
  /\ state = "working" /\ ~late
  /\ late' = TRUE
  /\ UNCHANGED <<state, bought, bill, record>>

(* A success is billed in full; a failure reports a zero TaskResult.  The   *)
(* audit entry may be lost, and is not false.                               *)
Return ==
  /\ state = "working"
  /\ \/ state' = "success" /\ bill' = bought
     \/ state' = "error" /\ bill' = 0
  /\ record' \in {"none", state'}
  /\ UNCHANGED <<late, bought>>

Next == Begin \/ Buy \/ Expire \/ Return

Spec == Init /\ [][Next]_contract

(* The context bounds the task.                                             *)
Prompt == WF_contract(late /\ Return)

=============================================================================
