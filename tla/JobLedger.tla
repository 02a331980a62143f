----------------------------- MODULE JobLedger -----------------------------
(***************************************************************************)
(* What the run history (table job_runs) and the scheduler's audit entries  *)
(* promise to whoever reads them: a run is opened once and closed at most   *)
(* once, and is audited at most once, after it was closed or given up, with *)
(* a result that agrees with how it was closed.                             *)
(***************************************************************************)

CONSTANT Run    \* the runs of all jobs, of all processes

VARIABLES
  state,    \* of each run: unopened, open, abandoned or how it was closed
  entry     \* of each run: its audit entry

ledger == <<state, entry>>

Closed == {"success", "failed", "timed_out", "skipped"}

Init ==
  /\ state = [r \in Run |-> "unopened"]
  /\ entry = [r \in Run |-> "none"]

Become(r, s) == state' = [state EXCEPT ![r] = s] /\ UNCHANGED entry

Open(r) == state[r] = "unopened" /\ Become(r, "open")

Finish(r) == state[r] = "open" /\ \E s \in Closed : Become(r, s)

(* The closing update was lost: the run stays open in the history.          *)
Abandon(r) == state[r] = "open" /\ Become(r, "abandoned")

(* The entries that tell the truth about a run.                             *)
Truthful(r) ==
  CASE state[r] = "success"             -> {"success"}
    [] state[r] = "abandoned"           -> {"success", "error"}
    [] state[r] \in Closed \ {"success"} -> {"error"}
    [] OTHER                            -> {}

Record(r) ==
  /\ entry[r] = "none"
  /\ \E a \in Truthful(r) : entry' = [entry EXCEPT ![r] = a]
  /\ UNCHANGED state

Next == \E r \in Run : Open(r) \/ Finish(r) \/ Abandon(r) \/ Record(r)

Spec == Init /\ [][Next]_ledger

=============================================================================
