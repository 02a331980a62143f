----------------------------- MODULE Scheduler -----------------------------
(***************************************************************************)
(* The cron scheduler of internal/scheduler/scheduler.go, in the processes  *)
(* that run it: the daemon (`viaduct serve`) and the `viaduct jobs`         *)
(* commands of cmd/viaduct/main.go.  Each of them is an operating-system    *)
(* process with a Scheduler of its own (overlap flags, cron entries) over    *)
(* ONE shared SQLite file (tables jobs, job_runs, audit_log).               *)
(*                                                                          *)
(* A member of Proc is one process incarnation, used once: a restart is     *)
(* another member.  A member of Exec is one call of Scheduler.execute, one  *)
(* goroutine, used once; it opens at most one row of job_runs, so the row   *)
(* is named by the call that opened it.  Proc and Exec are the only bounds. *)
(***************************************************************************)

CONSTANTS
  Proc,            \* process incarnations
  Exec,            \* calls of Scheduler.execute
  Job,             \* job names
  AllowOverlap,    \* the jobs with allow_overlap: true
  ConfigEnabled,   \* the jobs viaduct.yaml lists, enabled
  ConfigDisabled,  \* the jobs viaduct.yaml lists with enabled: false
  Ops,             \* the commands that are used
  None             \* no process, no job, no recorded run

ASSUME ConfigAssumption ==
  /\ AllowOverlap \subseteq Job
  /\ ConfigEnabled \subseteq Job
  /\ ConfigDisabled \subseteq Job
  /\ Ops \subseteq {"serve", "run", "enable", "disable"}
  /\ ConfigEnabled \cap ConfigDisabled = {}
  /\ None \notin Proc \cup Exec \cup Job

VARIABLES
  (* each process *)
  phase,    \* where the command is between newApp and process exit
  cmd,      \* the command line: [op, job]
  todo,     \* jobs the current loop of loadJobs has still to visit
  seen,     \* last_run_at of every job as List returned it to loadJobs
  entries,  \* Scheduler.entryIDs, and the cron entries they name
  running,  \* Scheduler.running: the overlap flags
  (* each call of execute *)
  pc, owner, job, trigger,
  outcome,  \* the status execute has decided on
  lost,     \* the calls whose Complete failed: logged, or ignored by `_ =`
  (* the shared database *)
  table,    \* jobs.enabled of every job name
  lastRun,  \* jobs.last_run_at: the call that last stamped it
  nextRun,  \* jobs.next_run_at: NULL, the zero time, or a cron instant
  row,      \* job_runs.status of the row each call opened
  audit,    \* the audit_log row each call inserted
  touched   \* history: the jobs whose last_run_at others changed since a process read it

procVars == <<phase, cmd, todo, seen, entries, running>>
execVars == <<pc, owner, job, trigger, outcome, lost>>
jobsTable == <<table, lastRun, nextRun, touched>>
vars == <<phase, cmd, todo, seen, entries, running, pc, owner, job, trigger,
          outcome, lost, table, lastRun, nextRun, row, audit, touched>>

(* `jobs list` is a `serve` that stops at once: both only Start and Stop.   *)
Op == {"serve", "run", "enable", "disable"}
Command == [op : Ops \ {"serve"}, job : Job] \cup [op : Ops \cap {"serve"}, job : {None}]
Phase == {"off", "loading", "registering", "up", "switching", "answered",
          "stopping", "closed", "exited", "failed", "dead"}
Final == {"success", "failed", "timed_out", "skipped"}
Pc == {"idle", "enter", "create", "check", "agent", "late", "complete", "times", "audit",
         "release", "skipCreate", "skipComplete", "skipAudit", "done", "killed"}

(* A job was last run by a call of this behaviour, or before it.            *)
Stamp == Exec \cup {None, "earlier"}

Alive(p) == phase[p] \notin {"off", "exited", "failed", "dead"}

(* cron.Start has run and cron.Stop has not: entries can fire.              *)
CronRunning(p) == phase[p] \in {"up", "switching", "answered"}

(* A write of p may fail (SQLITE_BUSY, I/O), and must once store.Close ran. *)
StoreOpen(p) == phase[p] # "closed"

Init ==
  /\ phase = [p \in Proc |-> "off"]
  /\ cmd = [p \in Proc |-> [op |-> "serve", job |-> None]]
  /\ todo = [p \in Proc |-> {}]
  /\ seen = [p \in Proc |-> [j \in Job |-> None]]
  /\ entries = [p \in Proc |-> {}]
  /\ running = [p \in Proc |-> {}]
  /\ pc = [e \in Exec |-> "idle"]
  /\ owner = [e \in Exec |-> None]
  /\ job = [e \in Exec |-> None]
  /\ trigger = [e \in Exec |-> "cron"]
  /\ outcome = [e \in Exec |-> "success"]
  /\ lost = {}
  /\ table \in [Job -> {"absent", "enabled", "disabled"}]
  /\ \E t \in {None, "earlier"} :
       lastRun = [j \in Job |-> IF table[j] = "absent" THEN None ELSE t]
  /\ nextRun = [j \in Job |-> IF lastRun[j] = None THEN "null" ELSE "instant"]
  /\ row = [e \in Exec |-> "none"]
  /\ audit = [e \in Exec |-> "none"]
  /\ touched = [p \in Proc |-> {}]

-----------------------------------------------------------------------------
(* Start of a process: newApp, then Scheduler.Start = loadJobs; cron.Start. *)

Goto(p, ph) == phase' = [phase EXCEPT ![p] = ph]

(* The process ends: its memory is gone and its goroutines are killed.      *)
Forget(p) ==
  /\ todo' = [todo EXCEPT ![p] = {}]
  /\ seen' = [seen EXCEPT ![p] = [j \in Job |-> None]]
  /\ entries' = [entries EXCEPT ![p] = {}]
  /\ running' = [running EXCEPT ![p] = {}]
  /\ LET cut == {e \in Exec : owner[e] = p /\ pc[e] # "done"}
     IN  /\ pc' = [e \in Exec |-> IF e \in cut THEN "killed" ELSE pc[e]]
         /\ outcome' = [e \in Exec |-> IF e \in cut THEN "success" ELSE outcome[e]]
  /\ UNCHANGED <<cmd, owner, job, trigger, lost, jobsTable, row, audit>>

(* The user starts a command; loadJobs begins with the configured jobs.     *)
Launch(p) ==
  /\ phase[p] = "off"
  /\ Goto(p, "loading")
  /\ \E c \in Command : cmd' = [cmd EXCEPT ![p] = c]
  /\ todo' = [todo EXCEPT ![p] = ConfigEnabled \cup ConfigDisabled]
  /\ UNCHANGED <<seen, entries, running, execVars, jobsTable, row, audit>>

(* First loop: Upsert writes enabled from viaduct.yaml and leaves the run   *)
(* times of an existing row alone.                                          *)
LoadUpsert(p) ==
  /\ phase[p] = "loading"
  /\ \E j \in todo[p] :
       /\ table' = [table EXCEPT ![j] =
                      IF j \in ConfigEnabled THEN "enabled" ELSE "disabled"]
       /\ todo' = [todo EXCEPT ![p] = @ \ {j}]
  /\ UNCHANGED <<phase, cmd, seen, entries, running, execVars, lastRun, nextRun,
                 row, audit, touched>>

(* Fault: the run times in the rows List returns are not scanned.           *)
LoadListNoTimes(p) ==
  /\ phase[p] = "loading"
  /\ todo[p] = {}
  /\ Goto(p, "registering")
  /\ todo' = [todo EXCEPT ![p] = {j \in Job : table[j] = "enabled"}]
  /\ UNCHANGED <<cmd, seen, entries, running, execVars, jobsTable, row, audit>>

(* List, one read of the whole table: the second loop works on this copy.   *)
LoadList(p) ==
  /\ phase[p] = "loading"
  /\ todo[p] = {}
  /\ Goto(p, "registering")
  /\ todo' = [todo EXCEPT ![p] = {j \in Job : table[j] = "enabled"}]
  /\ seen' = [seen EXCEPT ![p] = lastRun]
  /\ UNCHANGED <<cmd, entries, running, execVars, jobsTable, row, audit>>

(* p writes last_run_at while others hold a copy of it.                     *)
Touch(p) ==
  touched' = [q \in Proc |->
                IF phase[q] = "registering" /\ q # p
                  THEN touched[q] \cup {j \in Job : lastRun'[j] # lastRun[j]}
                  ELSE touched[q]]

(* Second loop: AddFunc, then UpdateRunTimes with the copy's last_run_at    *)
(* and the Next of an entry whose cron has not started, the zero time.  A   *)
(* failed write is only logged.                                             *)
LoadRegister(p) ==
  /\ phase[p] = "registering"
  /\ \E j \in todo[p] :
       /\ entries' = [entries EXCEPT ![p] = @ \cup {j}]
       /\ todo' = [todo EXCEPT ![p] = @ \ {j}]
       /\ \/ /\ lastRun' = [lastRun EXCEPT ![j] = seen[p][j]]
             /\ nextRun' = [nextRun EXCEPT ![j] = "zero"]
             /\ Touch(p)
          \/ UNCHANGED <<lastRun, nextRun, touched>>
  /\ UNCHANGED <<phase, cmd, seen, running, execVars, table, row, audit>>

CronStart(p) ==
  /\ phase[p] = "registering"
  /\ todo[p] = {}
  /\ Goto(p, "up")
  /\ seen' = [seen EXCEPT ![p] = [j \in Job |-> None]]    \* loadJobs returns
  /\ UNCHANGED <<cmd, todo, entries, running, execVars, jobsTable, row, audit>>

(* Upsert, List or AddFunc fails: Start returns the error, app.close runs   *)
(* and the command ends; there is no goroutine yet to notice the order.     *)
LoadFails(p) ==
  /\ phase[p] \in {"loading", "registering"}
  /\ Goto(p, "failed")
  /\ Forget(p)

-----------------------------------------------------------------------------
(* What a started process does.                                             *)

(* A new goroutine of p calls execute for job j.                            *)
Spawn(e, p, j, source) ==
  /\ pc[e] = "idle"
  /\ pc' = [pc EXCEPT ![e] = "enter"]
  /\ owner' = [owner EXCEPT ![e] = p]
  /\ job' = [job EXCEPT ![e] = j]
  /\ trigger' = [trigger EXCEPT ![e] = source]

(* The cron run loop starts an entry's closure.                             *)
Fire(p) ==
  /\ CronRunning(p)
  /\ \E e \in Exec, j \in entries[p] : Spawn(e, p, j, "cron")
  /\ UNCHANGED <<procVars, outcome, lost, jobsTable, row, audit>>

(* RunNow: the job's row must exist, enabled or not; `go execute`.          *)
RunNow(p) ==
  /\ phase[p] = "up"
  /\ cmd[p].op = "run"
  /\ Goto(p, "answered")
  /\ \/ /\ table[cmd[p].job] # "absent"
        /\ \E e \in Exec : Spawn(e, p, cmd[p].job, "manual")
     \/ UNCHANGED <<pc, owner, job, trigger>>       \* not found, or read error
  /\ UNCHANGED <<cmd, todo, seen, entries, running, outcome, lost,
                 jobsTable, row, audit>>

(* SetEnabled, its GetByName and Upsert.                                    *)
SwitchWrite(p) ==
  /\ phase[p] = "up"
  /\ cmd[p].op \in {"enable", "disable"}
  /\ \/ /\ table[cmd[p].job] # "absent"
        /\ table' = [table EXCEPT ![cmd[p].job] =
                       IF cmd[p].op = "enable" THEN "enabled" ELSE "disabled"]
        /\ Goto(p, "switching")
     \/ /\ Goto(p, "answered")                      \* not found, or db error
        /\ UNCHANGED table
  /\ UNCHANGED <<cmd, todo, seen, entries, running, execVars, lastRun, nextRun,
                 row, audit, touched>>

(* SetEnabled, its change of the cron entries, without the mutex.  AddFunc   *)
(* fails for a schedule cron cannot parse; the row then stays enabled.      *)
SwitchEntry(p) ==
  /\ phase[p] = "switching"
  /\ \/ /\ cmd[p].op = "enable"
        /\ entries' = [entries EXCEPT ![p] = @ \cup {cmd[p].job}]
     \/ /\ cmd[p].op = "enable" /\ cmd[p].job \notin entries[p]
        /\ UNCHANGED entries
     \/ /\ cmd[p].op = "disable"
        /\ entries' = [entries EXCEPT ![p] = @ \ {cmd[p].job}]
  /\ Goto(p, "answered")
  /\ UNCHANGED <<cmd, todo, seen, running, execVars, jobsTable, row, audit>>

(* cron.Stop.  `serve` comes here on a signal or when its server fails.     *)
Stop(p) ==
  /\ \/ phase[p] = "answered"
     \/ phase[p] = "up" /\ cmd[p].op = "serve"
  /\ Goto(p, "stopping")
  /\ UNCHANGED <<cmd, todo, seen, entries, running, execVars, jobsTable, row, audit>>

(* Stop returns when the jobs CRON started have returned (its jobWaiter);   *)
(* RunNow's goroutine is not among them.  Then app.close.                   *)
CronIdle(p) == \A e \in Exec : owner[e] = p /\ trigger[e] = "cron" => pc[e] = "done"

(* Fault: app.close does not wait for Stop.                                 *)
CloseAtOnce(p) ==
  /\ phase[p] = "stopping"
  /\ Goto(p, "closed")
  /\ UNCHANGED <<cmd, todo, seen, entries, running, execVars, jobsTable, row, audit>>

Close(p) ==
  /\ phase[p] = "stopping"
  /\ CronIdle(p)
  /\ Goto(p, "closed")
  /\ UNCHANGED <<cmd, todo, seen, entries, running, execVars, jobsTable, row, audit>>

(* main returns: the goroutines that are left end with the process.         *)
Exit(p) ==
  /\ phase[p] = "closed"
  /\ Goto(p, "exited")
  /\ Forget(p)

(* kill -9, a panic in a job (cron installs no recovery), or the runtime    *)
(* aborting on the unlocked reads and writes of entryIDs.                   *)
Crash(p) ==
  /\ Alive(p)
  /\ Goto(p, "dead")
  /\ Forget(p)

-----------------------------------------------------------------------------
(* Scheduler.execute, one action per step another goroutine or process can  *)
(* observe.                                                                 *)

At(e, step) == pc[e] = step
Step(e, step) == pc' = [pc EXCEPT ![e] = step]

(* What is left once the body is done: the deferred delete of the flag, if  *)
(* this call set it.                                                        *)
Unwind(e) == IF job[e] \in AllowOverlap THEN "done" ELSE "release"

(* The overlap check, under Scheduler.mu.                                   *)
EnterOpen(e) ==
  /\ At(e, "enter")
  /\ job[e] \in AllowOverlap
  /\ Step(e, "create")
  /\ UNCHANGED running

EnterTake(e) ==
  /\ At(e, "enter")
  /\ job[e] \notin AllowOverlap \cup running[owner[e]]
  /\ Step(e, "create")
  /\ running' = [running EXCEPT ![owner[e]] = @ \cup {job[e]}]

EnterSkip(e) ==
  /\ At(e, "enter")
  /\ job[e] \in running[owner[e]] \ AllowOverlap
  /\ Step(e, "skipCreate")
  /\ UNCHANGED running

Enter(e) ==
  /\ EnterOpen(e) \/ EnterTake(e) \/ EnterSkip(e)
  /\ UNCHANGED <<phase, cmd, todo, seen, entries, owner, job, trigger,
                 outcome, lost, jobsTable, row, audit>>

(* Fault: the delete of the flag is deferred only after Create.             *)
CreateKeepsFlag(e) ==
  /\ At(e, "create")
  /\ \/ /\ StoreOpen(owner[e])
        /\ row' = [row EXCEPT ![e] = "running"]
        /\ Step(e, "check")
     \/ /\ Step(e, "done")
        /\ UNCHANGED row
  /\ UNCHANGED <<procVars, owner, job, trigger, outcome, lost, jobsTable, audit>>

(* JobRuns.Create; on an error execute returns, with neither row nor audit. *)
Create(e) ==
  /\ At(e, "create")
  /\ \/ /\ StoreOpen(owner[e])
        /\ row' = [row EXCEPT ![e] = "running"]
        /\ Step(e, "check")
     \/ /\ Step(e, Unwind(e))
        /\ UNCHANGED row
  /\ UNCHANGED <<procVars, owner, job, trigger, outcome, lost, jobsTable,
                 audit>>

(* Fault: a failed preflight returns without closing the row.               *)
PreflightLeavesRow(e) ==
  /\ At(e, "check")
  /\ Step(e, "agent") \/ Step(e, Unwind(e))
  /\ UNCHANGED <<procVars, owner, job, trigger, outcome, lost, jobsTable, row, audit>>

(* preFlightChecks: registered, healthy and permitted, or the run is closed *)
(* as skipped.  The health check has no deadline.                           *)
Preflight(e) ==
  /\ At(e, "check")
  /\ \/ /\ Step(e, "agent")
        /\ UNCHANGED outcome
     \/ /\ Step(e, "complete")
        /\ outcome' = [outcome EXCEPT ![e] = "skipped"]
  /\ UNCHANGED <<procVars, owner, job, trigger, lost, jobsTable, row, audit>>

(* Fault: the agent runs under the caller's context.                        *)
NoDeadline(e) == e \notin Exec /\ UNCHANGED vars

(* The deadline of context.WithTimeout, at any point of agent.Execute up to *)
(* the look at execCtx.Err(): from then on the call is late.                *)
Deadline(e) ==
  /\ At(e, "agent")
  /\ Step(e, "late")
  /\ UNCHANGED <<procVars, owner, job, trigger, outcome, lost, jobsTable, row, audit>>

(* agent.Execute returns, with an answer or an error; a deadline that has   *)
(* passed overrides either.                                                 *)
Verdicts(e) == IF pc[e] = "late" THEN {"timed_out"} ELSE {"success", "failed"}

AgentReturns(e) ==
  /\ At(e, "agent") \/ At(e, "late")
  /\ \E v \in Verdicts(e) : outcome' = [outcome EXCEPT ![e] = v]
  /\ Step(e, "complete")
  /\ UNCHANGED <<procVars, owner, job, trigger, lost, jobsTable, row, audit>>

(* JobRuns.Complete of the call's own row; an error leaves the row as it    *)
(* is, and execute goes on.  A preflight failure does not touch jobs.       *)
CloseRow(e) ==
  \/ /\ StoreOpen(owner[e])
     /\ row' = [row EXCEPT ![e] = outcome[e]]
     /\ UNCHANGED lost
  \/ /\ lost' = lost \cup {e}
     /\ UNCHANGED row

(* Fault: no return after a failed preflight.                               *)
CompleteFallsThrough(e) ==
  /\ At(e, "complete")
  /\ CloseRow(e)
  /\ Step(e, IF outcome[e] = "skipped" THEN "agent" ELSE "times")
  /\ UNCHANGED <<procVars, owner, job, trigger, outcome, jobsTable, audit>>

Complete(e) ==
  /\ At(e, "complete")
  /\ CloseRow(e)
  /\ Step(e, IF outcome[e] = "skipped" THEN "audit" ELSE "times")
  /\ UNCHANGED <<procVars, owner, job, trigger, outcome, jobsTable, audit>>

(* entryIDs is read without the mutex, then cron.Entry: an entry that       *)
(* SetEnabled removes in between has the zero Next.                         *)
NextSeen(p, j) ==
  CASE j \notin entries[p]     -> {"null"}
    [] phase[p] = "switching"  -> {"instant", "zero"}
    [] OTHER                   -> {"instant"}

UpdateTimes(e) ==
  /\ At(e, "times")
  /\ Step(e, "audit")
  /\ \/ /\ StoreOpen(owner[e])
        /\ lastRun' = [lastRun EXCEPT ![job[e]] = e]
        /\ \E n \in NextSeen(owner[e], job[e]) :
             nextRun' = [nextRun EXCEPT ![job[e]] = n]
        /\ Touch(owner[e])
     \/ UNCHANGED <<lastRun, nextRun, touched>>
  /\ UNCHANGED <<procVars, owner, job, trigger, outcome, lost, table, row,
                 audit>>

(* Fault: the status goes into the audit log's result.                      *)
VerdictIsStatus(e) == outcome[e]

(* Fault: the expired context does not become execErr (line 259 dropped).   *)
VerdictOfAgent(e) == IF outcome[e] \in {"success", "timed_out"} THEN "success" ELSE "error"

(* recordAudit; its error is dropped.                                       *)
Verdict(e) == IF outcome[e] = "success" THEN "success" ELSE "error"

Insert(e) ==
  \/ StoreOpen(owner[e]) /\ audit' = [audit EXCEPT ![e] = Verdict(e)]
  \/ UNCHANGED audit

Audit(e) ==
  /\ At(e, "audit")
  /\ Insert(e)
  /\ Step(e, Unwind(e))
  /\ UNCHANGED <<procVars, owner, job, trigger, outcome, lost, jobsTable, row>>

(* The deferred delete(s.running, job.Name).                                *)
Release(e) ==
  /\ At(e, "release")
  /\ running' = [running EXCEPT ![owner[e]] = @ \ {job[e]}]
  /\ Step(e, "done")
  /\ UNCHANGED <<phase, cmd, todo, seen, entries, owner, job, trigger,
                 outcome, lost, jobsTable, row, audit>>

(* recordSkipped: Create, Complete, recordAudit, with no flag held.         *)
SkipCreate(e) ==
  /\ At(e, "skipCreate")
  /\ \/ /\ StoreOpen(owner[e])
        /\ row' = [row EXCEPT ![e] = "running"]
        /\ outcome' = [outcome EXCEPT ![e] = "skipped"]
        /\ Step(e, "skipComplete")
     \/ /\ Step(e, "done")
        /\ UNCHANGED <<row, outcome>>
  /\ UNCHANGED <<procVars, owner, job, trigger, lost, jobsTable, audit>>

SkipComplete(e) ==
  /\ At(e, "skipComplete")
  /\ CloseRow(e)
  /\ Step(e, "skipAudit")
  /\ UNCHANGED <<procVars, owner, job, trigger, outcome, jobsTable, audit>>

(* Fault: the delete of the flag is deferred before the overlap check.      *)
SkipAuditReleases(e) ==
  /\ At(e, "skipAudit")
  /\ Insert(e)
  /\ Step(e, "release")
  /\ UNCHANGED <<procVars, owner, job, trigger, outcome, lost, jobsTable, row>>

SkipAudit(e) ==
  /\ At(e, "skipAudit")
  /\ Insert(e)
  /\ Step(e, "done")
  /\ UNCHANGED <<procVars, owner, job, trigger, outcome, lost, jobsTable, row>>

-----------------------------------------------------------------------------

Start(p) == LoadUpsert(p) \/ LoadList(p) \/ LoadRegister(p) \/ CronStart(p) \/ LoadFails(p)
SetEnabled(p) == SwitchWrite(p) \/ SwitchEntry(p)
Shutdown(p) == Stop(p) \/ Close(p) \/ Exit(p)
RecordSkipped(e) == SkipCreate(e) \/ SkipComplete(e) \/ SkipAudit(e)

Execute(e) ==
  \/ Enter(e) \/ Create(e) \/ Preflight(e) \/ Deadline(e) \/ AgentReturns(e)
  \/ Complete(e) \/ UpdateTimes(e) \/ Audit(e) \/ Release(e) \/ RecordSkipped(e)

ProcNext(p) ==
  \/ Launch(p) \/ Start(p) \/ Fire(p) \/ RunNow(p) \/ SetEnabled(p) \/ Shutdown(p)
  \/ Crash(p)

Next == (\E p \in Proc : ProcNext(p)) \/ (\E e \in Exec : Execute(e))

Spec == Init /\ [][Next]_vars

(* A live process runs its goroutines: each step of execute that does not   *)
(* wait for the outside world is taken, the deadline timer fires, and the   *)
(* agent returns once its context has expired.  Nothing makes the health    *)
(* check of the preflight return (Slack's client has no timeout and the     *)
(* context has no deadline), so Preflight has no fairness; nor have the     *)
(* user's Launch, the cron's Fire and the signal.                           *)
Prompt(e) ==
  \/ Enter(e) \/ Create(e) \/ Complete(e) \/ UpdateTimes(e) \/ Audit(e) \/ Release(e)
  \/ RecordSkipped(e) \/ Deadline(e) \/ (pc[e] = "late" /\ AgentReturns(e))

Fairness ==
  /\ \A e \in Exec : WF_vars(Prompt(e))
  /\ \A p \in Proc : WF_vars(Close(p) \/ Exit(p))

FairSpec == Spec /\ Fairness

(* The system when its commands are run one after another.                  *)
Solo == \A p, q \in Proc : Alive(p) /\ Alive(q) => p = q
SoloSpec == Init /\ [][Next /\ Solo']_vars

-----------------------------------------------------------------------------
(* Type invariant.                                                          *)

ProcTypeOK ==
  /\ phase \in [Proc -> Phase]
  /\ cmd \in [Proc -> [op : Op, job : Job \cup {None}]]
  /\ \A p \in Proc : cmd[p].op # "serve" => cmd[p].job \in Job
  /\ todo \in [Proc -> SUBSET Job]
  /\ seen \in [Proc -> [Job -> Stamp]]
  /\ entries \in [Proc -> SUBSET Job]
  /\ running \in [Proc -> SUBSET Job]

ExecTypeOK ==
  /\ pc \in [Exec -> Pc]
  /\ owner \in [Exec -> Proc \cup {None}]
  /\ job \in [Exec -> Job \cup {None}]
  /\ trigger \in [Exec -> {"cron", "manual"}]
  /\ \A e \in Exec : IF pc[e] = "idle" THEN owner[e] = None /\ job[e] = None
                                      ELSE owner[e] \in Proc /\ job[e] \in Job

StoreTypeOK ==
  /\ outcome \in [Exec -> Final]
  /\ lost \in SUBSET Exec
  /\ table \in [Job -> {"absent", "enabled", "disabled"}]
  /\ lastRun \in [Job -> Stamp]
  /\ nextRun \in [Job -> {"null", "zero", "instant"}]
  /\ row \in [Exec -> {"none", "running"} \cup Final]
  /\ audit \in [Exec -> {"none", "success", "error"}]
  /\ touched \in [Proc -> SUBSET Job]

(* Every variable holds a value of its declared kind; a call that has not   *)
(* been made belongs to no process and no job, one that has to both.        *)
TypeOK == ProcTypeOK /\ ExecTypeOK /\ StoreTypeOK

-----------------------------------------------------------------------------
(* Safety.                                                                  *)

(* e is inside execute's exclusive region: it took the flag and has not     *)
(* given it back.                                                           *)
Holds(e) ==
  /\ job[e] \notin AllowOverlap
  /\ pc[e] \in {"create", "check", "agent", "late", "complete", "times", "audit", "release"}

SameJob(e, f) == owner[e] = owner[f] /\ job[e] = job[f]

(* A job without allow_overlap never runs twice at once in one process,     *)
(* whatever mixture of cron firings and RunNow triggers it (scheduler.go    *)
(* 199-214).                                                                *)
NoOverlap ==
  \A e, f \in Exec : Holds(e) /\ Holds(f) /\ SameJob(e, f) => e = f

(* A trigger is turned away only while another call of the same job really  *)
(* is in progress in that process: no error path of an earlier run leaves   *)
(* the flag behind (lines 202-213, the returns at 226 and 232 included).    *)
SkipJustified ==
  [][\A e \in Exec :
       pc[e] = "enter" /\ pc'[e] = "skipCreate"
         => \E f \in Exec \ {e} : Holds(f) /\ SameJob(e, f)]_vars

(* No run that cron started finds the database closed or the process gone:  *)
(* Stop outlives them, and Stop comes before app.close in every command     *)
(* (scheduler.go 79-85; the order of the defers in main.go).                *)
CronRunsDrained ==
  \A p \in Proc : phase[p] \in {"closed", "exited"} => CronIdle(p)

(* A row that `jobs history` shows as running is one that a call is still   *)
(* working on (or was, when its process died), or whose Complete failed:    *)
(* no path through execute or recordSkipped forgets to close its row.       *)
RunningRowExplained ==
  \A e \in Exec : row[e] = "running" =>
    e \in lost \/ pc[e] \in {"check", "agent", "late", "complete", "skipComplete", "killed"}

(* job_runs and audit_log never contradict each other: a success in the     *)
(* audit log is a success in the history, and an error is a failed, timed   *)
(* out or skipped run, unless the history's own update was lost.            *)
AuditAgrees ==
  \A e \in Exec : audit[e] # "none" /\ e \notin lost =>
    IF audit[e] = "success" THEN row[e] = "success"
                            ELSE row[e] \in Final \ {"success"}

(* Whatever processes run at once, last_run_at moves when a run of the job  *)
(* ends, and else only where loadJobs writes back its copy (line 140) of a  *)
(* job whose last_run_at ANOTHER process changed after the copy was read:   *)
(* a starting process undoes nothing that was there when it read, and its   *)
(* own calls end no run before its copy is written.                         *)
RunEnded(j) == \E e \in Exec : job[e] = j /\ pc[e] = "times" /\ pc'[e] = "audit"

Overtaken(j) ==
  \E p \in Proc :
    /\ phase[p] = "registering" /\ j \in todo[p] \ todo'[p]
    /\ j \in touched[p] /\ lastRun'[j] = seen[p][j]

LastRunKept ==
  [][\A j \in Job : lastRun'[j] # lastRun[j] => RunEnded(j) \/ Overtaken(j)]_vars

(* The rows and audit entries of the runs are a JobLedger: a run whose      *)
(* Complete failed is abandoned there, whatever its row says.               *)
LedgerState(e) ==
  CASE e \in lost                           -> "abandoned"
    [] e \notin lost /\ row[e] = "none"     -> "unopened"
    [] e \notin lost /\ row[e] = "running"  -> "open"
    [] OTHER                                -> row[e]

Ledger == INSTANCE JobLedger WITH
  Run <- Exec, state <- [e \in Exec |-> LedgerState(e)], entry <- audit

(* The history and the audit log, seen together through that mapping, obey  *)
(* the ledger's rules in every interleaving, crash and failed write.        *)
LedgerSpec == Ledger!Spec

-----------------------------------------------------------------------------
(* Liveness, under FairSpec.                                                *)

(* A run that passed its preflight check ends: the deadline bounds the      *)
(* agent, and no failed write stops execute, so only the death of the       *)
(* process keeps it from returning and giving the flag back.                *)
RunEnds ==
  \A e \in Exec : pc[e] = "agent" ~> pc[e] \in {"done", "killed"}

(* `viaduct serve` and the commands shut down: from Stop a process reaches  *)
(* its exit, unless a cron run sits in a health check for ever.             *)
StopReturns ==
  \A p \in Proc : phase[p] = "stopping" ~>
    (~Alive(p) \/ [](\E e \in Exec : owner[e] = p /\ trigger[e] = "cron" /\ pc[e] = "check"))

-----------------------------------------------------------------------------
(* What the repository's texts say and the code does not do.                *)

(* main.go 187, "Disable a job": a job that `jobs disable` has disabled      *)
(* stays disabled until somebody enables it.                                *)
DisableSticks ==
  [][\A j \in Job :
       /\ table[j] = "disabled" /\ table'[j] = "enabled"
       /\ \E p \in Proc : cmd[p] = [op |-> "disable", job |-> j]
                       /\ phase[p] \in {"answered", "stopping", "closed", "exited"}
       => \E p \in Proc : phase[p] = "up" /\ cmd[p] = [op |-> "enable", job |-> j]]_vars

(* main.go 135, "Run a job immediately": when `jobs run` has returned, the  *)
(* run it triggered has been carried out.                                   *)
RunNowRuns ==
  \A e \in Exec : trigger[e] = "manual" /\ phase[owner[e]] = "exited" => pc[e] = "done"

(* scheduler.go 141, "failed to update next run time": what loadJobs writes *)
(* for a job it has scheduled is the time of its next run.                  *)
NextRunIsReal ==
  \A p \in Proc, j \in Job :
    phase[p] = "up" /\ j \in entries[p] => nextRun[j] # "zero"

=============================================================================
