-------------------------- MODULE SchedulerProofs --------------------------
(* Theorems about Scheduler, for any number of processes, calls and jobs.   *)
EXTENDS Scheduler, TLAPS

-----------------------------------------------------------------------------
(* Type correctness.                                                        *)

(* The initial state is well typed.                                         *)
LEMMA TypeInit == Init => TypeOK
<1> SUFFICES ASSUME Init PROVE TypeOK
  OBVIOUS
<1>1. ProcTypeOK
  BY ConfigAssumption DEF Init, ProcTypeOK, Op, Phase, Stamp
<1>2. ExecTypeOK
  BY DEF Init, ExecTypeOK, Pc
<1>3. lastRun \in [Job -> Stamp]
  BY DEF Init, Stamp
<1>4. nextRun \in [Job -> {"null", "zero", "instant"}]
  BY <1>3 DEF Init
<1>5. StoreTypeOK
  BY <1>3, <1>4 DEF Init, StoreTypeOK, Final
<1> QED
  BY <1>1, <1>2, <1>5 DEF TypeOK

(* A call that has been made and moves on keeps its process and its job.    *)
LEMMA TypeMove ==
  ASSUME TypeOK, NEW e \in Exec, pc[e] # "idle",
         NEW s \in Pc \ {"idle"}, Step(e, s), UNCHANGED <<owner, job, trigger>>
  PROVE  ExecTypeOK'
  BY DEF TypeOK, ExecTypeOK, Step

(* A new call gets both.                                                    *)
LEMMA TypeSpawn ==
  ASSUME TypeOK, NEW e \in Exec, NEW p \in Proc, NEW j \in Job,
         NEW src \in {"cron", "manual"}, Spawn(e, p, j, src)
  PROVE  ExecTypeOK'
  BY DEF TypeOK, ExecTypeOK, Spawn, Pc

(* Whatever ends a process leaves a well-typed state.                       *)
LEMMA TypeForget ==
  ASSUME TypeOK, NEW p \in Proc, Forget(p), NEW ph \in Phase, Goto(p, ph)
  PROVE  TypeOK'
<1> USE DEF TypeOK, Forget, Goto, jobsTable
<1>1. ProcTypeOK'
  BY DEF ProcTypeOK, Stamp
<1>2. ExecTypeOK'
  BY ConfigAssumption DEF ExecTypeOK, Pc
<1>3. StoreTypeOK'
  BY DEF StoreTypeOK, Final
<1> QED
  BY <1>1, <1>2, <1>3

(* Nor does a write of last_run_at disturb the history of such writes.      *)
LEMMA TypeTouch ==
  ASSUME TypeOK, NEW p \in Proc, Touch(p)
  PROVE  touched' \in [Proc -> SUBSET Job]
  BY DEF TypeOK, StoreTypeOK, Touch

(* Each step of a process preserves the types.                              *)
LEMMA TypeProc ==
  ASSUME TypeOK, NEW p \in Proc, ProcNext(p)
  PROVE  TypeOK'
<1> USE DEF TypeOK, Goto, execVars, procVars, jobsTable
<1>1. CASE Launch(p)
  <2>1. PICK c \in Command : cmd' = [cmd EXCEPT ![p] = c]
    BY <1>1 DEF Launch
  <2>2. c \in [op : Op, job : Job \cup {None}] /\ (c.op # "serve" => c.job \in Job)
    BY ConfigAssumption DEF Command, Op
  <2>3. ProcTypeOK'
    BY <1>1, <2>1, <2>2, ConfigAssumption DEF Launch, ProcTypeOK, Phase
  <2> QED
    BY <1>1, <2>3 DEF Launch, ExecTypeOK, StoreTypeOK
<1>2. CASE LoadUpsert(p)
  BY <1>2 DEF LoadUpsert, ProcTypeOK, ExecTypeOK, StoreTypeOK
<1>3. CASE LoadList(p)
  BY <1>3 DEF LoadList, Phase, ProcTypeOK, ExecTypeOK, StoreTypeOK
<1>4. CASE LoadRegister(p)
  <2>1. PICK j \in todo[p] : /\ entries' = [entries EXCEPT ![p] = @ \cup {j}]
                            /\ todo' = [todo EXCEPT ![p] = @ \ {j}]
                            /\ \/ /\ lastRun' = [lastRun EXCEPT ![j] = seen[p][j]]
                                  /\ nextRun' = [nextRun EXCEPT ![j] = "zero"]
                                  /\ Touch(p)
                               \/ UNCHANGED <<lastRun, nextRun, touched>>
    BY <1>4 DEF LoadRegister
  <2>2. j \in Job /\ seen[p][j] \in Stamp
    BY DEF ProcTypeOK
  <2>3. ProcTypeOK'
    BY <1>4, <2>1, <2>2 DEF LoadRegister, ProcTypeOK
  <2>4. touched' \in [Proc -> SUBSET Job]
    BY <2>1, TypeTouch DEF StoreTypeOK
  <2>5. ExecTypeOK' /\ StoreTypeOK'
    BY <1>4, <2>1, <2>2, <2>4 DEF LoadRegister, ExecTypeOK, StoreTypeOK
  <2> QED
    BY <2>3, <2>5
<1>5. CASE CronStart(p)
  BY <1>5 DEF CronStart, Phase, Stamp, ProcTypeOK, ExecTypeOK, StoreTypeOK
<1>6. CASE LoadFails(p)
  BY <1>6, TypeForget DEF LoadFails, Phase
<1>7. CASE Fire(p)
  <2>1. ExecTypeOK'
    BY <1>7, TypeSpawn DEF Fire, ProcTypeOK
  <2> QED
    BY <1>7, <2>1 DEF Fire, ProcTypeOK, StoreTypeOK
<1>8. CASE RunNow(p)
  <2>1. ProcTypeOK' /\ StoreTypeOK'
    BY <1>8 DEF RunNow, ProcTypeOK, StoreTypeOK, Phase
  <2>2. cmd[p].job \in Job
    BY <1>8 DEF RunNow, ProcTypeOK
  <2>3. CASE UNCHANGED <<pc, owner, job, trigger>>
    BY <2>1, <2>3 DEF ExecTypeOK
  <2>4. CASE \E e \in Exec : Spawn(e, p, cmd[p].job, "manual")
    BY <2>1, <2>2, <2>4, TypeSpawn
  <2> QED
    BY <1>8, <2>3, <2>4 DEF RunNow
<1>9. CASE SwitchWrite(p)
  <2>1. ProcTypeOK'
    BY <1>9 DEF SwitchWrite, ProcTypeOK, Phase
  <2>2. ExecTypeOK' /\ StoreTypeOK'
    BY <1>9 DEF SwitchWrite, ExecTypeOK, StoreTypeOK
  <2> QED
    BY <2>1, <2>2
<1>10. CASE SwitchEntry(p)
  <2>1. cmd[p].job \in Job
    BY <1>10 DEF SwitchEntry, ProcTypeOK
  <2>2. entries' \in [Proc -> SUBSET Job]
    BY <1>10, <2>1 DEF SwitchEntry, ProcTypeOK
  <2>3. ProcTypeOK'
    BY <1>10, <2>2 DEF SwitchEntry, ProcTypeOK, Phase
  <2> QED
    BY <1>10, <2>3 DEF SwitchEntry, ExecTypeOK, StoreTypeOK
<1>11. CASE Stop(p) \/ Close(p)
  <2>1. /\ UNCHANGED <<pc, owner, job, trigger>> /\ ExecTypeOK' /\ StoreTypeOK'
    BY <1>11 DEF Stop, Close, ExecTypeOK, StoreTypeOK
  <2>2. CASE Stop(p)
    BY <2>1, <2>2 DEF Stop, Phase, ProcTypeOK
  <2>3. CASE Close(p)
    BY <2>1, <2>3 DEF Close, Phase, ProcTypeOK
  <2> QED
    BY <1>11, <2>2, <2>3
<1>12. CASE Exit(p) \/ Crash(p)
  BY <1>12, TypeForget DEF Exit, Crash, Phase
<1> QED
  BY <1>1, <1>2, <1>3, <1>4, <1>5, <1>6, <1>7, <1>8, <1>9, <1>10, <1>11, <1>12
     DEF ProcNext, Start, SetEnabled, Shutdown

(* Each step of execute preserves the types.                                *)
LEMMA TypeExec ==
  ASSUME TypeOK, NEW e \in Exec, Execute(e)
  PROVE  TypeOK'
<1> USE DEF procVars, jobsTable
<1>0. ProcTypeOK /\ ExecTypeOK /\ StoreTypeOK
  BY DEF TypeOK
<1>1. CASE Enter(e)
  <2>1. ExecTypeOK'
    BY <1>1, TypeMove DEF Enter, EnterOpen, EnterTake, EnterSkip, At, Pc
  <2>2. owner[e] \in Proc /\ job[e] \in Job
    BY <1>0, <1>1 DEF Enter, EnterOpen, EnterTake, EnterSkip, At, ExecTypeOK
  <2>3. running' \in [Proc -> SUBSET Job]
    <3>1. running' = running \/ running' = [running EXCEPT ![owner[e]] = @ \cup {job[e]}]
      BY <1>1 DEF Enter, EnterOpen, EnterTake, EnterSkip
    <3>2. running \in [Proc -> SUBSET Job]
      BY <1>0 DEF ProcTypeOK
    <3>3. running[owner[e]] \cup {job[e]} \in SUBSET Job
      BY <2>2, <3>2
    <3> QED
      BY <2>2, <3>1, <3>2, <3>3
  <2> QED
    BY <1>0, <1>1, <2>1, <2>3 DEF Enter, TypeOK, ProcTypeOK, StoreTypeOK
<1>2. CASE Create(e)
  <2>1. ExecTypeOK'
    BY <1>2, TypeMove DEF Create, Unwind, At, Pc
  <2> QED
    BY <1>0, <1>2, <2>1 DEF Create, TypeOK, ProcTypeOK, StoreTypeOK
<1>3. CASE Preflight(e)
  <2>1. ExecTypeOK'
    BY <1>3, TypeMove DEF Preflight, At, Pc
  <2> QED
    BY <1>0, <1>3, <2>1 DEF Preflight, TypeOK, ProcTypeOK, StoreTypeOK, Final
<1>4. CASE Deadline(e)
  <2>1. ExecTypeOK'
    BY <1>4, TypeMove DEF Deadline, At, Pc
  <2> QED
    BY <1>0, <1>4, <2>1 DEF Deadline, TypeOK, ProcTypeOK, StoreTypeOK
<1>5. CASE AgentReturns(e)
  <2>1. ExecTypeOK'
    BY <1>5, TypeMove DEF AgentReturns, At, Pc
  <2> QED
    BY <1>0, <1>5, <2>1 DEF AgentReturns, Verdicts, TypeOK, ProcTypeOK, StoreTypeOK, Final
<1>6. CASE Complete(e)
  <2>1. ExecTypeOK'
    BY <1>6, TypeMove DEF Complete, At, Pc
  <2> QED
    BY <1>0, <1>6, <2>1 DEF Complete, CloseRow, TypeOK, ProcTypeOK, StoreTypeOK
<1>7. CASE UpdateTimes(e)
  <2>1. ExecTypeOK'
    BY <1>7, TypeMove DEF UpdateTimes, At, Pc
  <2>2. lastRun' \in [Job -> Stamp] /\ nextRun' \in [Job -> {"null", "zero", "instant"}]
    BY <1>0, <1>7 DEF UpdateTimes, NextSeen, Stamp, StoreTypeOK
  <2>3. touched' \in [Proc -> SUBSET Job]
    <3>1. owner[e] \in Proc
      BY <1>0, <1>7 DEF UpdateTimes, At, ExecTypeOK
    <3> QED
      BY <1>0, <1>7, <3>1, TypeTouch DEF UpdateTimes, StoreTypeOK
  <2> QED
    BY <1>0, <1>7, <2>1, <2>2, <2>3 DEF UpdateTimes, TypeOK, ProcTypeOK, StoreTypeOK
<1>8. CASE Audit(e)
  <2>1. ExecTypeOK'
    BY <1>8, TypeMove DEF Audit, Unwind, At, Pc
  <2> QED
    BY <1>0, <1>8, <2>1 DEF Audit, Insert, Verdict, TypeOK, ProcTypeOK, StoreTypeOK
<1>9. CASE Release(e)
  <2>1. ExecTypeOK'
    BY <1>9, TypeMove DEF Release, At, Pc
  <2> QED
    BY <1>0, <1>9, <2>1 DEF Release, TypeOK, ProcTypeOK, StoreTypeOK
<1>10. CASE RecordSkipped(e)
  <2>1. ExecTypeOK'
    BY <1>10, TypeMove DEF RecordSkipped, SkipCreate, SkipComplete, SkipAudit, At, Pc
  <2>2. UNCHANGED <<phase, cmd, todo, seen, entries, running, table, lastRun, nextRun, touched>>
    BY <1>10 DEF RecordSkipped, SkipCreate, SkipComplete, SkipAudit
  <2>3. outcome' \in [Exec -> Final] /\ row' \in [Exec -> {"none", "running"} \cup Final]
    BY <1>0, <1>10 DEF RecordSkipped, SkipCreate, SkipComplete, SkipAudit, CloseRow,
                       StoreTypeOK, Final
  <2>4. lost' \in SUBSET Exec /\ audit' \in [Exec -> {"none", "success", "error"}]
    BY <1>0, <1>10 DEF RecordSkipped, SkipCreate, SkipComplete, SkipAudit, CloseRow,
                       Insert, Verdict, StoreTypeOK
  <2> QED
    BY <1>0, <2>1, <2>2, <2>3, <2>4 DEF TypeOK, ProcTypeOK, StoreTypeOK
<1> QED
  BY <1>1, <1>2, <1>3, <1>4, <1>5, <1>6, <1>7, <1>8, <1>9, <1>10 DEF Execute

(* Every step of the system preserves the types.                            *)
LEMMA TypeStep == TypeOK /\ [Next]_vars => TypeOK'
<1>1. ASSUME TypeOK, UNCHANGED vars PROVE TypeOK'
  BY <1>1 DEF TypeOK, ProcTypeOK, ExecTypeOK, StoreTypeOK, vars
<1> QED
  BY <1>1, TypeProc, TypeExec DEF Next

(* Every reachable state is well typed (TypeOK), whatever the configuration *)
(* and however many processes share the store.                              *)
THEOREM TypeCorrect == Spec => []TypeOK
  BY TypeInit, TypeStep, PTL DEF Spec

-----------------------------------------------------------------------------
(* What the steps do to the calls: three kinds of process step, one kind of *)
(* call step.                                                               *)

Starts(p) ==
  /\ CronRunning(p)
  /\ \E e \in Exec, j \in Job, src \in {"cron", "manual"} : Spawn(e, p, j, src)
  /\ UNCHANGED <<running, outcome, lost, row, audit>>

Ends(p) == Forget(p) /\ \E ph \in {"exited", "failed", "dead"} : Goto(p, ph)

Quiet == UNCHANGED <<running, execVars, row, audit>>

(* A step of a process starts a call, ends the process, or leaves the calls *)
(* alone.                                                                   *)
LEMMA ProcKinds ==
  ASSUME TypeOK, NEW p \in Proc, ProcNext(p)
  PROVE  Starts(p) \/ Ends(p) \/ Quiet
<1> USE DEF execVars, procVars, jobsTable
<1>1. CASE Launch(p) \/ LoadUpsert(p) \/ LoadList(p) \/ LoadRegister(p) \/ CronStart(p)
  BY <1>1 DEF Launch, LoadUpsert, LoadList, LoadRegister, CronStart, Quiet
<1>2. CASE LoadFails(p) \/ Exit(p) \/ Crash(p)
  BY <1>2 DEF LoadFails, Exit, Crash, Ends
<1>3. CASE Fire(p)
  BY <1>3 DEF Fire, Starts, TypeOK, ProcTypeOK
<1>4. CASE RunNow(p)
  BY <1>4 DEF RunNow, Starts, Quiet, CronRunning, TypeOK, ProcTypeOK
<1>5. CASE SwitchWrite(p) \/ SwitchEntry(p) \/ Stop(p) \/ Close(p)
  BY <1>5 DEF SwitchWrite, SwitchEntry, Stop, Close, Quiet
<1> QED
  BY <1>1, <1>2, <1>3, <1>4, <1>5 DEF ProcNext, Start, SetEnabled, Shutdown

(* A step of a call moves that call alone, and no process.                  *)
LEMMA ExecFrame ==
  ASSUME NEW e \in Exec, Execute(e)
  PROVE  /\ UNCHANGED <<phase, owner, job, trigger>>
         /\ pc[e] \notin {"idle", "done", "killed"}
         /\ \E s \in Pc \ {"idle", "killed"} : Step(e, s)
<1> USE DEF procVars, jobsTable, At, Pc
<1>1. CASE Enter(e) \/ Create(e) \/ Preflight(e) \/ Deadline(e) \/ AgentReturns(e)
  BY <1>1 DEF Enter, EnterOpen, EnterTake, EnterSkip, Create, Unwind, Preflight, Deadline,
              AgentReturns
<1>2. CASE Complete(e) \/ UpdateTimes(e) \/ Audit(e) \/ Release(e)
  BY <1>2 DEF Complete, UpdateTimes, Audit, Unwind, Release
<1>3. CASE RecordSkipped(e)
  BY <1>3 DEF RecordSkipped, SkipCreate, SkipComplete, SkipAudit
<1> QED
  BY <1>1, <1>2, <1>3 DEF Execute

-----------------------------------------------------------------------------
(* The overlap flag.                                                        *)

(* The flag of a job is set exactly while one call holds it: mutual         *)
(* exclusion alone is not inductive, since a stale or a missing flag would  *)
(* break it, or the skipping, one step later.                               *)
FlagInv ==
  /\ NoOverlap
  /\ \A e \in Exec : Holds(e) => job[e] \in running[owner[e]]
  /\ \A p \in Proc : \A j \in running[p] :
       \E e \in Exec : Holds(e) /\ owner[e] = p /\ job[e] = j
  /\ \A e \in Exec : pc[e] = "release" => job[e] \notin AllowOverlap

(* At the start nobody holds a flag and none is set.                        *)
LEMMA FlagInit == Init => FlagInv
  BY DEF Init, FlagInv, NoOverlap, Holds

(* A step that moves one call, and no flag, keeps the flags right if it     *)
(* moves the call within the region or outside it.                          *)
LEMMA FlagKeep ==
  ASSUME TypeOK, FlagInv, NEW e \in Exec, NEW s \in Pc, Step(e, s),
         UNCHANGED <<owner, job, running>>,
         Holds(e)' <=> Holds(e),
         s = "release" => job[e] \notin AllowOverlap
  PROVE  FlagInv'
<1>1. \A f \in Exec : Holds(f)' <=> Holds(f)
  BY DEF TypeOK, ExecTypeOK, Step, Holds
<1>2. \A f \in Exec : pc'[f] = "release" => job[f] \notin AllowOverlap
  BY DEF TypeOK, ExecTypeOK, Step, FlagInv
<1> QED
  BY <1>1, <1>2 DEF FlagInv, NoOverlap, SameJob

(* A step of a process keeps flags and holders in agreement: a crash clears *)
(* both.                                                                    *)
LEMMA FlagProc ==
  ASSUME TypeOK, FlagInv, NEW p \in Proc, ProcNext(p)
  PROVE  FlagInv'
<1>1. CASE Quiet
  BY <1>1 DEF Quiet, execVars, FlagInv, NoOverlap, Holds, SameJob
<1>2. CASE Starts(p)
  <2>1. PICK e \in Exec, j \in Job, src \in {"cron", "manual"} : Spawn(e, p, j, src)
    BY <1>2 DEF Starts
  <2>2. /\ ~Holds(e) /\ ~Holds(e)'
        /\ \A f \in Exec \ {e} : /\ Holds(f)' <=> Holds(f)
                                 /\ owner'[f] = owner[f] /\ job'[f] = job[f]
                                 /\ pc'[f] = pc[f]
        /\ pc'[e] = "enter"
    BY <2>1 DEF Spawn, Holds, TypeOK, ExecTypeOK
  <2>3. running' = running
    BY <1>2 DEF Starts
  <2>4. NoOverlap'
    BY <2>2 DEF FlagInv, NoOverlap, SameJob
  <2> QED
    BY <2>2, <2>3, <2>4 DEF FlagInv
<1>3. CASE Ends(p)
  <2>1. UNCHANGED <<owner, job>> /\ running' = [running EXCEPT ![p] = {}]
    BY <1>3 DEF Ends, Forget
  <2>2. \A e \in Exec : pc'[e] = IF owner[e] = p /\ pc[e] # "done" THEN "killed" ELSE pc[e]
    BY <1>3 DEF Ends, Forget
  <2>3. \A e \in Exec : Holds(e)' => Holds(e) /\ owner[e] # p /\ owner[e] \in Proc
    BY <2>1, <2>2 DEF Holds, TypeOK, ExecTypeOK
  <2>4. \A e \in Exec : Holds(e) /\ owner[e] # p => Holds(e)'
    BY <2>1, <2>2 DEF Holds
  <2>5. /\ running'[p] = {}
        /\ \A q \in Proc \ {p} : running'[q] = running[q]
    BY <2>1 DEF TypeOK, ProcTypeOK
  <2>6. NoOverlap'
    BY <2>1, <2>3 DEF FlagInv, NoOverlap, SameJob
  <2>7. \A e \in Exec : Holds(e)' => job'[e] \in running'[owner'[e]]
    BY <2>1, <2>3, <2>5 DEF FlagInv
  <2>8. \A q \in Proc : \A j \in running'[q] :
          \E e \in Exec : Holds(e)' /\ owner'[e] = q /\ job'[e] = j
    BY <2>1, <2>4, <2>5 DEF FlagInv
  <2>9. \A e \in Exec : pc'[e] = "release" => job'[e] \notin AllowOverlap
    BY <2>1, <2>2 DEF FlagInv
  <2> QED
    BY <2>6, <2>7, <2>8, <2>9 DEF FlagInv
<1> QED
  BY <1>1, <1>2, <1>3, ProcKinds

(* Taking the flag: nobody held it, so the taker is its only holder.        *)
LEMMA FlagTake ==
  ASSUME TypeOK, FlagInv, NEW e \in Exec, EnterTake(e), UNCHANGED <<owner, job>>
  PROVE  FlagInv'
<1>1. /\ job[e] \notin AllowOverlap /\ job[e] \notin running[owner[e]]
      /\ owner[e] \in Proc /\ job[e] \in Job
      /\ pc[e] = "enter" /\ pc' = [pc EXCEPT ![e] = "create"]
      /\ running' = [running EXCEPT ![owner[e]] = @ \cup {job[e]}]
  BY DEF EnterTake, At, Step, TypeOK, ExecTypeOK
<1>2. /\ Holds(e)'
      /\ \A f \in Exec \ {e} : (Holds(f)' <=> Holds(f)) /\ pc'[f] = pc[f]
      /\ pc'[e] = "create"
  BY <1>1 DEF Holds, TypeOK, ExecTypeOK
<1>3. \A f \in Exec : Holds(f) => ~SameJob(e, f) /\ owner[f] \in Proc
  BY <1>1 DEF FlagInv, SameJob, Holds, TypeOK, ExecTypeOK
<1>4. NoOverlap'
  BY <1>2, <1>3 DEF FlagInv, NoOverlap, SameJob
<1>5. /\ running'[owner[e]] = running[owner[e]] \cup {job[e]}
      /\ \A q \in Proc \ {owner[e]} : running'[q] = running[q]
  BY <1>1 DEF TypeOK, ProcTypeOK
<1>6. \A f \in Exec : Holds(f)' => job'[f] \in running'[owner'[f]]
  BY <1>2, <1>3, <1>5 DEF FlagInv
<1>7. \A q \in Proc : \A j \in running'[q] :
        \E f \in Exec : Holds(f)' /\ owner'[f] = q /\ job'[f] = j
  <2> SUFFICES ASSUME NEW q \in Proc, NEW j \in running'[q]
               PROVE  \E f \in Exec : Holds(f)' /\ owner'[f] = q /\ job'[f] = j
    OBVIOUS
  <2>1. CASE q = owner[e] /\ j = job[e]
    BY <1>2, <2>1
  <2>2. CASE ~(q = owner[e] /\ j = job[e])
    <3>1. j \in running[q]
      BY <1>5, <2>2
    <3>2. PICK f \in Exec : Holds(f) /\ owner[f] = q /\ job[f] = j
      BY <3>1 DEF FlagInv
    <3> QED
      BY <1>2, <2>2, <3>2
  <2> QED
    BY <2>1, <2>2
<1> QED
  BY <1>2, <1>4, <1>6, <1>7 DEF FlagInv

(* Giving the flag back: nobody else held it.                               *)
LEMMA FlagRelease ==
  ASSUME TypeOK, FlagInv, NEW e \in Exec, Release(e)
  PROVE  FlagInv'
<1>1. /\ pc[e] = "release" /\ pc' = [pc EXCEPT ![e] = "done"]
      /\ owner[e] \in Proc /\ UNCHANGED <<owner, job>>
      /\ running' = [running EXCEPT ![owner[e]] = @ \ {job[e]}]
  BY DEF Release, At, Step, TypeOK, ExecTypeOK
<1>2. /\ Holds(e) /\ ~Holds(e)'
      /\ \A f \in Exec \ {e} : (Holds(f)' <=> Holds(f)) /\ pc'[f] = pc[f]
      /\ pc'[e] = "done"
  BY <1>1 DEF Holds, FlagInv, TypeOK, ExecTypeOK
<1>3. \A f \in Exec \ {e} : Holds(f) => ~SameJob(e, f) /\ owner[f] \in Proc
  BY <1>2 DEF FlagInv, NoOverlap, Holds, TypeOK, ExecTypeOK
<1>4. NoOverlap'
  BY <1>1, <1>2 DEF FlagInv, NoOverlap, SameJob
<1>5. /\ running'[owner[e]] = running[owner[e]] \ {job[e]}
      /\ \A q \in Proc \ {owner[e]} : running'[q] = running[q]
  BY <1>1 DEF TypeOK, ProcTypeOK
<1>6. \A f \in Exec : Holds(f)' => job'[f] \in running'[owner'[f]]
  BY <1>1, <1>2, <1>3, <1>5 DEF FlagInv, SameJob
<1>7. \A q \in Proc : \A j \in running'[q] :
        \E f \in Exec : Holds(f)' /\ owner'[f] = q /\ job'[f] = j
  <2> SUFFICES ASSUME NEW q \in Proc, NEW j \in running'[q]
               PROVE  \E f \in Exec : Holds(f)' /\ owner'[f] = q /\ job'[f] = j
    OBVIOUS
  <2>1. j \in running[q] /\ ~(q = owner[e] /\ j = job[e])
    BY <1>5
  <2>2. PICK f \in Exec : Holds(f) /\ owner[f] = q /\ job[f] = j
    BY <2>1 DEF FlagInv
  <2> QED
    BY <1>1, <1>2, <2>1, <2>2
<1> QED
  BY <1>1, <1>2, <1>4, <1>6, <1>7 DEF FlagInv

(* A step of execute does too: only Enter and Release touch the flag.       *)
LEMMA FlagExec ==
  ASSUME TypeOK, FlagInv, NEW e \in Exec, Execute(e)
  PROVE  FlagInv'
<1> USE DEF procVars
<1>0. UNCHANGED <<owner, job>> /\ pc \in [Exec -> Pc]
  BY ExecFrame DEF TypeOK, ExecTypeOK
<1>1. CASE Enter(e)
  <2>1. CASE EnterTake(e)
    BY <1>0, <2>1, FlagTake
  <2>2. CASE EnterOpen(e)
    BY <1>0, <2>2, FlagKeep DEF EnterOpen, At, Step, Holds, Pc
  <2>3. CASE EnterSkip(e)
    BY <1>0, <2>3, FlagKeep DEF EnterSkip, At, Step, Holds, Pc
  <2> QED
    BY <1>1, <2>1, <2>2, <2>3 DEF Enter
<1>2. CASE Create(e)
  BY <1>0, <1>2, FlagKeep DEF Create, Unwind, At, Step, Holds, Pc
<1>3. CASE Preflight(e)
  BY <1>0, <1>3, FlagKeep DEF Preflight, At, Step, Holds, Pc
<1>4. CASE Deadline(e)
  BY <1>0, <1>4, FlagKeep DEF Deadline, At, Step, Holds, Pc
<1>5. CASE AgentReturns(e)
  BY <1>0, <1>5, FlagKeep DEF AgentReturns, At, Step, Holds, Pc
<1>6. CASE Complete(e)
  BY <1>0, <1>6, FlagKeep DEF Complete, At, Step, Holds, Pc
<1>7. CASE UpdateTimes(e)
  BY <1>0, <1>7, FlagKeep DEF UpdateTimes, At, Step, Holds, Pc
<1>8. CASE Audit(e)
  BY <1>0, <1>8, FlagKeep DEF Audit, Unwind, At, Step, Holds, Pc
<1>9. CASE Release(e)
  BY <1>9, FlagRelease
<1>10. CASE RecordSkipped(e)
  BY <1>0, <1>10, FlagKeep DEF RecordSkipped, SkipCreate, SkipComplete, SkipAudit, At, Step,
                              Holds, Pc
<1> QED
  BY <1>1, <1>2, <1>3, <1>4, <1>5, <1>6, <1>7, <1>8, <1>9, <1>10 DEF Execute

(* Every step of the system preserves FlagInv.                              *)
LEMMA FlagStep == TypeOK /\ FlagInv /\ [Next]_vars => FlagInv'
<1>1. ASSUME FlagInv, UNCHANGED vars PROVE FlagInv'
  BY <1>1 DEF FlagInv, NoOverlap, SameJob, Holds, vars
<1> QED
  BY <1>1, FlagProc, FlagExec DEF Next

(* The flags and their holders agree in every reachable state.              *)
LEMMA FlagCorrect == Spec => []FlagInv
  BY FlagInit, FlagStep, TypeCorrect, PTL DEF Spec

(* In one process a job without allow_overlap never runs twice at once      *)
(* (NoOverlap), for any number of triggers, jobs, failed writes and crashes.*)
THEOREM Exclusion == Spec => []NoOverlap
<1>1. FlagInv => NoOverlap
  BY DEF FlagInv
<1> QED
  BY <1>1, FlagCorrect, PTL

(* A trigger is skipped only while another call of the job holds the flag   *)
(* (SkipJustified): no path through execute leaks it.                       *)
THEOREM SkipsAreJustified == Spec => SkipJustified
<1> DEFINE Justified == \A e \in Exec :
       pc[e] = "enter" /\ pc'[e] = "skipCreate"
         => \E f \in Exec \ {e} : Holds(f) /\ SameJob(e, f)
<1>1. TypeOK /\ FlagInv /\ [Next]_vars => [Justified]_vars
  <2> SUFFICES ASSUME TypeOK, FlagInv, Next, NEW e \in Exec,
                      pc[e] = "enter", pc'[e] = "skipCreate"
               PROVE  \E f \in Exec \ {e} : Holds(f) /\ SameJob(e, f)
    OBVIOUS
  <2>1. ASSUME NEW p \in Proc, ProcNext(p) PROVE FALSE
    BY <2>1, ProcKinds DEF Quiet, execVars, Starts, Spawn, Ends, Forget, TypeOK, ExecTypeOK
  <2>2. PICK g \in Exec : Execute(g)
    BY <2>1 DEF Next
  <2>3. g = e
    BY <2>2, ExecFrame DEF Step, TypeOK, ExecTypeOK
  <2>4. EnterSkip(e)
    BY <2>2, <2>3 DEF Execute, Enter, EnterOpen, EnterTake, Create, Preflight, Deadline,
       AgentReturns, Complete, UpdateTimes, Audit, Release, RecordSkipped, SkipCreate,
       SkipComplete, SkipAudit, At, Step, TypeOK, ExecTypeOK
  <2>5. owner[e] \in Proc /\ job[e] \in running[owner[e]]
    BY <2>4 DEF EnterSkip, At, TypeOK, ExecTypeOK
  <2>6. PICK f \in Exec : Holds(f) /\ owner[f] = owner[e] /\ job[f] = job[e]
    BY <2>5 DEF FlagInv
  <2> QED
    BY <2>6 DEF Holds, SameJob
<1> QED
  BY <1>1, TypeCorrect, FlagCorrect, PTL DEF Spec, SkipJustified

-----------------------------------------------------------------------------
(* Shutdown.                                                                *)

(* A process that has not started its cron has no calls yet; one that has   *)
(* closed its store has no cron call left.                                  *)
DrainInv ==
  /\ CronRunsDrained
  /\ \A p \in Proc : phase[p] \in {"off", "loading", "registering"} =>
       \A e \in Exec : owner[e] # p

(* At the start no process has shut down.                                   *)
LEMMA DrainInit == Init => DrainInv
  BY ConfigAssumption DEF Init, DrainInv, CronRunsDrained

(* A step of a call cannot reopen what cron.Stop waited for.                *)
LEMMA DrainExec ==
  ASSUME TypeOK, DrainInv, NEW e \in Exec, Execute(e)
  PROVE  DrainInv'
<1>1. /\ UNCHANGED <<phase, owner, trigger>>
      /\ pc[e] # "done" /\ \A f \in Exec \ {e} : pc'[f] = pc[f]
  BY ExecFrame DEF Step, TypeOK, ExecTypeOK
<1> QED
  BY <1>1 DEF DrainInv, CronRunsDrained, CronIdle

(* A step of a process: Close waits, and nothing is spawned after it.       *)
LEMMA DrainProc ==
  ASSUME TypeOK, DrainInv, NEW p \in Proc, ProcNext(p)
  PROVE  DrainInv'
<1> USE DEF Goto, execVars, procVars, jobsTable
<1> DEFINE Young == {"off", "loading", "registering"}
<1>1. CASE Launch(p) \/ LoadUpsert(p) \/ LoadList(p) \/ LoadRegister(p)
  <2>1. /\ UNCHANGED <<pc, owner, trigger>>
        /\ phase[p] \in Young /\ phase'[p] \in Young
        /\ \A q \in Proc \ {p} : phase'[q] = phase[q]
    BY <1>1 DEF Launch, LoadUpsert, LoadList, LoadRegister, TypeOK, ProcTypeOK
  <2> QED
    BY <2>1 DEF DrainInv, CronRunsDrained, CronIdle
<1>2. CASE CronStart(p) \/ SwitchWrite(p) \/ SwitchEntry(p) \/ Stop(p)
  <2>1. /\ UNCHANGED <<pc, owner, trigger>>
        /\ phase'[p] \in {"up", "switching", "answered", "stopping"}
        /\ \A q \in Proc \ {p} : phase'[q] = phase[q]
    BY <1>2 DEF CronStart, SwitchWrite, SwitchEntry, Stop, TypeOK, ProcTypeOK
  <2> QED
    BY <2>1 DEF DrainInv, CronRunsDrained, CronIdle
<1>3. CASE Close(p)
  <2>1. /\ UNCHANGED <<pc, owner, trigger>> /\ CronIdle(p)
        /\ phase'[p] = "closed"
        /\ \A q \in Proc \ {p} : phase'[q] = phase[q]
    BY <1>3 DEF Close, TypeOK, ProcTypeOK
  <2> QED
    BY <2>1 DEF DrainInv, CronRunsDrained, CronIdle
<1>4. CASE Fire(p) \/ RunNow(p)
  <2>1. /\ phase[p] \in {"up", "switching", "answered"}
        /\ phase'[p] \in {"up", "switching", "answered"}
        /\ \A q \in Proc \ {p} : phase'[q] = phase[q]
    BY <1>4 DEF Fire, RunNow, CronRunning, TypeOK, ProcTypeOK
  <2>2. \A f \in Exec : \/ owner'[f] = p
                        \/ owner'[f] = owner[f] /\ trigger'[f] = trigger[f] /\ pc'[f] = pc[f]
    BY <1>4 DEF Fire, RunNow, Spawn, TypeOK, ExecTypeOK
  <2> QED
    BY <2>1, <2>2 DEF DrainInv, CronRunsDrained, CronIdle
<1>5. CASE LoadFails(p) \/ Exit(p) \/ Crash(p)
  <2>1. /\ UNCHANGED <<owner, trigger>>
        /\ phase'[p] \in {"failed", "exited", "dead"}
        /\ phase'[p] = "exited" => phase[p] = "closed"
        /\ \A q \in Proc \ {p} : phase'[q] = phase[q]
        /\ \A f \in Exec : owner[f] # p \/ pc[f] = "done" => pc'[f] = pc[f]
    BY <1>5 DEF LoadFails, Exit, Crash, Forget, TypeOK, ProcTypeOK, ExecTypeOK
  <2> QED
    BY <2>1 DEF DrainInv, CronRunsDrained, CronIdle
<1> QED
  BY <1>1, <1>2, <1>3, <1>4, <1>5 DEF ProcNext, Start, SetEnabled, Shutdown

(* Every step of the system preserves DrainInv.                             *)
LEMMA DrainStep == TypeOK /\ DrainInv /\ [Next]_vars => DrainInv'
<1>1. ASSUME DrainInv, UNCHANGED vars PROVE DrainInv'
  BY <1>1 DEF DrainInv, CronRunsDrained, CronIdle, vars
<1> QED
  BY <1>1, DrainProc, DrainExec DEF Next

(* No run that cron started is cut off by a clean shutdown, or meets a      *)
(* closed store (CronRunsDrained).                                          *)
THEOREM Drained == Spec => []CronRunsDrained
<1>1. DrainInv => CronRunsDrained
  BY DEF DrainInv
<1> QED
  BY <1>1, DrainInit, DrainStep, TypeCorrect, PTL DEF Spec

-----------------------------------------------------------------------------
(* The rows of job_runs and the audit entries.                              *)

(* Where a call is tells what it has written: a closed row is final before  *)
(* the audit entry, and carries the status the entry is derived from.       *)
RowOf(e) ==
  /\ pc[e] \in {"idle", "enter", "create", "skipCreate"} => row[e] = "none"
  /\ pc[e] \in {"check", "agent", "late", "complete", "skipComplete"} =>
       row[e] = "running" /\ e \notin lost
  /\ pc[e] = "skipComplete" => outcome[e] = "skipped"
  /\ pc[e] \in {"times", "audit", "skipAudit"} => e \in lost \/ row[e] = outcome[e]
  /\ pc[e] \notin {"release", "done", "killed"} => audit[e] = "none"
  /\ e \in lost => row[e] = "running"
  /\ row[e] = "running" =>
       e \in lost \/ pc[e] \in {"check", "agent", "late", "complete", "skipComplete", "killed"}
  /\ audit[e] # "none" /\ e \notin lost =>
       IF audit[e] = "success" THEN row[e] = "success" ELSE row[e] \in Final \ {"success"}

RowInv == \A e \in Exec : RowOf(e)

(* At the start no call has a row.                                          *)
LEMMA RowInit == Init => RowInv
  BY DEF Init, RowInv, RowOf

(* A step of a process keeps every row explained: the calls it cuts off are *)
(* killed.                                                                  *)
LEMMA RowProc ==
  ASSUME TypeOK, RowInv, NEW p \in Proc, ProcNext(p)
  PROVE  RowInv'
<1>1. CASE Quiet
  BY <1>1 DEF Quiet, execVars, RowInv, RowOf
<1>2. CASE Starts(p)
  BY <1>2 DEF Starts, Spawn, TypeOK, ExecTypeOK, RowInv, RowOf
<1>3. CASE Ends(p)
  <2>1. /\ UNCHANGED <<lost, row, audit>>
        /\ pc' = [e \in Exec |-> IF owner[e] = p /\ pc[e] # "done" THEN "killed" ELSE pc[e]]
        /\ outcome' = [e \in Exec |->
                         IF owner[e] = p /\ pc[e] # "done" THEN "success" ELSE outcome[e]]
    BY <1>3 DEF Ends, Forget
  <2> QED
    BY <2>1 DEF RowInv, RowOf
<1> QED
  BY <1>1, <1>2, <1>3, ProcKinds

(* A step of a call keeps its row in agreement with where the call is.      *)
LEMMA RowExec ==
  ASSUME TypeOK, RowInv, NEW e \in Exec, Execute(e)
  PROVE  RowInv'
<1>1. \A f \in Exec \ {e} : /\ pc'[f] = pc[f] /\ outcome'[f] = outcome[f]
                           /\ row'[f] = row[f] /\ audit'[f] = audit[f]
                           /\ (f \in lost' <=> f \in lost)
  <2>1. \A f \in Exec \ {e} : pc'[f] = pc[f]
    BY ExecFrame DEF Step, TypeOK, ExecTypeOK
  <2>2. CASE Enter(e) \/ Create(e) \/ Preflight(e) \/ Deadline(e) \/ AgentReturns(e)
    BY <2>1, <2>2 DEF Enter, Create, Preflight, Deadline, AgentReturns, TypeOK, StoreTypeOK
  <2>3. CASE Complete(e) \/ UpdateTimes(e) \/ Audit(e) \/ Release(e)
    BY <2>1, <2>3 DEF Complete, CloseRow, UpdateTimes, Audit, Insert, Release, TypeOK, StoreTypeOK
  <2>4. CASE RecordSkipped(e)
    BY <2>1, <2>4 DEF RecordSkipped, SkipCreate, SkipComplete, SkipAudit, CloseRow, Insert,
                      TypeOK, StoreTypeOK
  <2> QED
    BY <2>2, <2>3, <2>4 DEF Execute
<1>2. RowOf(e)'
  <2> USE DEF At, Step, TypeOK, ExecTypeOK, StoreTypeOK, RowInv, RowOf
  <2>1. CASE Enter(e)
    BY <2>1 DEF Enter, EnterOpen, EnterTake, EnterSkip
  <2>2. CASE Create(e)
    BY <2>2 DEF Create, Unwind
  <2>3. CASE Preflight(e)
    BY <2>3 DEF Preflight
  <2>4. CASE Deadline(e)
    BY <2>4 DEF Deadline
  <2>5. CASE AgentReturns(e)
    BY <2>5 DEF AgentReturns, Verdicts
  <2>6. CASE Complete(e)
    BY <2>6 DEF Complete, CloseRow, Final
  <2>7. CASE UpdateTimes(e)
    BY <2>7 DEF UpdateTimes
  <2>8. CASE Audit(e)
    BY <2>8 DEF Audit, Insert, Verdict, Unwind, Final
  <2>9. CASE Release(e)
    BY <2>9 DEF Release
  <2>10. CASE SkipCreate(e)
    BY <2>10 DEF SkipCreate
  <2>11. CASE SkipComplete(e)
    BY <2>11 DEF SkipComplete, CloseRow, Final
  <2>12. CASE SkipAudit(e)
    BY <2>12 DEF SkipAudit, Insert, Verdict, Final
  <2> QED
    BY <2>1, <2>2, <2>3, <2>4, <2>5, <2>6, <2>7, <2>8, <2>9, <2>10, <2>11, <2>12
       DEF Execute, RecordSkipped
<1>3. ASSUME NEW f \in Exec \ {e} PROVE RowOf(f)'
  <2>1. RowOf(f)
    BY DEF RowInv
  <2> QED
    BY <1>1, <2>1 DEF RowOf
<1> QED
  BY <1>2, <1>3 DEF RowInv

(* Every step of the system preserves RowInv.                               *)
LEMMA RowStep == TypeOK /\ RowInv /\ [Next]_vars => RowInv'
<1>1. ASSUME RowInv, UNCHANGED vars PROVE RowInv'
  BY <1>1 DEF RowInv, RowOf, vars
<1> QED
  BY <1>1, RowProc, RowExec DEF Next

(* Every row agrees with its call in every reachable state.                 *)
LEMMA RowCorrect == Spec => []RowInv
  BY RowInit, RowStep, TypeCorrect, PTL DEF Spec

(* A row left at running is being worked on, was cut off with its process,  *)
(* or lost its closing update (RunningRowExplained).                        *)
THEOREM NoForgottenRow == Spec => []RunningRowExplained
<1>1. RowInv => RunningRowExplained
  BY DEF RowInv, RowOf, RunningRowExplained
<1> QED
  BY <1>1, RowCorrect, PTL

(* The run history and the audit log agree on every run (AuditAgrees).      *)
THEOREM HistoryMatchesAudit == Spec => []AuditAgrees
<1>1. RowInv => AuditAgrees
  BY DEF RowInv, RowOf, AuditAgrees
<1> QED
  BY <1>1, RowCorrect, PTL

-----------------------------------------------------------------------------
(* Refinement of JobLedger.                                                 *)

ledgerVars == <<[e \in Exec |-> LedgerState(e)], audit>>

(* How a call's run stands, from what RowInv says of its row.               *)
LEMMA LedgerStates ==
  ASSUME TypeOK, RowInv, NEW e \in Exec
  PROVE  /\ e \in lost => LedgerState(e) = "abandoned"
         /\ e \notin lost /\ row[e] = "none" => LedgerState(e) = "unopened"
         /\ e \notin lost /\ row[e] = "running" => LedgerState(e) = "open"
         /\ e \notin lost /\ row[e] \in Final => LedgerState(e) = row[e]
  BY DEF LedgerState, Final

(* A step that writes neither rows nor entries is a stutter of the ledger.  *)
LEMMA LedgerStutter ==
  ASSUME UNCHANGED <<lost, row, audit>>
  PROVE  UNCHANGED ledgerVars
  BY DEF ledgerVars, LedgerState

(* Writing the row of e changes nothing else in the ledger.                 *)
LEMMA LedgerWrite ==
  ASSUME TypeOK, NEW e \in Exec,
         \A f \in Exec \ {e} : row'[f] = row[f] /\ (f \in lost' <=> f \in lost)
  PROVE  [f \in Exec |-> LedgerState(f)]' =
           [[f \in Exec |-> LedgerState(f)] EXCEPT ![e] = LedgerState(e)']
<1>1. \A f \in Exec \ {e} : LedgerState(f)' = LedgerState(f)
  BY DEF LedgerState
<1> QED
  BY <1>1

(* Closing a row finishes the run in the ledger, or abandons it.            *)
LEMMA LedgerClose ==
  ASSUME TypeOK, RowInv, RowInv', TypeOK', NEW e \in Exec,
         pc[e] \in {"complete", "skipComplete"}, CloseRow(e), UNCHANGED <<audit, outcome>>
  PROVE  Ledger!Next
<1>1. row[e] = "running" /\ e \notin lost /\ outcome[e] \in Final
  BY DEF RowInv, RowOf, TypeOK, StoreTypeOK
<1>2. LedgerState(e) = "open"
  BY <1>1, LedgerStates
<1>3. CASE row' = [row EXCEPT ![e] = outcome[e]] /\ UNCHANGED lost
  <2>1. LedgerState(e)' = outcome[e]
    BY <1>1, <1>3 DEF LedgerState, TypeOK, StoreTypeOK, Final
  <2>2. [f \in Exec |-> LedgerState(f)]' =
          [[f \in Exec |-> LedgerState(f)] EXCEPT ![e] = outcome[e]]
    BY <1>3, <2>1, LedgerWrite DEF TypeOK, StoreTypeOK
  <2>3. Ledger!Finish(e)
    BY <1>1, <1>2, <2>2 DEF Ledger!Finish, Ledger!Become, Ledger!Closed, Final
  <2> QED
    BY <2>3 DEF Ledger!Next
<1>4. CASE lost' = lost \cup {e} /\ UNCHANGED row
  <2>1. LedgerState(e)' = "abandoned"
    BY <1>4 DEF LedgerState
  <2>2. [f \in Exec |-> LedgerState(f)]' =
          [[f \in Exec |-> LedgerState(f)] EXCEPT ![e] = "abandoned"]
    BY <1>4, <2>1, LedgerWrite
  <2>3. Ledger!Abandon(e)
    BY <1>2, <2>2 DEF Ledger!Abandon, Ledger!Become
  <2> QED
    BY <2>3 DEF Ledger!Next
<1> QED
  BY <1>3, <1>4 DEF CloseRow

(* Creating a row opens the run in the ledger.                              *)
LEMMA LedgerOpen ==
  ASSUME TypeOK, RowInv, NEW e \in Exec,
         pc[e] \in {"create", "skipCreate"},
         row' = [row EXCEPT ![e] = "running"], UNCHANGED <<audit, lost>>
  PROVE  Ledger!Next
<1>1. row[e] = "none" /\ e \notin lost
  BY DEF RowInv, RowOf
<1>2. LedgerState(e) = "unopened"
  BY <1>1, LedgerStates
<1>3. LedgerState(e)' = "open"
  BY <1>1 DEF LedgerState, TypeOK, StoreTypeOK
<1>4. [f \in Exec |-> LedgerState(f)]' =
        [[f \in Exec |-> LedgerState(f)] EXCEPT ![e] = "open"]
  BY <1>3, LedgerWrite DEF TypeOK, StoreTypeOK
<1>5. Ledger!Open(e)
  BY <1>2, <1>4 DEF Ledger!Open, Ledger!Become
<1> QED
  BY <1>5 DEF Ledger!Next

(* The audit entry of a closed run is one the ledger accepts.               *)
LEMMA LedgerInsert ==
  ASSUME TypeOK, RowInv, NEW e \in Exec,
         pc[e] \in {"audit", "skipAudit"}, Insert(e), UNCHANGED <<row, lost>>
  PROVE  Ledger!Next \/ UNCHANGED ledgerVars
<1>1. CASE UNCHANGED audit
  BY <1>1, LedgerStutter
<1>2. CASE audit' = [audit EXCEPT ![e] = Verdict(e)]
  <2>1. /\ audit[e] = "none" /\ outcome[e] \in Final
        /\ e \in lost \/ row[e] = outcome[e]
    BY DEF RowInv, RowOf, TypeOK, StoreTypeOK
  <2>2. LedgerState(e) = IF e \in lost THEN "abandoned" ELSE outcome[e]
    BY <2>1, LedgerStates
  <2>3. Verdict(e) \in Ledger!Truthful(e)
    BY <2>1, <2>2 DEF Ledger!Truthful, Ledger!Closed, Verdict, Final
  <2>4. UNCHANGED [f \in Exec |-> LedgerState(f)]
    BY DEF LedgerState
  <2>5. Ledger!Record(e)
    BY <1>2, <2>1, <2>3, <2>4 DEF Ledger!Record
  <2> QED
    BY <2>5 DEF Ledger!Next
<1> QED
  BY <1>1, <1>2 DEF Insert

(* Each step of a call is a step of the ledger or none.                     *)
LEMMA LedgerExec ==
  ASSUME TypeOK, RowInv, TypeOK', RowInv', NEW e \in Exec, Execute(e)
  PROVE  Ledger!Next \/ UNCHANGED ledgerVars
<1>1. CASE Enter(e) \/ Preflight(e) \/ Deadline(e) \/ AgentReturns(e) \/ UpdateTimes(e)
           \/ Release(e)
  BY <1>1, LedgerStutter DEF Enter, Preflight, Deadline, AgentReturns, UpdateTimes, Release
<1>2. CASE Create(e) \/ SkipCreate(e)
  <2>1. pc[e] \in {"create", "skipCreate"} /\ UNCHANGED <<audit, lost>>
    BY <1>2 DEF Create, SkipCreate, At
  <2>2. CASE row' = [row EXCEPT ![e] = "running"]
    BY <2>1, <2>2, LedgerOpen
  <2>3. CASE UNCHANGED row
    BY <2>1, <2>3, LedgerStutter
  <2> QED
    BY <1>2, <2>2, <2>3 DEF Create, SkipCreate
<1>3. CASE Complete(e) \/ SkipComplete(e)
  BY <1>3, LedgerClose DEF Complete, SkipComplete, At
<1>4. CASE Audit(e) \/ SkipAudit(e)
  BY <1>4, LedgerInsert DEF Audit, SkipAudit, At
<1> QED
  BY <1>1, <1>2, <1>3, <1>4 DEF Execute, RecordSkipped

(* The scheduler's writes to job_runs and audit_log implement the run       *)
(* ledger (LedgerSpec): opened once, closed at most once, audited at most   *)
(* once and truthfully, in any number of processes sharing the store.       *)
THEOREM ImplementsLedger == Spec => LedgerSpec
<1>1. Init => Ledger!Init
  BY DEF Init, Ledger!Init, LedgerState
<1>2. TypeOK /\ RowInv /\ TypeOK' /\ RowInv' /\ [Next]_vars
        => [Ledger!Next]_ledgerVars
  <2>1. ASSUME UNCHANGED vars PROVE UNCHANGED ledgerVars
    BY <2>1, LedgerStutter DEF vars
  <2>2. ASSUME TypeOK, NEW p \in Proc, ProcNext(p) PROVE UNCHANGED ledgerVars
    BY <2>2, ProcKinds, LedgerStutter DEF Quiet, Starts, Ends, Forget, execVars
  <2> QED
    BY <2>1, <2>2, LedgerExec DEF Next
<1> QED
  BY <1>1, <1>2, TypeCorrect, RowCorrect, PTL
     DEF Spec, LedgerSpec, Ledger!Spec, Ledger!ledger, ledgerVars

-----------------------------------------------------------------------------
(* The times of the last runs.                                              *)

(* The copy that loadJobs is about to write back is what the table holds,   *)
(* but for what another process wrote since.                                *)
CopyInv ==
  \A p \in Proc : phase[p] = "registering" =>
    \A j \in Job \ touched[p] : seen[p][j] = lastRun[j]

(* At first no process is there.                                            *)
LEMMA CopyInit == Init => CopyInv
  BY DEF Init, CopyInv

(* A write of last_run_at is noted for every other process with a copy.     *)
LEMMA CopyTouch ==
  ASSUME TypeOK, CopyInv, NEW w \in Proc, Touch(w), UNCHANGED <<phase, seen>>,
         NEW q \in Proc, q # w, phase[q] = "registering"
  PROVE  \A j \in Job \ touched'[q] : seen'[q][j] = lastRun'[j]
<1>1. touched'[q] = touched[q] \cup {j \in Job : lastRun'[j] # lastRun[j]}
  BY DEF Touch
<1> QED
  BY <1>1 DEF CopyInv

(* A call that ends a run is none of a process that still writes back.      *)
LEMMA CopyExec ==
  ASSUME TypeOK, DrainInv, CopyInv, NEW e \in Exec, Execute(e)
  PROVE  CopyInv'
<1> USE DEF procVars, jobsTable
<1>1. CASE UpdateTimes(e)
  <2>1. UNCHANGED <<phase, seen>>
    BY <1>1 DEF UpdateTimes
  <2>2. CASE UNCHANGED <<lastRun, nextRun, touched>>
    BY <2>1, <2>2 DEF CopyInv
  <2>3. CASE Touch(owner[e])
    <3>1. owner[e] \in Proc
      BY <1>1 DEF UpdateTimes, At, TypeOK, ExecTypeOK
    <3>2. \A q \in Proc : phase[q] = "registering" => q # owner[e]
      BY DEF DrainInv
    <3> QED
      BY <2>1, <2>3, <3>1, <3>2, CopyTouch DEF CopyInv
  <2> QED
    BY <1>1, <2>2, <2>3 DEF UpdateTimes
<1>2. CASE ~UpdateTimes(e)
  <2>1. UNCHANGED <<phase, seen, lastRun, touched>>
    BY <1>2 DEF Execute, Enter, Create, Preflight, Deadline, AgentReturns, Complete, Audit,
       Release, RecordSkipped, SkipCreate, SkipComplete, SkipAudit
  <2> QED
    BY <2>1 DEF CopyInv
<1> QED
  BY <1>1, <1>2

(* A process copies the table, and makes it what its copy says.             *)
LEMMA CopyProc ==
  ASSUME TypeOK, CopyInv, NEW p \in Proc, ProcNext(p)
  PROVE  CopyInv'
<1> USE DEF Goto, execVars, procVars, jobsTable
<1>1. CASE LoadList(p)
  BY <1>1 DEF LoadList, CopyInv, TypeOK, ProcTypeOK
<1>2. CASE LoadRegister(p)
  <2>1. UNCHANGED <<phase, seen>>
    BY <1>2 DEF LoadRegister
  <2>2. CASE UNCHANGED <<lastRun, nextRun, touched>>
    BY <2>1, <2>2 DEF CopyInv
  <2>3. CASE Touch(p) /\ \E j \in Job : lastRun' = [lastRun EXCEPT ![j] = seen[p][j]]
    <3>1. touched'[p] = touched[p]
      BY <2>3 DEF Touch
    <3>2. phase[p] = "registering" => \A j \in Job \ touched'[p] : seen'[p][j] = lastRun'[j]
      BY <2>1, <2>3, <3>1 DEF CopyInv, TypeOK, StoreTypeOK
    <3>3. \A q \in Proc \ {p} : phase[q] = "registering" =>
            \A j \in Job \ touched'[q] : seen'[q][j] = lastRun'[j]
      BY <2>1, <2>3, CopyTouch
    <3> QED
      BY <2>1, <3>2, <3>3 DEF CopyInv
  <2>4. todo[p] \subseteq Job
    BY DEF TypeOK, ProcTypeOK
  <2> QED
    BY <1>2, <2>2, <2>3, <2>4 DEF LoadRegister
<1>3. CASE Launch(p) \/ LoadUpsert(p) \/ CronStart(p) \/ Fire(p) \/ RunNow(p)
           \/ SwitchWrite(p) \/ SwitchEntry(p) \/ Stop(p) \/ Close(p)
  <2>1. /\ UNCHANGED <<lastRun, touched>>
        /\ \A q \in Proc : phase'[q] = "registering" =>
              phase[q] = "registering" /\ seen'[q] = seen[q]
    BY <1>3 DEF Launch, LoadUpsert, CronStart, Fire, RunNow, SwitchWrite, SwitchEntry, Stop, Close,
       TypeOK, ProcTypeOK
  <2> QED
    BY <2>1 DEF CopyInv
<1>4. CASE LoadFails(p) \/ Exit(p) \/ Crash(p)
  <2>1. /\ UNCHANGED <<lastRun, touched>> /\ phase'[p] # "registering"
        /\ \A q \in Proc \ {p} : phase'[q] = phase[q] /\ seen'[q] = seen[q]
    BY <1>4 DEF LoadFails, Exit, Crash, Forget, TypeOK, ProcTypeOK
  <2> QED
    BY <2>1 DEF CopyInv
<1> QED
  BY <1>1, <1>2, <1>3, <1>4 DEF ProcNext, Start, SetEnabled, Shutdown

(* Every step keeps it.                                                     *)
LEMMA CopyStep == TypeOK /\ DrainInv /\ CopyInv /\ [Next]_vars => CopyInv'
<1>1. ASSUME CopyInv, UNCHANGED vars PROVE CopyInv'
  BY <1>1 DEF CopyInv, vars
<1> QED
  BY <1>1, CopyProc, CopyExec DEF Next

(* What Drained rests on holds always.                                      *)
LEMMA DrainCorrect == Spec => []DrainInv
  BY DrainInit, DrainStep, TypeCorrect, PTL DEF Spec

(* A process that writes back changes only what another wrote since its     *)
(* List, and to what it copied.                                             *)
LEMMA WriteBack ==
  ASSUME TypeOK, CopyInv, NEW p \in Proc, LoadRegister(p), NEW j \in Job, lastRun'[j] # lastRun[j]
  PROVE  Overtaken(j)
<1>1. PICK k \in todo[p] : /\ todo' = [todo EXCEPT ![p] = @ \ {k}]
                          /\ lastRun' = [lastRun EXCEPT ![k] = seen[p][k]]
  BY DEF LoadRegister
<1>2. k = j /\ lastRun'[j] = seen[p][j]
  BY <1>1 DEF TypeOK, StoreTypeOK
<1>3. phase[p] = "registering" /\ j \in todo[p] \ todo'[p]
  BY <1>1, <1>2 DEF LoadRegister, TypeOK, ProcTypeOK
<1>4. j \in touched[p]
  BY <1>2, <1>3 DEF CopyInv
<1> QED
  BY <1>2, <1>3, <1>4 DEF Overtaken

(* With any number of processes at once, killed or not, last_run_at moves   *)
(* when a run ends, and else only where a starting process writes back a    *)
(* copy that another has overtaken since it was read (scheduler.go 118-146).*)
THEOREM TimesAreKept == Spec => LastRunKept
<1>1. ASSUME TypeOK, CopyInv, [Next]_vars, NEW j \in Job, lastRun'[j] # lastRun[j]
      PROVE  RunEnded(j) \/ Overtaken(j)
  <2> USE DEF execVars, procVars, jobsTable
  <2>1. Next
    BY <1>1 DEF vars
  <2>2. CASE \E p \in Proc : LoadRegister(p)
    BY <1>1, <2>2, WriteBack
  <2>3. ASSUME NEW p \in Proc, ProcNext(p), ~LoadRegister(p)
        PROVE  FALSE
    BY <1>1, <2>3 DEF ProcNext, Launch, Start, LoadUpsert, LoadList, CronStart, LoadFails,
       Forget, Fire, RunNow, SetEnabled, SwitchWrite, SwitchEntry, Shutdown, Stop, Close, Exit, Crash
  <2>4. ASSUME NEW e \in Exec, Execute(e)
        PROVE  RunEnded(j)
    <3>1. UpdateTimes(e)
      BY <1>1, <2>4 DEF Execute, Enter, Create, Preflight, Deadline, AgentReturns, Complete, Audit,
         Release, RecordSkipped, SkipCreate, SkipComplete, SkipAudit
    <3>2. job[e] = j /\ pc[e] = "times" /\ pc'[e] = "audit"
      BY <1>1, <3>1 DEF UpdateTimes, At, Step, TypeOK, ExecTypeOK, StoreTypeOK
    <3> QED
      BY <3>2 DEF RunEnded
  <2> QED
    BY <2>1, <2>2, <2>3, <2>4 DEF Next
<1>2. TypeOK /\ CopyInv /\ [Next]_vars
        => [\A j \in Job : lastRun'[j] # lastRun[j] => RunEnded(j) \/ Overtaken(j)]_vars
  BY <1>1
<1> QED
  BY <1>2, CopyInit, CopyStep, TypeCorrect, DrainCorrect, PTL DEF Spec, LastRunKept

=============================================================================
