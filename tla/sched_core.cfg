SPECIFICATION Spec
CONSTANTS
  Proc = {p1}
  Exec = {e1, e2, e3}
  Job = {j1}
  AllowOverlap = {}
  ConfigEnabled = {j1}
  ConfigDisabled = {}
  Ops = {"serve", "run", "disable"}
  None = None
CHECK_DEADLOCK FALSE
SYMMETRY Symmetry
INVARIANT TypeOK
INVARIANT NoOverlap
INVARIANT CronRunsDrained
INVARIANT RunningRowExplained
INVARIANT AuditAgrees
PROPERTY SkipJustified
PROPERTY LedgerSpec
