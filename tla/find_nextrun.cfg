SPECIFICATION Spec
CONSTANTS
  Proc = {p1}
  Exec = {e1}
  Job = {j1}
  AllowOverlap = {}
  ConfigEnabled = {j1}
  ConfigDisabled = {}
  Ops = {"serve"}
  None = None
CHECK_DEADLOCK FALSE
INVARIANT NextRunIsReal
