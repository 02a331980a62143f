SPECIFICATION Spec
CONSTANTS
  Proc = {p1, p2, p3}
  Exec = {e1}
  Job = {j1}
  AllowOverlap = {}
  ConfigEnabled = {j1}
  ConfigDisabled = {}
  Ops = {"serve", "run"}
  None = None
CHECK_DEADLOCK FALSE
SYMMETRY Symmetry
PROPERTY LastRunKept
