SPECIFICATION FairSpec
CONSTANTS
  Proc = {p1}
  Exec = {e1, e2}
  Job = {j1, j2}
  AllowOverlap = {j2}
  ConfigEnabled = {j1}
  ConfigDisabled = {j2}
  Ops = {"serve", "enable"}
  None = None
CHECK_DEADLOCK FALSE
PROPERTY RunEnds
PROPERTY StopReturns
