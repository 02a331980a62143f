SPECIFICATION SoloSpec
CONSTANTS
  Proc = {p1, p2}
  Exec = {e1}
  Job = {j1}
  AllowOverlap = {}
  ConfigEnabled = {j1}
  ConfigDisabled = {}
  Ops = {"serve", "disable"}
  None = None
CHECK_DEADLOCK FALSE
PROPERTY DisableSticks
