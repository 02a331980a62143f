SPECIFICATION Spec
CONSTANTS
  azure = azure
  slack = slack
  Connector = {azure, slack}
  Registered = {azure, slack}
  Configurations <- ExampleConfigurations
  Supports <- MCSupports
  Action = {"read", "send"}
  Requests <- MCRequests
  MaxIterations = 1
  MaxCalls = 1
CHECK_DEADLOCK FALSE
INVARIANT ListedIsGranted
