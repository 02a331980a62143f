SPECIFICATION FairSpec
CONSTANTS
  azure = azure
  slack = slack
  Connector = {azure, slack}
  Registered = {slack}
  Configurations <- MCConfigurations
  Supports <- MCSupports
  Action = {"read", "update"}
  Requests <- MCRequests
  MaxIterations = 2
  MaxCalls = 2
CHECK_DEADLOCK FALSE
INVARIANT TypeOK
INVARIANT WritesArePermitted
INVARIANT TrailFaithful
INVARIANT SpendingAccounted
INVARIANT AllAnswered
INVARIANT PreflightSuffices
PROPERTY ContractSpec
