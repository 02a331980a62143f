SPECIFICATION FairSpec
CONSTANTS
  Kinds = {"azure", "graph", "custom", "codex"}
  Call = {c1, c2}
  Attempts = 2
  Skew = 1
  Patience = 1
  Saved <- MCSaved
  Lives = {2}
  Fallback = 3
  Bound <- MCBound
  Explored <- MCExplored
  MaxEvents = 3
  None = None
  Junk = Junk
  Crash = Crash
  c1 = c1
  c2 = c2
CHECK_DEADLOCK FALSE
INVARIANT TypeOK
INVARIANT FetchesExplained
INVARIANT EmptyTokenHasCause
INVARIANT ExpiryNeedsDelay
INVARIANT RefreshRefusalExplained
INVARIANT StreamsRead
PROPERTY RefusedTokenDropped
PROPERTY CallEnds
