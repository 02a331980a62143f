SPECIFICATION FairSpec
CONSTANTS
  Nobody = Nobody
  Session = {a, b}
  Address = {v4}
  Answers <- MCAnswers
  Scenarios <- MCScenarios
CHECK_DEADLOCK FALSE
INVARIANT TypeOK
INVARIANT SavedIsKept
INVARIANT ServingIsBuilt
INVARIANT PromptAgreesWithLoad
PROPERTY SetupEnds
