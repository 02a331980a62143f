SPECIFICATION FairSpec
CONSTANTS
  Configs <- MCConfigs
  MaxTasks = 6
  Budgets <- MCBudgets
CHECK_DEADLOCK FALSE
INVARIANT TypeOK
INVARIANT OneTaskPerMessage
INVARIANT NeverAnswersItself
INVARIANT FollowUpsExplained
PROPERTY InboxSpec
