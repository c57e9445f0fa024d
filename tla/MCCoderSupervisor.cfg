SPECIFICATION FairSpec
CONSTANTS
  Reconciles = {}
  Cancels = {"c1"}
  PrViews <- MCPrViews
  Usages <- MCUsages
  MaxAttempts = 2
  MaxTokens = 0
  MaxCost = 0
  MaxExecutions = 3
  AutoMerge = TRUE
  MaxFeedback = 1
  MaxCrashes = 1
INVARIANTS
  TypeOK
  RepairsBounded
  EscalatedIsParked
  RecordedIsReal
PROPERTIES
  CoderEndSeen
  
CHECK_DEADLOCK FALSE
