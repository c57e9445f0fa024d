SPECIFICATION FairSpec
CONSTANTS
  SyncFirst = {TRUE}
  FailFast = {TRUE, FALSE}
  Homes = {"api", "cli"}
INVARIANTS
  TypeOK
  OneEditor
  
  
PROPERTIES
  PromptReturns
CHECK_DEADLOCK FALSE
