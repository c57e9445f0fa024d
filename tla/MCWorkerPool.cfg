SPECIFICATION Spec
CONSTANTS
  Subtasks = {"s1", "s2", "s3", "s4", "s5"}
  DemandsOf <- MCDemands
  Plans <- MCPlans
  EditsOf <- MCEdits
  MayAnswer <- MCAnswers
  MayNote = {""}
  MaySay = {"nothing"}
  Tolerant = TRUE
  NoResult = NoResult
INVARIANTS
  TypeOK
  CompletedOnTarget
  
CHECK_DEADLOCK FALSE
