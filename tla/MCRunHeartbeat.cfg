\* Safety and liveness, with a database that may raise.
CONSTANTS
    Threshold = 3
    Flaky = TRUE
SPECIFICATION FairSpec
INVARIANTS
    LostMeansGone
    
PROPERTIES
    LossNoticed
    LostRunLeaves
\* The run ends.
CHECK_DEADLOCK FALSE
