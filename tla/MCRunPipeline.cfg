SPECIFICATION Spec
CONSTANTS
    Base = 2
    Inc = 1
    Off = 1
    Empty = 1
    Failed = 1
    Weak = 1
    Named = 1
    Ver = 1
    Integ = 1
    Comp = 0
    Limit = 1
    Plans <- ThreeTasks
    Failures <- Ways
    Remotes = {TRUE, FALSE}
INVARIANTS
    TypeOK
    
    NothingForgotten
    RejectedStaysOut
CHECK_DEADLOCK FALSE
