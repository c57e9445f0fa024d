\* Two runs of two processes on one host compete for one task that an operator moves.
CONSTANTS
    t1 = t1
    t2 = t2
    r1 = r1
    r2 = r2
    w1 = w1
    w2 = w2
    h1 = h1
    Tasks = {t1}
    Runs = {r1, r2}
    Workers = {w1, w2}
    Hosts = {h1}
    TaskOf <- OneTask
    WorkerOf <- OwnProcess
    HostOf <- OneHost
    Deps <- NoDeps
    TTL = 1
    StaleAfter = 1
    OperatorStates = {"queued"}
    Fallible = {w1}
    CliReleased = {}
    NoRun = NoRun
SPECIFICATION Spec
INVARIANTS
    OneActiveLease
PROPERTIES
    KeepsContract
    
