\* Two runs of one process, one task each, the second depending on the first.
CONSTANTS
    t1 = t1
    t2 = t2
    r1 = r1
    r2 = r2
    w1 = w1
    w2 = w2
    h1 = h1
    Tasks = {t1, t2}
    Runs = {r1, r2}
    Workers = {w1}
    Hosts = {h1}
    TaskOf <- OwnTask
    WorkerOf <- OneProcess
    HostOf <- OneHost
    Deps <- Chain
    TTL = 1
    StaleAfter = 1
    OperatorStates = {}
    Fallible = {}
    CliReleased = {r1}
    NoRun = NoRun
SPECIFICATION FairSpec
PROPERTIES
    AbandonedLeaseEnds
    ClaimAfterDependencies
