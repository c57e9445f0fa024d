SPECIFICATION Spec
CONSTANTS
  t1 = t1
  t2 = t2
  t3 = t3
  t4 = t4
  NoOne = NoOne
  Tasks = {t1, t2, t3}
  Dispatches = {d1, d2}
  ProjectOf <- MCProjectOf
  RepoOf <- OneRepo
  ScopesOf <- MCScopesOf
  DepsOf <- SecondOnFirst
  Filter = {1, 2}
  Withheld = {}
  Linear = {t2}
  Recurring = {}
  MaxActive = 2
  MaxWorkers = 2
  MaxPerProject = 1
  MaxPerRepo = 2
  Limit = 2
  FetchLimit = 3
  MaxCoders = 1
SYMMETRY Alike
INVARIANTS
  PlanWithinLimits
  PlanDisjoint
