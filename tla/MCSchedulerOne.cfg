\* One dispatch at a time, over the tasks of three projects.
SPECIFICATION FairSpec
CONSTANTS
  t1 = t1
  t2 = t2
  t3 = t3
  t4 = t4
  NoOne = NoOne
  Tasks = {t1, t2, t3, t4}
  Dispatches = {d1}
  ProjectOf <- MCProjectOf
  RepoOf <- ApartRepo
  ScopesOf <- Apart
  DepsOf <- NoDeps
  Filter = {1, 2, 3}
  Withheld = {}
  Linear = {}
  Recurring = {t4}
  MaxActive = 2
  MaxWorkers = 2
  MaxPerProject = 3
  MaxPerRepo = 2
  Limit = 3
  FetchLimit = 4
  MaxCoders = 2
INVARIANTS
  
  OneCoderRun
PROPERTIES
  QueuedLeaves
