CONSTANTS
  t1 = t1
  t2 = t2
  agent = agent
  fs = fs
  lns = lns
  Threads = {t1, t2}
  Tasks = {fs, lns}
  NoTask = NoTask
  FullSolvers = {fs}
  Order <- MCOrder
  MaxTasks = 6
  Configurations <- MCLoops
SPECIFICATION FairSpec
INVARIANTS
  TypeOK
  NoTaskOfAFreedSubsolver
  OneTaskOfAFullSolver
  EveryQueuedTaskHasAThread
  BatchesDoNotOverlap
  AllIsSynchronizedAtTheEnd
PROPERTIES
  SearchDoneEndsLoop
