CONSTANTS
  w1 = w1
  w2 = w2
  f1 = f1
  c1 = c1
  c2 = c2
  Workers = {w1, w2, f1}
  FirstSolutionWorkers = {f1}
  Clauses = {c1}
  MinBatches = 1
  MaxBatches = 2
SPECIFICATION Spec
PROPERTIES
  OnlyFullWorkersAreWaitedFor
