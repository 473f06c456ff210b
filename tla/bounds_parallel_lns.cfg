CONSTANTS
  w1 = w1
  w2 = w2
  l1 = l1
  Vars = {1, 2}
  Scopes = {{1, 2}}
  FullWorkers = {w1, w2}
  LnsWorkers = {l1}
  Configurations <- ParallelSearches
SPECIFICATION Spec
INVARIANTS
  ProofsAreSound
