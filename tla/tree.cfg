CONSTANTS
  x = x
  y = y
  z = z
  w1 = w1
  w2 = w2
  Workers = {w1, w2}
  Configurations <- Searches
SPECIFICATION Spec
SYMMETRY Symmetry
INVARIANTS
  TypeOK
  NoSolutionIsLost
  PathsAreSound
  PathsFollowTheTree
  LeavesAreShared
  SplitsAreCounted
  SomeLeafCanBeSplit
