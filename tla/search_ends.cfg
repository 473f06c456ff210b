CONSTANTS
  w1 = w1
  w2 = w2
  Workers = {w1, w2}
  Solutions = {1, 2}
  Obj <- MCObj
  KMin = 0
  KMax = 6
  DomainMin = 1
  DomainMax = 4
  ClaimedBounds = {1, 2}
  Configurations <- MCShortSearches
  NumSolutionsToKeep = 1
SPECIFICATION FairSpec
PROPERTIES
  SolvedSearchEnds
