CONSTANTS
  Variables = {1, 2, 3, 4, 5}
  Configurations <- Problems
SPECIFICATION FairSpec
INVARIANTS
  TypeOK
  DatabaseIsEquivalent
  NothingIsLeftToPropagate
  ReasonsExplainTheTrail
PROPERTIES
  LearnedClausesAreNew
  AnswersAreRight
  EveryQuestionIsAnswered
CHECK_DEADLOCK FALSE
