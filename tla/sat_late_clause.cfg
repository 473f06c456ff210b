CONSTANTS
  Variables = {1, 2, 3, 4, 5}
  Configurations <- LateProblems
SPECIFICATION Spec
PROPERTIES
  AnswersAreRight
CHECK_DEADLOCK FALSE
