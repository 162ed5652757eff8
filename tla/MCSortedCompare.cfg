SPECIFICATION SortedSpec
CONSTANTS
  Objects = {1, 2, 3, 4}
  Ascending = FALSE
  SelfOnly = FALSE
PROPERTY CompareReturns
CHECK_DEADLOCK FALSE
