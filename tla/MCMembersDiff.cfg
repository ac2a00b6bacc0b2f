SPECIFICATION Spec
CONSTANTS
    Accounts = {1, 2, 3}
    MaxLen = 3
    Vectors <- MCVectors
INVARIANT NoneForgotten
INVARIANT SortedDiff
CHECK_DEADLOCK FALSE
