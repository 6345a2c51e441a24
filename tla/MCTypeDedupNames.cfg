CONSTANT TypeContexts <- MCContexts
CONSTANT WalkBound = 24
SPECIFICATION DedupSpec
CHECK_DEADLOCK FALSE
INVARIANT DifferentLayoutsDifferentNames
