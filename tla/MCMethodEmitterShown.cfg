CONSTANT Functions <- MCFunctions
SPECIFICATION Spec
CHECK_DEADLOCK FALSE
INVARIANT EveryLoadShown
