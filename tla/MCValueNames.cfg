CONSTANT Contexts <- MCContexts
SPECIFICATION Spec
CHECK_DEADLOCK FALSE
INVARIANT VariablesAreTheLocals
INVARIANT LatestNameWins
INVARIANT AllParametersOrNone
