CONSTANT None = None
CONSTANT Contexts <- MCContexts
SPECIFICATION TransformSpec
CHECK_DEADLOCK FALSE
INVARIANT TypesGetTheirNames
 
INVARIANT OperandsHaveNodes
