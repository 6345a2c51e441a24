CONSTANTS
  MaxNodes = 5
  MaxChildren = 3
SPECIFICATION Spec
CHECK_DEADLOCK FALSE
INVARIANT TypeOK
INVARIANT AstIsForest
INVARIANT FlowIsLinear
