CONSTANT Functions <- MCFunctions
SPECIFICATION Spec
CHECK_DEADLOCK FALSE
INVARIANT TypeOK
INVARIANT StatementsDenoteInstructions
INVARIANT FlowIsLLVMFlow
INVARIANT ReadsSeeSameWrites
INVARIANT LocalsAgree
PROPERTY BuildsExpressions
