CONSTANT None <- MCNone
CONSTANT Contexts <- MCContexts
SPECIFICATION FairSpec
CHECK_DEADLOCK FALSE
INVARIANT TypeOK
INVARIANT ClassesAreDeclared
INVARIANT InheritanceIsRecorded
INVARIANT MethodMappingIsSound
INVARIANT BindingsAreDispatch
INVARIANT MethodsBelongToTheirDefinition
PROPERTY Terminates
