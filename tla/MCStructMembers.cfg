CONSTANT Contexts <- MCContexts
SPECIFICATION FairSpec
CHECK_DEADLOCK FALSE
INVARIANT WalkIsComplete
INVARIANT ListsFit
INVARIANT StructsAreDeclaredOnce
INVARIANT FieldsAreMembersWhenAgreed
PROPERTY ReachesMethods
