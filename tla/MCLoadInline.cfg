CONSTANT Functions <- MCFunctions
SPECIFICATION Spec
CHECK_DEADLOCK FALSE
INVARIANT TypeOK
INVARIANT InlinedReadsUnspoilt
INVARIANT PassInvariant
INVARIANT NoMissedLoad
INVARIANT Reproducible
PROPERTY ImplementsInlineSpec
