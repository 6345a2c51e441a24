CONSTANT Jobs <- MCJobs
SPECIFICATION Spec
CHECK_DEADLOCK FALSE
INVARIANT TypeOK
INVARIANT ContextsOfModules
INVARIANT SilenceMeansSuccess
INVARIANT ArchiveIsWhole
